------------------------- MODULE RuntimeServerProofs -------------------------
(***************************************************************************)
(* Theorems about RuntimeServer, for any requests, directories and sizes of *)
(* chunks: its types, its sessions and locks, and that what it makes of a   *)
(* byte stream is the service that RequestService promises.                *)
(***************************************************************************)
EXTENDS RuntimeServer, SequenceTheorems, TLAPS

\* What the server writes.
LogTypes == [no : 0..MaxRequests, kind : {"event", "answer"}]

\* What the client has written and the decoder has not cut out yet.
stream == buffer \o wire

\* The number of cells of a payload.
Size(no) == sent[no].size

\* What follows the length of frame no, at a distance of j cells.
Follows(no, j) == [no |-> no, part |-> IF j <= Size(no) THEN "blank" ELSE "text"]

\* A frame that begins at cell i of the stream goes on as it was written, as
\* far as the stream goes; it is complete as long as the client writes.
FrameAt(i) ==
    LET no == stream[i].no IN
    /\ \A j \in 1..Size(no) + 1 : i + j <= Len(stream) => stream[i + j] = Follows(no, j)
    /\ i + Size(no) + 2 <= Len(stream) => stream[i + Size(no) + 2].part = "length"
    /\ ~eof => i + Size(no) + 1 <= Len(stream)

\* The types of what the client sends.
StreamTyped ==
    /\ sent \in Seq(Requests) /\ Len(sent) <= MaxRequests
    /\ wire \in Seq(Cells) /\ buffer \in Seq(Cells) /\ eof \in BOOLEAN

\* The stream begins with a frame, and its frames are in the order of their
\* requests: the decoder never loses the border between two of them.
Framed ==
    /\ Len(stream) > 0 => stream[1].part = "length"
    /\ \A i \in 1..Len(stream) : stream[i].no \in 1..Len(sent)
    /\ \A i \in 1..Len(stream) : stream[i].part = "length" => FrameAt(i)
    /\ \A i, j \in 1..Len(stream) : i < j => stream[i].no <= stream[j].no
    /\ \A i, j \in 1..Len(stream) :
          i < j /\ stream[j].part = "length" => stream[i].no < stream[j].no

StreamInv == StreamTyped /\ Framed

-----------------------------------------------------------------------------
(* The stream. *)

LEMMA RequestFields ==
    ASSUME NEW r \in Requests
    PROVE  /\ r.form \in Forms /\ r.id \in BOOLEAN /\ r.method \in Methods
           /\ r.dir \in Dirs /\ r.ws \in Handles /\ r.size \in 1..2
<1>1. r \in [form : Forms, id : BOOLEAN, method : Methods, dir : Dirs, ws : Handles, size : {1, 2}]
  BY RequestsAssumption
<1> QED BY <1>1

LEMMA StreamIsSeq ==
    ASSUME StreamTyped
    PROVE  /\ stream \in Seq(Cells) /\ Len(stream) = Len(buffer) + Len(wire)
           /\ Len(buffer) \in Nat /\ Len(wire) \in Nat /\ Len(stream) \in Nat /\ Len(sent) \in Nat
           /\ \A i \in 1..Len(stream) : stream[i] \in Cells
           /\ \A i \in 1..Len(buffer) : stream[i] = buffer[i]
<1>1. buffer \in Seq(Cells) /\ wire \in Seq(Cells) /\ sent \in Seq(Requests)
  BY DEF StreamTyped
<1>2. /\ buffer \o wire \in Seq(Cells) /\ Len(buffer \o wire) = Len(buffer) + Len(wire)
      /\ \A i \in 1..Len(buffer) + Len(wire) :
             (buffer \o wire)[i] = IF i <= Len(buffer) THEN buffer[i] ELSE wire[i - Len(buffer)]
  BY <1>1, ConcatProperties
<1>3. Len(buffer) \in Nat /\ Len(wire) \in Nat /\ Len(sent) \in Nat
  BY <1>1, LenProperties
<1>4. stream \in Seq(Cells) /\ Len(stream) = Len(buffer) + Len(wire)
  BY <1>2 DEF stream
<1>5. \A i \in 1..Len(buffer) : i \in 1..Len(buffer) + Len(wire) /\ i <= Len(buffer)
  BY <1>3
<1>6. \A i \in 1..Len(buffer) : stream[i] = buffer[i]
  BY <1>2, <1>5 DEF stream
<1>7. \A i \in 1..Len(stream) : stream[i] \in Cells
  BY <1>4, ElementOfSeq
<1> QED BY <1>3, <1>4, <1>6, <1>7

LEMMA SentSize ==
    ASSUME StreamTyped, NEW no \in 1..Len(sent)
    PROVE  sent[no] \in Requests /\ Size(no) \in 1..2
BY ElementOfSeq, RequestFields DEF StreamTyped, Size

\* A client that writes appends one frame.
LEMMA FrameCells ==
    ASSUME NEW no \in 1..MaxRequests, NEW r \in Requests
    PROVE  /\ Frame(no, r) \in Seq(Cells) /\ Len(Frame(no, r)) = r.size + 2
           /\ Frame(no, r)[1] = [no |-> no, part |-> "length"]
           /\ \A j \in 1..r.size + 1 :
                 Frame(no, r)[j + 1] = [no |-> no, part |-> IF j <= r.size THEN "blank" ELSE "text"]
<1> DEFINE header == <<[no |-> no, part |-> "length"], [no |-> no, part |-> "blank"]>>
           Cell(i) == [no |-> no, part |-> IF i < r.size THEN "blank" ELSE "text"]
           payload == [i \in 1..r.size |-> Cell(i)]
<1>s. r.size \in 1..2 /\ r.size \in Nat
  BY RequestFields
<1>1. /\ header \in Seq(Cells) /\ Len(header) = 2 /\ header[1] = [no |-> no, part |-> "length"]
      /\ header[2] = [no |-> no, part |-> "blank"]
  BY DEF Cells
<1>2. payload \in Seq(Cells) /\ Len(payload) = r.size /\ \A i \in 1..r.size : payload[i] = Cell(i)
  <2>1. \A i \in 1..r.size : Cell(i) \in Cells
    BY DEF Cells
  <2>2. payload \in [1..r.size -> Cells]
    BY <2>1
  <2>3. payload \in Seq(Cells)
    BY <1>s, <2>2, SeqDef
  <2>4. DOMAIN payload = 1..Len(payload)
    BY <2>3, LenProperties
  <2> QED BY <1>s, <2>3, <2>4, LenProperties
<1>3. Frame(no, r) = header \o payload
  BY DEF Frame
<1> HIDE DEF header, payload
<1>4. /\ header \o payload \in Seq(Cells) /\ Len(header \o payload) = 2 + r.size
      /\ \A i \in 1..2 + r.size :
             (header \o payload)[i] = IF i <= 2 THEN header[i] ELSE payload[i - 2]
  <2>1. /\ header \o payload \in Seq(Cells) /\ Len(header \o payload) = Len(header) + Len(payload)
        /\ \A i \in 1..Len(header) + Len(payload) :
               (header \o payload)[i] = IF i <= Len(header) THEN header[i] ELSE payload[i - Len(header)]
    BY <1>1, <1>2, ConcatProperties
  <2> QED BY <1>1, <1>2, <2>1
<1>5. (header \o payload)[1] = header[1] /\ (header \o payload)[2] = header[2]
  BY <1>s, <1>4
<1>6. ASSUME NEW j \in 1..r.size + 1
      PROVE  (header \o payload)[j + 1] = [no |-> no, part |-> IF j <= r.size THEN "blank" ELSE "text"]
  <2>1. CASE j = 1
    <3>1. j + 1 = 2 /\ j <= r.size
      BY <1>s, <2>1
    <3> QED BY <1>1, <1>5, <3>1
  <2>2. CASE j # 1
    <3>1. j + 1 \in 1..2 + r.size /\ ~(j + 1 <= 2) /\ j + 1 - 2 = j - 1 /\ j - 1 \in 1..r.size
          /\ (j - 1 < r.size <=> j <= r.size)
      BY <1>s, <2>2
    <3>2. (header \o payload)[j + 1] = Cell(j - 1)
      BY <1>2, <1>4, <3>1
    <3> QED BY <3>1, <3>2
  <2> QED BY <2>1, <2>2
<1> QED BY <1>s, <1>1, <1>3, <1>4, <1>5, <1>6

LEMMA ConcatCells ==
    ASSUME NEW b \in Seq(Cells), NEW w \in Seq(Cells)
    PROVE  /\ b \o w \in Seq(Cells) /\ Len(b \o w) = Len(b) + Len(w)
           /\ Len(b) \in Nat /\ Len(w) \in Nat
           /\ \A i \in 1..Len(b) + Len(w) :
                 (b \o w)[i] = IF i <= Len(b) THEN b[i] ELSE w[i - Len(b)]
BY ConcatProperties, LenProperties

\* A stream from which something is cut at a border in front, or, once the
\* client has gone, anywhere at the end.
LEMMA Cut ==
    ASSUME StreamInv, StreamTyped', sent' = sent, Len(stream') \in Nat,
           NEW p \in 0..Len(stream), Len(stream') <= Len(stream) - p,
           \A i \in 1..Len(stream') : stream'[i] = stream[i + p],
           p + 1 <= Len(stream) => stream[p + 1].part = "length",
           eof' \/ (Len(stream') = Len(stream) - p /\ eof' = eof)
    PROVE  StreamInv'
<1>n. Len(stream) \in Nat /\ p \in Nat
  BY StreamIsSeq DEF StreamInv
<1>i. \A i \in 1..Len(stream') : i + p \in 1..Len(stream)
  BY <1>n
<1>s. \A i \in 1..Len(stream') : stream'[i].no \in 1..Len(sent) /\ Size(stream'[i].no) \in 1..2
  BY <1>i, SentSize DEF StreamInv, Framed
<1>z. \A no : Size(no)' = Size(no)
  BY DEF Size
<1>1. Len(stream') > 0 => stream'[1].part = "length"
  <2> SUFFICES ASSUME Len(stream') > 0 PROVE stream'[1].part = "length"
    OBVIOUS
  <2>1. 1 \in 1..Len(stream') /\ p + 1 <= Len(stream) /\ 1 + p = p + 1
    BY <1>n
  <2> QED BY <2>1
<1>3. ASSUME NEW i \in 1..Len(stream'), stream'[i].part = "length" PROVE FrameAt(i)'
  <2>p. PICK no, size : no = stream'[i].no /\ size = Size(no)
    OBVIOUS
  <2>1. no = stream[i + p].no /\ i + p \in 1..Len(stream) /\ FrameAt(i + p) /\ size \in 1..2
    BY <1>i, <1>s, <1>3, <2>p DEF StreamInv, Framed
  <2>2. /\ \A j \in 1..size + 1 : i + p + j <= Len(stream) => stream[i + p + j] = Follows(no, j)
        /\ i + p + size + 2 <= Len(stream) => stream[i + p + size + 2].part = "length"
        /\ ~eof => i + p + size + 1 <= Len(stream)
    BY <2>1, <2>p DEF FrameAt
  <2>3. ASSUME NEW j \in 1..size + 1, i + j <= Len(stream') PROVE stream'[i + j] = Follows(no, j)
    <3>1. i + j \in 1..Len(stream') /\ i + j + p = i + p + j /\ i + p + j <= Len(stream)
      <4>1. i \in Nat /\ j \in Nat /\ i + j \in Nat /\ 1 <= i + j
        BY <2>1, <2>3
      <4> QED BY <1>n, <2>3, <4>1
    <3> QED BY <2>2, <3>1
  <2>4. ASSUME i + size + 2 <= Len(stream') PROVE stream'[i + size + 2].part = "length"
    <3>1. /\ i + size + 2 \in 1..Len(stream') /\ i + size + 2 + p = i + p + size + 2
          /\ i + p + size + 2 <= Len(stream)
      BY <1>n, <2>1, <2>4
    <3> QED BY <2>2, <3>1
  <2>5. ASSUME ~eof' PROVE i + size + 1 <= Len(stream')
    <3>1. ~eof /\ Len(stream') = Len(stream) - p
      BY <2>5
    <3>2. i + p + size + 1 <= Len(stream)
      BY <2>2, <3>1
    <3> QED BY <1>n, <2>1, <3>1, <3>2
  <2>6. \A j : Follows(no, j)' = Follows(no, j)
    BY <1>z DEF Follows
  <2>7. stream'[i].no = no /\ Size(no)' = size
    BY <1>z, <2>p
  <2> QED BY <2>3, <2>4, <2>5, <2>6, <2>7 DEF FrameAt
<1>4. ASSUME NEW i \in 1..Len(stream'), NEW j \in 1..Len(stream'), i < j
      PROVE  stream'[i].no <= stream'[j].no /\ (stream'[j].part = "length" => stream'[i].no < stream'[j].no)
  <2>1. i + p < j + p
    BY <1>4, <1>n
  <2> QED BY <1>i, <2>1 DEF StreamInv, Framed
<1> QED BY <1>1, <1>s, <1>3, <1>4 DEF StreamInv, Framed

LEMMA CloseStream ==
    ASSUME StreamInv, NEW n \in 0..Len(wire), Close(n)
    PROVE  /\ StreamInv' /\ Len(stream') <= Len(stream)
           /\ \A i \in 1..Len(stream') : stream'[i] = stream[i]
<1>1. /\ buffer \in Seq(Cells) /\ wire \in Seq(Cells) /\ buffer' = buffer /\ sent' = sent
      /\ wire' = SubSeq(wire, 1, n) /\ eof' = TRUE /\ StreamTyped
  BY DEF StreamInv, StreamTyped, Close
<1>2. Len(wire) \in Nat /\ Len(buffer) \in Nat
  BY <1>1, LenProperties
<1>3. /\ wire' \in Seq(Cells) /\ Len(wire') = n /\ \A i \in 1..n : wire'[i] = wire[i]
  <2>1. \A i \in 1..n : wire[i] \in Cells
    BY <1>1, <1>2, ElementOfSeq
  <2>2. /\ SubSeq(wire, 1, n) \in Seq(Cells)
        /\ Len(SubSeq(wire, 1, n)) = IF 1 <= n THEN n - 1 + 1 ELSE 0
        /\ \A i \in 1..n - 1 + 1 : SubSeq(wire, 1, n)[i] = wire[1 + i - 1]
    BY <1>2, <2>1, SubSeqProperties
  <2>3. n \in Nat /\ n - 1 + 1 = n /\ \A i \in 1..n : 1 + i - 1 = i
    BY <1>2
  <2>4. Len(wire') = n
    BY <1>1, <2>2, <2>3
  <2>5. \A i \in 1..n : wire'[i] = wire[i]
    BY <1>1, <2>2, <2>3
  <2> QED BY <1>1, <2>2, <2>4, <2>5
<1>4. /\ Len(stream') = Len(buffer) + n /\ Len(stream) = Len(buffer) + Len(wire)
      /\ \A i \in 1..Len(buffer) + n :
             stream'[i] = IF i <= Len(buffer) THEN buffer[i] ELSE wire'[i - Len(buffer)]
      /\ \A i \in 1..Len(buffer) + Len(wire) :
             stream[i] = IF i <= Len(buffer) THEN buffer[i] ELSE wire[i - Len(buffer)]
  BY <1>1, <1>3, ConcatCells DEF stream
<1>5. ASSUME NEW i \in 1..Len(stream') PROVE stream'[i] = stream[i]
  <2>1. i \in 1..Len(buffer) + Len(wire) /\ i \in 1..Len(buffer) + n
        /\ (i <= Len(buffer) \/ i - Len(buffer) \in 1..n)
    BY <1>2, <1>4
  <2> QED BY <1>3, <1>4, <2>1
<1>6. \A i \in 1..Len(stream') : i + 0 = i
  BY <1>2, <1>4
<1>7. /\ Len(stream') \in Nat /\ Len(stream') <= Len(stream) - 0 /\ 0 \in 0..Len(stream)
      /\ Len(stream') <= Len(stream) /\ (0 + 1 <= Len(stream) => Len(stream) > 0)
  BY <1>2, <1>4
<1>8. 0 + 1 <= Len(stream) => stream[0 + 1].part = "length"
  BY <1>7 DEF StreamInv, Framed
<1>9. StreamTyped'
  BY <1>1, <1>3 DEF StreamTyped
<1>10. \A i \in 1..Len(stream') : stream'[i] = stream[i + 0]
  BY <1>5, <1>6
<1>11. StreamInv'
  BY <1>1, <1>7, <1>8, <1>9, <1>10, Cut
<1> QED BY <1>5, <1>7, <1>11

LEMMA SubSeqCells ==
    ASSUME NEW w \in Seq(Cells), NEW m \in 1..Len(w) + 1, NEW n \in 0..Len(w), m <= n + 1
    PROVE  /\ SubSeq(w, m, n) \in Seq(Cells) /\ Len(SubSeq(w, m, n)) = n - m + 1
           /\ \A i \in 1..n - m + 1 : SubSeq(w, m, n)[i] = w[m + i - 1]
<1>1. Len(w) \in Nat
  BY LenProperties
<1>2. m \in Int /\ n \in Int
  BY <1>1
<1>3. \A i \in m..n : w[i] \in Cells
  <2>1. \A i \in m..n : i \in 1..Len(w)
    BY <1>1
  <2> QED BY <2>1, ElementOfSeq
<1>4. /\ SubSeq(w, m, n) \in Seq(Cells)
      /\ Len(SubSeq(w, m, n)) = IF m <= n THEN n - m + 1 ELSE 0
      /\ \A i \in 1..n - m + 1 : SubSeq(w, m, n)[i] = w[m + i - 1]
  BY <1>2, <1>3, SubSeqProperties
<1>5. (IF m <= n THEN n - m + 1 ELSE 0) = n - m + 1
  BY <1>2
<1> QED BY <1>4, <1>5

\* A read only moves cells from the wire to the buffer.
LEMMA ReadStream ==
    ASSUME StreamInv, NEW n \in 1..MaxChunk, ReadChunk(n)
    PROVE  StreamInv' /\ stream' = stream
<1>1. /\ buffer \in Seq(Cells) /\ wire \in Seq(Cells) /\ sent' = sent /\ eof' = eof
      /\ buffer' = buffer \o SubSeq(wire, 1, n) /\ wire' = SubSeq(wire, n + 1, Len(wire))
      /\ n <= Len(wire) /\ StreamTyped
  BY DEF StreamInv, StreamTyped, ReadChunk, client
<1>2. Len(wire) \in Nat /\ Len(buffer) \in Nat /\ n \in Nat
  BY <1>1, LenProperties, BoundsAssumption
<1>3. /\ 1 \in 1..Len(wire) + 1 /\ n \in 0..Len(wire) /\ 1 <= n + 1 /\ n + 1 \in 1..Len(wire) + 1
      /\ Len(wire) \in 0..Len(wire) /\ n + 1 <= Len(wire) + 1
  BY <1>1, <1>2
<1>4. SubSeq(wire, 1, n) \in Seq(Cells) /\ wire' \in Seq(Cells)
  BY <1>1, <1>3, SubSeqCells
<1>5. stream' = buffer \o (SubSeq(wire, 1, n) \o wire')
  <2>1. stream' = (buffer \o SubSeq(wire, 1, n)) \o wire'
    BY <1>1 DEF stream
  <2>2. \A s, t, u \in Seq(Cells) : (s \o t) \o u = s \o (t \o u)
    BY ConcatAssociative
  <2> QED BY <1>1, <1>4, <2>1, <2>2
<1>6. SubSeq(wire, 1, n) \o wire' = wire
  <2>1. 1 - 1 = 0 /\ n \in 1 - 1..Len(wire) /\ Len(wire) \in n..Len(wire)
    BY <1>1, <1>2
  <2>2. SubSeq(wire, 1, n) \o SubSeq(wire, n + 1, Len(wire)) = SubSeq(wire, 1, Len(wire))
    BY <1>1, <1>3, <2>1, ConcatAdjacentSubSeq
  <2> QED BY <1>1, <2>2, SubSeqFull
<1>7. buffer' \in Seq(Cells)
  BY <1>1, <1>4, ConcatCells
<1>8. stream' = stream
  BY <1>5, <1>6 DEF stream
<1>9. StreamTyped'
  BY <1>1, <1>4, <1>7 DEF StreamTyped
<1>10. Framed'
  <2>1. \A no : Size(no)' = Size(no)
    BY <1>1 DEF Size
  <2>2. \A i : FrameAt(i)' <=> FrameAt(i)
    BY <1>1, <1>8, <2>1 DEF FrameAt, Follows
  <2> QED BY <1>1, <1>8, <2>2 DEF Framed, StreamInv
<1> QED BY <1>8, <1>9, <1>10 DEF StreamInv

\* The buffer begins with a length, and its first blank line is the next cell:
\* the first one of the payload is never taken for the end of the header.
LEMMA HeaderFound ==
    ASSUME StreamInv
    PROVE  /\ Len(buffer) < 2 => HeaderEnd = 0
           /\ Len(buffer) >= 2 => HeaderEnd = 2
           /\ Len(buffer) >= 1 => /\ buffer[1].part = "length" /\ buffer[1] = stream[1]
                                  /\ buffer[1].no \in 1..Len(sent)
<1>1. /\ Len(stream) = Len(buffer) + Len(wire) /\ Len(buffer) \in Nat /\ Len(wire) \in Nat
      /\ Len(stream) \in Nat
      /\ \A i \in 1..Len(buffer) : stream[i] = buffer[i]
  BY StreamIsSeq DEF StreamInv
<1>2. DOMAIN buffer = 1..Len(buffer)
  BY LenProperties DEF StreamInv, StreamTyped
<1>3. ASSUME Len(buffer) >= 1
      PROVE  buffer[1].part = "length" /\ buffer[1] = stream[1] /\ buffer[1].no \in 1..Len(sent)
  <2>1. 1 \in 1..Len(buffer) /\ Len(stream) > 0 /\ 1 \in 1..Len(stream)
    BY <1>1, <1>3
  <2>2. stream[1].part = "length" /\ stream[1].no \in 1..Len(sent)
    BY <2>1 DEF StreamInv, Framed
  <2> QED BY <1>1, <2>1, <2>2
<1>4. ASSUME Len(buffer) >= 2 PROVE buffer[2].part = "blank"
  <2>1. /\ 1 \in 1..Len(stream) /\ 1 + 1 = 2 /\ 2 <= Len(stream) /\ 2 \in 1..Len(buffer)
    BY <1>1, <1>4
  <2>p. PICK no : no = stream[1].no
    OBVIOUS
  <2>2. FrameAt(1) /\ Size(no) \in 1..2
    BY <1>3, <1>4, <1>1, <2>1, <2>p, SentSize DEF StreamInv, Framed
  <2>3. 1 \in 1..Size(no) + 1 /\ 1 <= Size(no)
    BY <2>2
  <2>4. stream[2] = Follows(no, 1)
    BY <2>1, <2>2, <2>3, <2>p DEF FrameAt
  <2> QED BY <1>1, <2>1, <2>3, <2>4 DEF Follows
<1> DEFINE blank == {i \in DOMAIN buffer : buffer[i].part = "blank"}
<1>5. HeaderEnd = IF blank = {} THEN 0 ELSE CHOOSE i \in blank : \A j \in blank : i <= j
  BY DEF HeaderEnd
<1>6. ASSUME Len(buffer) < 2 PROVE blank = {}
  <2>1. \A i \in 1..Len(buffer) : i = 1 /\ Len(buffer) >= 1
    BY <1>1, <1>6
  <2> QED BY <1>2, <1>3, <2>1
<1>7. ASSUME Len(buffer) >= 2
      PROVE  2 \in blank /\ \A i \in blank : 2 <= i
  <2>1. 2 \in DOMAIN buffer /\ \A i \in DOMAIN buffer : i = 1 \/ 2 <= i
    BY <1>1, <1>2, <1>7
  <2>2. 1 \notin blank
    BY <1>1, <1>3, <1>7
  <2> QED BY <1>4, <1>7, <2>1, <2>2
<1>8. \A i \in blank : i \in Int
  BY <1>1, <1>2
<1> HIDE DEF blank
<1>9. ASSUME Len(buffer) >= 2 PROVE HeaderEnd = 2
  <2>1. \A i \in blank : (\A j \in blank : i <= j) => i = 2
    BY <1>7, <1>8, <1>9
  <2>2. \E i \in blank : \A j \in blank : i <= j
    BY <1>7, <1>9
  <2>3. (CHOOSE i \in blank : \A j \in blank : i <= j) = 2
    BY <2>1, <2>2
  <2> QED BY <1>5, <1>7, <1>9, <2>3
<1> QED BY <1>3, <1>5, <1>6, <1>9

\* What is cut out is the payload of the first frame, and the stream goes on
\* with the next one.
LEMMA ExtractStream ==
    ASSUME StreamInv, ExtractMessage
    PROVE  /\ StreamInv' /\ Len(stream) > 0
           /\ \A i \in 1..Len(stream') : \E j \in 1..Len(stream) :
                 stream'[i] = stream[j] /\ stream[1].no < stream[j].no
           /\ \E payload \in Seq(Cells) :
                 messages' = Append(messages, payload) /\ Sender(payload) = stream[1].no
<1>1. /\ buffer \in Seq(Cells) /\ wire \in Seq(Cells) /\ sent' = sent /\ eof' = eof /\ wire' = wire
      /\ StreamTyped /\ HeaderEnd > 0 /\ Len(buffer) >= PayloadEnd
      /\ buffer' = SubSeq(buffer, PayloadEnd + 1, Len(buffer))
      /\ messages' = Append(messages, SubSeq(buffer, HeaderEnd + 1, PayloadEnd))
  BY DEF StreamInv, StreamTyped, ExtractMessage, client
<1>2. /\ Len(stream) = Len(buffer) + Len(wire) /\ Len(buffer) \in Nat /\ Len(wire) \in Nat
      /\ Len(stream) \in Nat /\ \A i \in 1..Len(buffer) : stream[i] = buffer[i]
  BY <1>1, StreamIsSeq
<1>p. PICK no, size : no = stream[1].no /\ size = Size(no)
  OBVIOUS
<1>3. HeaderEnd = 2 /\ Len(buffer) >= 2 /\ buffer[1].no = no /\ no \in 1..Len(sent)
  BY <1>1, <1>2, <1>p, HeaderFound
<1>4. size \in 1..2 /\ PayloadEnd = size + 2
  <2>1. size \in 1..2
    BY <1>1, <1>3, <1>p, SentSize
  <2> QED BY <1>3, <1>p, <2>1 DEF PayloadEnd, Size
<1>5. /\ 1 \in 1..Len(stream) /\ 1 \in 1..Len(buffer) /\ Len(stream) > 0
      /\ size + 2 <= Len(buffer) /\ size + 2 + 1 = size + 3 /\ size + 2 <= Len(stream)
  <2>1. size + 2 <= Len(buffer)
    BY <1>1, <1>4
  <2> QED BY <2>1, <1>2, <1>4
<1>6. FrameAt(1)
  BY <1>5 DEF StreamInv, Framed
<1>7. /\ \A j \in 1..size + 1 : 1 + j <= Len(stream) => stream[1 + j] = Follows(no, j)
      /\ 1 + size + 2 <= Len(stream) => stream[1 + size + 2].part = "length"
  BY <1>6, <1>p DEF FrameAt
<1>8. /\ size + 2 + 1 <= Len(stream) => stream[size + 2 + 1].part = "length"
      /\ size + 3 <= Len(stream) => stream[size + 3].part = "length"
  <2>1. 1 + size + 2 = size + 2 + 1 /\ 1 + size + 2 = size + 3
    BY <1>4
  <2> QED BY <1>7, <2>1
<1>9. /\ buffer' \in Seq(Cells) /\ Len(buffer') = Len(buffer) - (size + 2)
      /\ \A i \in 1..Len(buffer) - (size + 2) : buffer'[i] = buffer[i + (size + 2)]
  <2>1. /\ size + 3 \in 1..Len(buffer) + 1 /\ Len(buffer) \in 0..Len(buffer) /\ size + 3 <= Len(buffer) + 1
        /\ Len(buffer) - (size + 3) + 1 = Len(buffer) - (size + 2)
        /\ \A i \in 1..Len(buffer) - (size + 2) : size + 3 + i - 1 = i + (size + 2)
    BY <1>2, <1>4, <1>5
  <2>2. buffer' = SubSeq(buffer, size + 3, Len(buffer))
    BY <1>1, <1>4, <1>5
  <2>3. /\ buffer' \in Seq(Cells) /\ Len(buffer') = Len(buffer) - (size + 3) + 1
        /\ \A i \in 1..Len(buffer) - (size + 3) + 1 : buffer'[i] = buffer[size + 3 + i - 1]
    BY <1>1, <2>1, <2>2, SubSeqCells
  <2> QED BY <2>1, <2>3
<1>10. /\ Len(stream') = Len(stream) - (size + 2) /\ Len(stream') \in Nat
       /\ \A i \in 1..Len(stream') : stream'[i] = stream[i + (size + 2)]
  <2>1. /\ Len(stream') = Len(buffer') + Len(wire)
        /\ \A i \in 1..Len(buffer') + Len(wire) :
               stream'[i] = IF i <= Len(buffer') THEN buffer'[i] ELSE wire[i - Len(buffer')]
    BY <1>1, <1>9, ConcatCells DEF stream
  <2>2. \A i \in 1..Len(buffer) + Len(wire) :
            stream[i] = IF i <= Len(buffer) THEN buffer[i] ELSE wire[i - Len(buffer)]
    BY <1>1, ConcatCells DEF stream
  <2>3. Len(stream') = Len(stream) - (size + 2) /\ Len(stream') \in Nat
    BY <1>2, <1>4, <1>5, <1>9, <2>1
  <2>4. ASSUME NEW i \in 1..Len(stream') PROVE stream'[i] = stream[i + (size + 2)]
    <3>1. /\ i + (size + 2) \in 1..Len(buffer) + Len(wire) /\ i \in 1..Len(buffer') + Len(wire)
          /\ (i <= Len(buffer') <=> i + (size + 2) <= Len(buffer))
          /\ i - Len(buffer') = i + (size + 2) - Len(buffer)
          /\ (i <= Len(buffer') => i \in 1..Len(buffer) - (size + 2))
      BY <1>2, <1>4, <1>5, <1>9, <2>1
    <3>2. CASE i <= Len(buffer')
      BY <1>9, <2>1, <2>2, <3>1, <3>2
    <3>3. CASE ~(i <= Len(buffer'))
      <4>1. stream'[i] = wire[i - Len(buffer')]
        BY <2>1, <3>1, <3>3
      <4>2. PICK j : j = i + (size + 2)
        OBVIOUS
      <4>3. /\ j \in 1..Len(buffer) + Len(wire) /\ ~(j <= Len(buffer))
            /\ j - Len(buffer) = i - Len(buffer')
        BY <1>2, <1>4, <1>9, <3>1, <3>3, <4>2
      <4>4. stream[j] = wire[j - Len(buffer)]
        BY <2>2, <4>3
      <4>5. stream[j] = stream'[i]
        BY <4>1, <4>3, <4>4
      <4> QED BY <4>2, <4>5
    <3> QED BY <3>2, <3>3
  <2> QED BY <2>3, <2>4
<1>11. StreamInv'
  <2>1. StreamTyped'
    BY <1>1, <1>9 DEF StreamTyped
  <2>2. size + 2 \in 0..Len(stream) /\ Len(stream') <= Len(stream) - (size + 2)
    BY <1>2, <1>4, <1>5, <1>10
  <2> QED BY <1>1, <1>8, <1>10, <2>1, <2>2, Cut
<1>12. ASSUME NEW i \in 1..Len(stream')
       PROVE  \E j \in 1..Len(stream) : stream'[i] = stream[j] /\ stream[1].no < stream[j].no
  <2>1. /\ i + (size + 2) \in 1..Len(stream) /\ size + 3 \in 1..Len(stream) /\ 1 < size + 3
        /\ size + 3 <= i + (size + 2) /\ size + 2 + 1 <= Len(stream)
    BY <1>2, <1>4, <1>5, <1>10
  <2>2. stream[1].no < stream[size + 3].no
    BY <1>5, <1>8, <2>1 DEF StreamInv, Framed
  <2>3. size + 3 = i + (size + 2) \/ size + 3 < i + (size + 2)
    BY <1>4, <2>1
  <2>4. stream[size + 3].no = stream[i + (size + 2)].no \/ stream[size + 3].no <= stream[i + (size + 2)].no
    BY <2>1, <2>3 DEF StreamInv, Framed
  <2>5. /\ stream[1].no \in Int /\ stream[size + 3].no \in Int /\ stream[i + (size + 2)].no \in Int
    BY <1>5, <2>1 DEF StreamInv, Framed
  <2>6. stream[1].no < stream[i + (size + 2)].no
    BY <2>2, <2>4, <2>5
  <2> QED BY <1>10, <2>1, <2>6
<1>13. \E payload \in Seq(Cells) : messages' = Append(messages, payload) /\ Sender(payload) = stream[1].no
  <2> DEFINE payload == SubSeq(buffer, 3, size + 2)
  <2>1. messages' = Append(messages, payload)
    BY <1>1, <1>3, <1>4
  <2>2. /\ payload \in Seq(Cells) /\ Len(payload) = size
        /\ \A i \in 1..size : payload[i] = buffer[i + 2]
    <3>1. PICK n : n = size + 2
      OBVIOUS
    <3>2. /\ 3 \in 1..Len(buffer) + 1 /\ n \in 0..Len(buffer) /\ 3 <= n + 1 /\ n - 3 + 1 = size
          /\ \A i \in 1..size : 3 + i - 1 = i + 2
      BY <1>2, <1>4, <1>5, <3>1
    <3>3. payload = SubSeq(buffer, 3, n)
      BY <3>1
    <3> HIDE DEF payload
    <3>4. /\ payload \in Seq(Cells) /\ Len(payload) = n - 3 + 1
          /\ \A i \in 1..n - 3 + 1 : payload[i] = buffer[3 + i - 1]
      BY <1>1, <3>2, <3>3, SubSeqCells
    <3> QED BY <3>2, <3>4
  <2> HIDE DEF payload
  <2>3. ASSUME NEW i \in 1..size PROVE payload[i] = Follows(no, i + 1)
    <3>1. /\ i + 1 \in 1..size + 1 /\ 1 + (i + 1) <= Len(stream) /\ 1 + (i + 1) = i + 2
          /\ i + 2 \in 1..Len(buffer)
      BY <1>2, <1>4, <1>5
    <3>2. stream[i + 2] = Follows(no, i + 1)
      BY <1>7, <3>1
    <3> QED BY <1>2, <2>2, <3>1, <3>2
  <2>4. DOMAIN payload = 1..size
    BY <2>2, LenProperties
  <2>5. \A i \in DOMAIN payload : payload[i].no = no
    BY <2>3, <2>4 DEF Follows
  <2>6. payload[Len(payload)].part = "text"
    <3>1. size \in 1..size /\ ~(size + 1 <= size)
      BY <1>4
    <3> QED BY <1>p, <2>2, <2>3, <3>1 DEF Follows
  <2>7. payload[1].no = no
    <3>1. 1 \in 1..size
      BY <1>4
    <3> QED BY <2>4, <2>5, <3>1
  <2>8. Sender(payload) = stream[1].no
    BY <1>p, <2>5, <2>6, <2>7 DEF Sender
  <2> QED BY <2>1, <2>2, <2>8
<1> QED BY <1>5, <1>11, <1>12, <1>13

LEMMA SendStream ==
    ASSUME StreamInv, NEW r \in Requests, Send(r)
    PROVE  /\ StreamInv'
           /\ \A i \in 1..Len(stream') :
                 \/ \E j \in 1..Len(stream) : stream'[i] = stream[j]
                 \/ stream'[i].no = Len(sent) + 1
           /\ Len(sent') = Len(sent) + 1 /\ \A no \in 1..Len(sent) : sent'[no] = sent[no]
<1> DEFINE cells == Frame(Len(sent) + 1, r)
<1>1. /\ buffer \in Seq(Cells) /\ wire \in Seq(Cells) /\ sent \in Seq(Requests) /\ eof = FALSE
      /\ Len(sent) < MaxRequests /\ sent' = Append(sent, r) /\ wire' = wire \o cells
      /\ eof' = eof /\ buffer' = buffer /\ StreamTyped
  BY DEF StreamInv, StreamTyped, Send
<1>2. Len(sent) \in Nat /\ Len(sent) + 1 \in 1..MaxRequests /\ MaxRequests \in Nat
  BY <1>1, BoundsAssumption, LenProperties
<1>3. /\ sent' \in Seq(Requests) /\ Len(sent') = Len(sent) + 1 /\ sent'[Len(sent) + 1] = r
      /\ \A no \in 1..Len(sent) : sent'[no] = sent[no]
  BY <1>1, AppendProperties
<1>4. /\ cells \in Seq(Cells) /\ Len(cells) = r.size + 2
      /\ cells[1] = [no |-> Len(sent) + 1, part |-> "length"]
      /\ \A j \in 1..r.size + 1 :
            cells[j + 1] = [no |-> Len(sent) + 1, part |-> IF j <= r.size THEN "blank" ELSE "text"]
  BY <1>2, FrameCells
<1> HIDE DEF cells
<1>5. /\ stream \in Seq(Cells) /\ Len(stream) \in Nat
  BY <1>1, StreamIsSeq
<1>6. wire' \in Seq(Cells) /\ stream' = stream \o cells
  <2>1. wire' \in Seq(Cells) /\ stream' = buffer \o (wire \o cells)
    BY <1>1, <1>4, ConcatCells DEF stream
  <2>2. \A s, t, u \in Seq(Cells) : (s \o t) \o u = s \o (t \o u)
    BY ConcatAssociative
  <2> QED BY <1>1, <1>4, <2>1, <2>2 DEF stream
<1>p. PICK N, n, size : N = Len(stream) /\ n = Len(sent) + 1 /\ size = r.size
  OBVIOUS
<1>7. N \in Nat /\ n \in 1..MaxRequests /\ size \in 1..2 /\ n = Len(sent') /\ n - 1 = Len(sent)
  BY <1>2, <1>3, <1>5, <1>p, RequestFields
<1>8. /\ stream' \in Seq(Cells) /\ Len(stream') = N + size + 2
      /\ \A i \in 1..N : stream'[i] = stream[i]
      /\ \A k \in 1..size + 2 : stream'[N + k] = cells[k]
  <2>1. /\ stream' \in Seq(Cells) /\ Len(stream') = N + (size + 2)
        /\ \A i \in 1..N + (size + 2) : stream'[i] = IF i <= N THEN stream[i] ELSE cells[i - N]
    BY <1>4, <1>5, <1>6, <1>p, ConcatCells
  <2>2. \A i \in 1..N : i \in 1..N + (size + 2) /\ i <= N
    BY <1>7
  <2>3. \A k \in 1..size + 2 : N + k \in 1..N + (size + 2) /\ ~(N + k <= N) /\ N + k - N = k
    BY <1>7
  <2>4. N + (size + 2) = N + size + 2
    BY <1>7
  <2>5. ASSUME NEW k \in 1..size + 2 PROVE stream'[N + k] = cells[k]
    <3>1. PICK i : i = N + k
      OBVIOUS
    <3>2. i \in 1..N + (size + 2) /\ ~(i <= N) /\ i - N = k
      BY <1>7, <3>1
    <3>3. stream'[i] = cells[i - N]
      BY <2>1, <3>2
    <3> QED BY <3>1, <3>2, <3>3
  <2> QED BY <2>1, <2>2, <2>4, <2>5
\* Where the new frame lies in the stream.
<1>9. /\ stream'[N + 1] = [no |-> n, part |-> "length"]
      /\ \A j \in 1..size + 1 :
            stream'[N + 1 + j] = [no |-> n, part |-> IF j <= size THEN "blank" ELSE "text"]
  <2>1. 1 \in 1..size + 2 /\ \A j \in 1..size + 1 : j + 1 \in 1..size + 2 /\ N + 1 + j = N + (j + 1)
    BY <1>7
  <2>2. stream'[N + 1] = [no |-> n, part |-> "length"]
    BY <1>4, <1>8, <1>p, <2>1
  <2>3. ASSUME NEW j \in 1..size + 1
        PROVE  stream'[N + 1 + j] = [no |-> n, part |-> IF j <= size THEN "blank" ELSE "text"]
    <3>1. cells[j + 1] = [no |-> n, part |-> IF j <= size THEN "blank" ELSE "text"]
      BY <1>4, <1>p
    <3> QED BY <1>8, <2>1, <3>1
  <2> QED BY <2>2, <2>3
<1>10. \A i \in 1..Len(stream') :
          \/ i \in 1..N
          \/ i = N + 1
          \/ \E j \in 1..size + 1 : i = N + 1 + j
  <2>1. ASSUME NEW i \in 1..Len(stream'), i > N + 1 PROVE \E j \in 1..size + 1 : i = N + 1 + j
    <3>1. i - (N + 1) \in 1..size + 1 /\ i = N + 1 + (i - (N + 1))
      BY <1>7, <1>8, <2>1
    <3> QED BY <3>1
  <2>2. \A i \in 1..Len(stream') : i \in 1..N \/ i = N + 1 \/ i > N + 1
    BY <1>7, <1>8
  <2> QED BY <2>1, <2>2
<1>11. \A i \in 1..Len(stream') :
          \/ i \in 1..N /\ stream'[i] = stream[i]
          \/ ~(i \in 1..N) /\ stream'[i].no = n /\ (stream'[i].part = "length" => i = N + 1)
  <2>1. ~(N + 1 \in 1..N) /\ \A j \in 1..size + 1 : ~(N + 1 + j \in 1..N)
    BY <1>7
  <2>2. \A j \in 1..size + 1 :
            /\ ~(N + 1 + j \in 1..N) /\ stream'[N + 1 + j].no = n
            /\ stream'[N + 1 + j].part # "length"
    <3>1. ASSUME NEW j \in 1..size + 1, NEW c, c = [no |-> n, part |-> IF j <= size THEN "blank" ELSE "text"]
          PROVE  c.no = n /\ c.part # "length"
      BY <3>1
    <3> QED BY <1>9, <2>1, <3>1
  <2>3. stream'[N + 1].no = n /\ ~(N + 1 \in 1..N)
    BY <1>9, <2>1
  <2> QED BY <1>8, <1>10, <2>2, <2>3
<1>12. /\ \A i \in 1..N : stream[i].no \in 1..Len(sent) /\ Size(stream[i].no) \in 1..2
       /\ \A i \in 1..N : stream[i].part = "length" => FrameAt(i)
       /\ \A i, j \in 1..N : i < j => stream[i].no <= stream[j].no
       /\ \A i, j \in 1..N : i < j /\ stream[j].part = "length" => stream[i].no < stream[j].no
       /\ N > 0 => stream[1].part = "length"
  BY <1>1, <1>p, SentSize DEF StreamInv, Framed
<1>13. \A no \in 1..Len(sent) : Size(no)' = Size(no) /\ \A j : Follows(no, j)' = Follows(no, j)
  BY <1>3 DEF Size, Follows
<1>14. Len(stream') > 0 => stream'[1].part = "length"
  <2>1. N > 0 => 1 \in 1..N
    BY <1>7
  <2>2. ~(N > 0) => N + 1 = 1
    BY <1>7
  <2> QED BY <1>8, <1>9, <1>12, <2>1, <2>2
<1>15. \A i \in 1..Len(stream') : stream'[i].no \in 1..Len(sent')
  <2>1. n \in 1..Len(sent') /\ \A k \in 1..Len(sent) : k \in 1..Len(sent')
    BY <1>2, <1>3, <1>7
  <2> QED BY <1>11, <1>12, <2>1
<1>16. ASSUME NEW i \in 1..Len(stream'), stream'[i].part = "length" PROVE FrameAt(i)'
  <2>1. CASE i \in 1..N
    <3>p. PICK no, s : no = stream[i].no /\ s = Size(no)
      OBVIOUS
    <3>1. stream'[i] = stream[i] /\ FrameAt(i) /\ no \in 1..Len(sent) /\ s \in 1..2
      BY <1>8, <1>12, <1>16, <2>1, <3>p
    <3>2. /\ \A j \in 1..s + 1 : i + j <= N => stream[i + j] = Follows(no, j)
          /\ i + s + 2 <= N => stream[i + s + 2].part = "length"
          /\ i + s + 1 <= N
      BY <1>1, <1>p, <3>1, <3>p DEF FrameAt
    <3>3. i \in Nat
      BY <2>1
    <3>4. ASSUME NEW j \in 1..s + 1 PROVE stream'[i + j] = Follows(no, j)
      <4>1. i + j \in 1..N /\ i + j <= N
        <5>1. j \in 1..s + 1 /\ s \in 1..2 /\ i \in Nat /\ i >= 1 /\ i + s + 1 <= N
          BY <2>1, <3>1, <3>2, <3>3
        <5> QED BY <1>7, <5>1
      <4> QED BY <1>8, <3>2, <4>1
    <3>5. stream'[i + s + 2].part = "length"
      <4>1. CASE i + s + 2 <= N
        <5>1. i + s + 2 \in 1..N
          BY <1>7, <3>1, <3>3, <4>1
        <5> QED BY <1>8, <3>2, <4>1, <5>1
      <4>2. CASE ~(i + s + 2 <= N)
        <5>1. i + s + 2 = N + 1
          BY <1>7, <3>1, <3>2, <3>3, <4>2
        <5> QED BY <1>9, <5>1
      <4> QED BY <4>1, <4>2
    <3>6. i + s + 1 <= Len(stream')
      BY <1>7, <1>8, <3>1, <3>2, <3>3
    <3>7. stream'[i].no = no /\ Size(no)' = s /\ \A j : Follows(no, j)' = Follows(no, j)
      BY <1>13, <3>1, <3>p
    <3> QED BY <3>4, <3>5, <3>6, <3>7 DEF FrameAt
  <2>2. CASE ~(i \in 1..N)
    <3>1. i = N + 1 /\ stream'[i].no = n
      BY <1>11, <1>16, <2>2
    <3>2. Size(n)' = size
      BY <1>3, <1>p DEF Size
    <3>3. \A j \in 1..size + 1 : stream'[i + j] = Follows(n, j)'
      BY <1>9, <3>1, <3>2 DEF Follows
    <3>4. ~(i + size + 2 <= Len(stream')) /\ i + size + 1 <= Len(stream')
      BY <1>7, <1>8, <3>1
    <3> QED BY <3>1, <3>2, <3>3, <3>4 DEF FrameAt
  <2> QED BY <2>1, <2>2
<1>17. ASSUME NEW i \in 1..Len(stream'), NEW j \in 1..Len(stream'), i < j
       PROVE  stream'[i].no <= stream'[j].no /\ (stream'[j].part = "length" => stream'[i].no < stream'[j].no)
  <2>1. CASE j \in 1..N
    <3>1. i \in 1..N
      BY <1>7, <1>17, <2>1
    <3> QED BY <1>8, <1>12, <1>17, <2>1, <3>1
  <2>2. CASE ~(j \in 1..N)
    <3>1. stream'[j].no = n /\ (stream'[j].part = "length" => j = N + 1)
      BY <1>11, <2>2
    <3>2. CASE i \in 1..N
      <4>1. stream'[i].no \in 1..Len(sent)
        BY <1>8, <1>12, <3>2
      <4>2. stream'[i].no < n
        BY <1>2, <1>p, <4>1
      <4>3. stream'[i].no <= n
        BY <1>2, <1>p, <4>1
      <4> QED BY <3>1, <4>2, <4>3
    <3>3. CASE ~(i \in 1..N)
      <4>1. stream'[i].no = n
        BY <1>11, <3>3
      <4>2. j # N + 1
        BY <1>7, <1>17, <3>3
      <4>3. n <= n
        BY <1>7
      <4> QED BY <3>1, <4>1, <4>2, <4>3
    <3> QED BY <3>2, <3>3
  <2> QED BY <2>1, <2>2
<1>18. StreamTyped'
  BY <1>1, <1>2, <1>3, <1>6 DEF StreamTyped
<1>19. StreamInv'
  BY <1>14, <1>15, <1>16, <1>17, <1>18 DEF StreamInv, Framed
<1> QED BY <1>3, <1>8, <1>11, <1>19, <1>p

LEMMA StreamInit == Init => StreamInv
<1> SUFFICES ASSUME Init PROVE StreamInv
  OBVIOUS
<1>1. /\ sent \in Seq(Requests) /\ Len(sent) = 0 /\ wire = <<>> /\ buffer = <<>>
      /\ wire \in Seq(Cells) /\ buffer \in Seq(Cells) /\ eof = FALSE
  BY DEF Init
<1>2. Len(stream) = 0
  BY <1>1, ConcatCells DEF stream
<1>3. StreamTyped
  <2>1. Len(sent) <= MaxRequests
    BY <1>1, BoundsAssumption
  <2>2. eof \in BOOLEAN
    BY <1>1
  <2> QED BY <1>1, <2>1, <2>2 DEF StreamTyped
<1>4. ~(Len(stream) > 0) /\ 1..Len(stream) = {}
  BY <1>2
<1> QED BY <1>3, <1>4 DEF StreamInv, Framed

\* What every other step does with the stream: nothing.
LEMMA StreamKept ==
    ASSUME StreamInv, UNCHANGED <<sent, wire, eof, buffer>>
    PROVE  StreamInv' /\ stream' = stream
BY DEF StreamInv, StreamTyped, Framed, FrameAt, Follows, Size, stream

-----------------------------------------------------------------------------
(* The requests that are waiting. *)

\* Requests are numbered, and a message is known by the number in its first cell.
Numbers == 1..MaxRequests
Dispatch == {"parsing", "working", "answering"}
Senders(ms) == [i \in DOMAIN ms |-> Sender(ms[i])]

\* The types of what has been cut out of the stream, and of what has been written.
QueueTyped ==
    /\ pc \in Places /\ current \in 0..MaxRequests /\ (pc \in Dispatch => current \in Numbers)
    /\ messages \in Seq(Seq(Cells)) /\ Senders(messages) \in Seq(Numbers)
    /\ pc \in {"reading", "stopped"} => messages = <<>>
    /\ log \in Seq(LogTypes)

\* Requests wait in the order of their numbers, which are below those of the
\* frames still to come; nothing has been written about those.
Ordered ==
    /\ \A i \in 1..Len(Waiting) : Waiting[i] <= Len(sent)
    /\ \A i, j \in 1..Len(Waiting) : i < j => Waiting[i] < Waiting[j]
    /\ \A i \in 1..Len(Waiting), c \in 1..Len(stream) : Waiting[i] < stream[c].no
    /\ \A k \in 1..Len(log) : log[k].no <= Len(sent)
    /\ \A k \in 1..Len(log), c \in 1..Len(stream) : log[k].no < stream[c].no

QueueInv == QueueTyped /\ Ordered

LEMMA SendersAppend ==
    ASSUME NEW ms \in Seq(Seq(Cells)), NEW p \in Seq(Cells),
           Senders(ms) \in Seq(Numbers), Sender(p) \in Numbers
    PROVE  Senders(Append(ms, p)) = Append(Senders(ms), Sender(p))
<1> DEFINE new == Append(ms, p)
           s == Append(Senders(ms), Sender(p))
<1>1. /\ new \in Seq(Seq(Cells)) /\ Len(new) = Len(ms) + 1 /\ DOMAIN new = 1..Len(ms) + 1
      /\ \A i \in 1..Len(ms) : new[i] = ms[i]
      /\ new[Len(ms) + 1] = p /\ Len(ms) \in Nat /\ DOMAIN ms = 1..Len(ms)
  BY AppendProperties, LenProperties
<1>2. Len(Senders(ms)) = Len(ms)
  BY <1>1, LenProperties DEF Senders
<1>3. /\ s \in Seq(Numbers) /\ Len(s) = Len(ms) + 1 /\ DOMAIN s = 1..Len(ms) + 1
      /\ \A i \in 1..Len(ms) : s[i] = Senders(ms)[i]
      /\ s[Len(ms) + 1] = Sender(p)
  BY <1>2, AppendProperties, LenProperties
<1> HIDE DEF new, s
<1>4. ASSUME NEW i \in 1..Len(ms) + 1 PROVE Senders(new)[i] = s[i]
  <2>1. Senders(new)[i] = Sender(new[i])
    BY <1>1 DEF Senders
  <2>2. CASE i = Len(ms) + 1
    BY <1>1, <1>3, <2>1, <2>2
  <2>3. CASE i # Len(ms) + 1
    <3>1. i \in 1..Len(ms)
      BY <1>1, <2>3
    <3>2. Senders(ms)[i] = Sender(ms[i])
      BY <1>1, <3>1 DEF Senders
    <3> QED BY <1>1, <1>3, <2>1, <3>1, <3>2
  <2> QED BY <2>2, <2>3
<1>5. Senders(new) = [i \in 1..Len(ms) + 1 |-> Senders(new)[i]]
  BY <1>1 DEF Senders
<1>6. s = [i \in 1..Len(ms) + 1 |-> s[i]]
  BY <1>3
<1>7. Senders(new) = s
  BY <1>4, <1>5, <1>6
<1> QED BY <1>7 DEF new, s

LEMMA SendersTail ==
    ASSUME NEW ms \in Seq(Seq(Cells)), ms # <<>>, Senders(ms) \in Seq(Numbers)
    PROVE  /\ Senders(Tail(ms)) \in Seq(Numbers) /\ Sender(Head(ms)) \in Numbers
           /\ Senders(ms) = <<Sender(Head(ms))>> \o Senders(Tail(ms))
<1> DEFINE s == Senders(ms)
           t == Senders(Tail(ms))
<1>1. /\ Len(ms) \in Nat /\ Len(ms) # 0 /\ DOMAIN ms = 1..Len(ms) /\ Head(ms) = ms[1]
      /\ Tail(ms) \in Seq(Seq(Cells)) /\ Len(Tail(ms)) = Len(ms) - 1
      /\ DOMAIN Tail(ms) = 1..Len(ms) - 1
      /\ \A i \in 1..Len(ms) - 1 : Tail(ms)[i] = ms[i + 1]
  BY HeadTailProperties, LenProperties, EmptySeq
<1>2. /\ s \in Seq(Numbers) /\ DOMAIN s = 1..Len(ms) /\ Len(s) = Len(ms) /\ s # <<>>
      /\ \A i \in 1..Len(ms) : s[i] = Sender(ms[i])
  BY <1>1, LenProperties DEF Senders
<1>3. DOMAIN t = 1..Len(ms) - 1 /\ t = [i \in 1..Len(ms) - 1 |-> Sender(Tail(ms)[i])]
  BY <1>1 DEF Senders
<1> HIDE DEF s, t
<1>4. /\ Head(s) = s[1] /\ Tail(s) \in Seq(Numbers) /\ Len(Tail(s)) = Len(ms) - 1
      /\ DOMAIN Tail(s) = 1..Len(ms) - 1 /\ \A i \in 1..Len(ms) - 1 : Tail(s)[i] = s[i + 1]
      /\ s[1] \in Numbers
  BY <1>1, <1>2, HeadTailProperties, LenProperties
<1>5. ASSUME NEW i \in 1..Len(ms) - 1 PROVE Tail(s)[i] = Sender(Tail(ms)[i])
  <2>1. i + 1 \in 1..Len(ms)
    BY <1>1
  <2> QED BY <1>1, <1>2, <1>4, <2>1
<1>6. Tail(s) = t
  <2>1. Tail(s) = [i \in 1..Len(ms) - 1 |-> Tail(s)[i]]
    BY <1>4, LenProperties
  <2> QED BY <1>3, <1>5, <2>1
<1>7. s[1] = Sender(Head(ms))
  <2>1. 1 \in 1..Len(ms)
    BY <1>1
  <2> QED BY <1>1, <1>2, <2>1
<1>8. s = <<s[1]>> \o Tail(s)
  <2>1. 1 \in 1..Len(s) /\ Len(s) \in 1..Len(s) /\ 1 + 1 = 2
    BY <1>1, <1>2
  <2>2. SubSeq(s, 1, Len(s)) = <<s[1]>> \o SubSeq(s, 2, Len(s))
    BY <1>2, <2>1, SubSeqRecursiveFirst
  <2>3. SubSeq(s, 1, Len(s)) = s /\ Tail(s) = SubSeq(s, 2, Len(s))
    BY <1>2, SubSeqFull, TailIsSubSeq
  <2> QED BY <2>2, <2>3
<1>9. t \in Seq(Numbers) /\ Sender(Head(ms)) \in Numbers /\ s = <<Sender(Head(ms))>> \o t
  BY <1>4, <1>6, <1>7, <1>8
<1> QED BY <1>9 DEF s, t

LEMMA WaitingIs ==
    ASSUME QueueTyped
    PROVE  /\ Waiting \in Seq(Numbers) /\ Len(Waiting) \in Nat /\ DOMAIN Waiting = 1..Len(Waiting)
           /\ pc \notin Dispatch => Waiting = Senders(messages)
           /\ pc \in Dispatch => /\ Waiting = <<current>> \o Senders(messages)
                                 /\ Len(Waiting) > 0 /\ Waiting[1] = current /\ Waiting # <<>>
                                 /\ Head(Waiting) = current /\ Tail(Waiting) = Senders(messages)
<1> DEFINE s == Senders(messages)
<1>1. s \in Seq(Numbers)
  BY DEF QueueTyped
<1>2. Waiting = (IF pc \in Dispatch THEN <<current>> ELSE <<>>) \o s
  BY DEF Waiting, Dispatch, Senders
<1> HIDE DEF s
<1>3. CASE pc \notin Dispatch
  <2>1. Waiting = s
    BY <1>1, <1>2, <1>3, ConcatEmptySeq
  <2> QED BY <1>1, <1>3, <2>1, LenProperties DEF s
<1>4. CASE pc \in Dispatch
  <2>1. <<current>> \in Seq(Numbers) /\ Len(<<current>>) = 1 /\ <<current>>[1] = current
    BY <1>4 DEF QueueTyped
  <2>2. Waiting = <<current>> \o s
    BY <1>2, <1>4
  <2>3. /\ Waiting \in Seq(Numbers) /\ Len(Waiting) = 1 + Len(s)
        /\ \A i \in 1..1 + Len(s) : Waiting[i] = IF i <= 1 THEN <<current>>[i] ELSE s[i - 1]
    <3>1. /\ <<current>> \o s \in Seq(Numbers) /\ Len(<<current>> \o s) = Len(<<current>>) + Len(s)
          /\ \A i \in 1..Len(<<current>>) + Len(s) :
                (<<current>> \o s)[i] = IF i <= Len(<<current>>) THEN <<current>>[i] ELSE s[i - Len(<<current>>)]
      BY <1>1, <2>1, ConcatProperties
    <3> QED BY <2>1, <2>2, <3>1
  <2>4. Len(s) \in Nat
    BY <1>1, LenProperties
  <2>5. Len(Waiting) > 0 /\ Waiting[1] = current /\ Waiting # <<>>
    <3>1. 1 \in 1..1 + Len(s) /\ 1 + Len(s) > 0
      BY <2>4
    <3>2. Waiting[1] = current
      BY <2>1, <2>3, <3>1
    <3>3. Waiting # <<>>
      BY <2>3, <3>1, EmptySeq
    <3> QED BY <2>3, <3>1, <3>2, <3>3
  <2>6. Tail(Waiting) = s
    <3>1. Tail(Waiting) \in Seq(Numbers) /\ Len(Tail(Waiting)) = Len(s)
          /\ \A i \in 1..Len(s) : Tail(Waiting)[i] = Waiting[i + 1]
      BY <2>3, <2>4, <2>5, HeadTailProperties
    <3>2. ASSUME NEW i \in 1..Len(s) PROVE Tail(Waiting)[i] = s[i]
      <4>1. i + 1 \in 1..1 + Len(s) /\ ~(i + 1 <= 1) /\ i + 1 - 1 = i
        BY <2>4
      <4> QED BY <2>3, <3>1, <4>1
    <3> QED BY <1>1, <3>1, <3>2, SeqEqual
  <2>7. Len(Waiting) \in Nat /\ DOMAIN Waiting = 1..Len(Waiting)
    BY <2>3, LenProperties
  <2>8. Head(Waiting) = current
    BY <2>5
  <2>9. Waiting = <<current>> \o Senders(messages) /\ Tail(Waiting) = Senders(messages)
    BY <2>2, <2>6 DEF s
  <2> QED BY <1>4, <2>3, <2>5, <2>7, <2>8, <2>9
<1> QED BY <1>3, <1>4

LEMMA SendersEmpty ==
    Senders(<<>>) = <<>> /\ Senders(<<>>) \in Seq(Numbers) /\ <<>> \in Seq(Seq(Cells))
<1>1. Senders(<<>>) = <<>>
  BY DEF Senders
<1>2. \A S : <<>> \in Seq(S)
  OBVIOUS
<1> QED BY <1>1, <1>2

LEMMA StreamStep == StreamInv /\ [Next]_vars => StreamInv'
<1> SUFFICES ASSUME StreamInv, [Next]_vars PROVE StreamInv'
  OBVIOUS
<1>1. CASE \E n \in 1..MaxChunk : ReadChunk(n)
  BY <1>1, ReadStream
<1>2. CASE ExtractMessage
  BY <1>2, ExtractStream
<1>3. CASE \E r \in Requests : Send(r)
  BY <1>3, SendStream
<1>4. CASE \E n \in 0..Len(wire) : Close(n)
  BY <1>4, CloseStream
<1>5. CASE UNCHANGED <<sent, wire, eof, buffer>>
  BY <1>5, StreamKept
<1> QED
  BY <1>1, <1>2, <1>3, <1>4, <1>5
  DEF Next, Server, ReadEnd, FeedReturns, FeedRaises, NextMessage, ReadOn, Reject, DecodeRaises,
      CallOther, CallShutdown, CallOpen, CallClose, SessionNotFound, BeginOperation, EmitEvent,
      EndOperation, Answer, vars, client

LEMMA QueueTypedStep == StreamInv /\ QueueTyped /\ [Next]_vars => QueueTyped'
<1> SUFFICES ASSUME StreamInv, QueueTyped, [Next]_vars PROVE QueueTyped'
  OBVIOUS
<1>z. Numbers \subseteq 0..MaxRequests /\ MaxRequests \in Nat
  BY BoundsAssumption DEF Numbers
<1>e. <<>> \in Seq(Seq(Cells)) /\ Senders(<<>>) \in Seq(Numbers)
  BY SendersEmpty
<1>l. ASSUME NEW kind \in {"event", "answer"}, current \in Numbers
      PROVE  Append(log, [no |-> current, kind |-> kind]) \in Seq(LogTypes)
  <2>1. [no |-> current, kind |-> kind] \in LogTypes
    BY <1>z, <1>l DEF LogTypes
  <2> QED BY <2>1, AppendProperties DEF QueueTyped
<1>1. CASE pc = "reading" /\ pc' \in {"reading", "feeding", "stopped"} /\ UNCHANGED <<messages, current, log>>
  BY <1>1 DEF QueueTyped, Places, Dispatch
<1>2. CASE ExtractMessage
  <2>1. PICK p \in Seq(Cells) : messages' = Append(messages, p) /\ Sender(p) = stream[1].no
    BY <1>2, ExtractStream
  <2>2. Sender(p) \in Numbers
    <3>1. Len(stream) > 0 /\ Len(stream) \in Nat /\ Len(sent) \in Nat /\ Len(sent) <= MaxRequests
      BY <1>2, ExtractStream, StreamIsSeq DEF StreamInv, StreamTyped
    <3>2. 1 \in 1..Len(stream)
      BY <3>1
    <3>3. stream[1].no \in 1..Len(sent)
      BY <3>2 DEF StreamInv, Framed
    <3> QED BY <1>z, <2>1, <3>1, <3>3 DEF Numbers
  <2>3. messages' \in Seq(Seq(Cells))
    BY <2>1, AppendProperties DEF QueueTyped
  <2>4. Senders(messages') = Append(Senders(messages), Sender(p))
    BY <2>1, <2>2, SendersAppend DEF QueueTyped
  <2>5. Senders(messages') \in Seq(Numbers)
    BY <2>2, <2>4, AppendProperties DEF QueueTyped
  <2>6. pc = "feeding" /\ pc' = pc /\ current' = current /\ log' = log
    BY <1>2 DEF ExtractMessage
  <2> QED BY <2>3, <2>5, <2>6 DEF QueueTyped, Dispatch
<1>3. CASE /\ pc \in {"feeding", "parsing"} /\ pc' = "stopped" /\ messages' = <<>>
           /\ UNCHANGED <<current, log>>
  BY <1>3, <1>e DEF QueueTyped, Places, Dispatch
<1>4. CASE NextMessage
  <2>1. /\ messages # <<>> /\ messages' = Tail(messages) /\ current' = Sender(Head(messages))
        /\ pc' = "parsing" /\ log' = log
    BY <1>4 DEF NextMessage
  <2>2. messages' \in Seq(Seq(Cells))
    BY <2>1, HeadTailProperties DEF QueueTyped
  <2>3. Senders(messages') \in Seq(Numbers) /\ current' \in Numbers
    BY <2>1, SendersTail DEF QueueTyped
  <2> QED BY <1>z, <2>1, <2>2, <2>3 DEF QueueTyped, Places, Dispatch
<1>5. CASE /\ pc \in {"feeding", "dispatching"} /\ pc' \in {"reading", "dispatching"}
           /\ (pc' = "reading" => messages = <<>>) /\ UNCHANGED <<messages, current, log>>
  BY <1>5 DEF QueueTyped, Places, Dispatch
<1>6. CASE pc \in Dispatch /\ pc' \in Dispatch /\ UNCHANGED <<messages, current, log>>
  BY <1>6 DEF QueueTyped, Places, Dispatch
<1>7. CASE EmitEvent
  <2>1. /\ pc = "working" /\ pc' = pc /\ messages' = messages /\ current' = current
        /\ log' = Append(log, [no |-> current, kind |-> "event"]) /\ current \in Numbers
    BY <1>7 DEF EmitEvent, Working, QueueTyped, Dispatch
  <2> QED BY <1>l, <2>1 DEF QueueTyped, Dispatch
<1>8. CASE Answer
  <2>1. /\ pc = "answering" /\ pc' \in {"stopped", "dispatching"} /\ current' = current
        /\ current \in Numbers
        /\ (messages' = messages /\ pc' = "dispatching") \/ messages' = <<>>
        /\ log' = log \/ log' = Append(log, [no |-> current, kind |-> "answer"])
    BY <1>8 DEF Answer, QueueTyped, Dispatch
  <2>2. log' \in Seq(LogTypes)
    BY <1>l, <2>1 DEF QueueTyped
  <2> QED BY <1>e, <2>1, <2>2 DEF QueueTyped, Dispatch, Places
<1>9. CASE UNCHANGED vars
  BY <1>9 DEF vars, QueueTyped
<1> QED
  BY <1>1, <1>2, <1>3, <1>4, <1>5, <1>6, <1>7, <1>8, <1>9
  DEF Next, Server, Send, Close, ReadChunk, ReadEnd, FeedReturns, FeedRaises, ReadOn, Reject,
      DecodeRaises, CallOther, CallShutdown, CallOpen, CallClose, SessionNotFound,
      BeginOperation, EndOperation, Called, Working, Dispatch

LEMMA QueueTypedInit == Init => QueueTyped
<1> SUFFICES ASSUME Init PROVE QueueTyped
  OBVIOUS
<1>1. /\ pc = "reading" /\ current = 0 /\ messages = <<>> /\ log = <<>>
      /\ 0 \in 0..MaxRequests /\ log \in Seq(LogTypes)
  BY BoundsAssumption DEF Init
<1>2. messages \in Seq(Seq(Cells)) /\ Senders(messages) \in Seq(Numbers)
  BY <1>1, SendersEmpty
<1> QED BY <1>1, <1>2 DEF QueueTyped, Places, Dispatch

-----------------------------------------------------------------------------
(* What a step does to the requests that wait and to the log. *)

\* The client's requests stay, and the stream gets no cell but those of a new one.
NothingLost ==
    /\ Len(sent) <= Len(sent') /\ \A no \in 1..Len(sent) : sent'[no] = sent[no]
    /\ \A c \in 1..Len(stream') :
          \/ \E d \in 1..Len(stream) : stream'[c] = stream[d]
          \/ stream'[c].no = Len(sent) + 1 /\ Len(sent') = Len(sent) + 1

\* A step that the service does not see.
Quiet == NothingLost /\ Waiting' = Waiting /\ log' = log /\ (pc' = "stopped" <=> pc = "stopped")

\* The steps of the service as the server takes them: a request joins the queue, ...
Accepts ==
    /\ NothingLost /\ log' = log /\ pc # "stopped" /\ pc' # "stopped" /\ sent' = sent
    /\ Len(stream) > 0 /\ stream[1].no \in Numbers
    /\ Waiting' = Append(Waiting, stream[1].no)
    /\ \A c \in 1..Len(stream') : stream[1].no < stream'[c].no

\* ... the first of them writes an event, ...
Notifies ==
    /\ NothingLost /\ Waiting' = Waiting /\ Waiting # <<>>
    /\ pc # "stopped" /\ pc' # "stopped" /\ sent' = sent
    /\ log' = Append(log, [no |-> Waiting[1], kind |-> "event"])

\* ... or it is answered, unless it asked for no answer, and leaves, ...
Finishes ==
    /\ NothingLost /\ Waiting # <<>> /\ pc # "stopped" /\ sent' = sent
    /\ log' = IF AsksForAnswer(sent[Waiting[1]])
              THEN Append(log, [no |-> Waiting[1], kind |-> "answer"])
              ELSE log
    /\ \/ Waiting' = Tail(Waiting) /\ pc' # "stopped"
       \/ Waiting' = <<>> /\ pc' = "stopped"

\* ... or the stream ends.
Stops ==
    /\ NothingLost /\ Waiting' = <<>> /\ log' = log /\ pc # "stopped" /\ pc' = "stopped"
    /\ sent' = sent

\* The parts of the state on which the queue depends.
LEMMA SameStream ==
    ASSUME StreamInv, UNCHANGED <<sent, wire, eof, buffer>>
    PROVE  NothingLost
<1>1. stream' = stream /\ Len(sent) \in Nat
  BY StreamKept, StreamIsSeq DEF StreamInv
<1> QED BY <1>1 DEF NothingLost

LEMMA WaitingSame ==
    ASSUME messages' = messages, pc' \in Dispatch <=> pc \in Dispatch,
           pc \in Dispatch => current' = current
    PROVE  Waiting' = Waiting
BY DEF Waiting, Dispatch

LEMMA WaitingIdle ==
    ASSUME pc' \notin Dispatch, Senders(messages') \in Seq(Numbers)
    PROVE  Waiting' = Senders(messages')
<1>1. Waiting' = <<>> \o Senders(messages')
  BY DEF Waiting, Dispatch, Senders
<1> QED BY <1>1, ConcatEmptySeq

LEMMA QueueMoves ==
    ASSUME StreamInv, QueueTyped, [Next]_vars
    PROVE  Quiet \/ Accepts \/ Notifies \/ Finishes \/ Stops
<1>n. Len(sent) \in Nat /\ Len(stream) \in Nat
  BY StreamIsSeq DEF StreamInv
<1>e. ASSUME pc' \notin Dispatch, messages' = <<>> PROVE Waiting' = <<>>
  BY <1>e, WaitingIdle, SendersEmpty
<1>q. ASSUME messages' = messages, log' = log, pc' = "stopped" <=> pc = "stopped",
             pc' \in Dispatch <=> pc \in Dispatch, pc \in Dispatch => current' = current,
             NothingLost
      PROVE  Quiet
  BY <1>q, WaitingSame DEF Quiet
<1>1. ASSUME NEW r \in Requests, Send(r) PROVE Quiet
  <2>1. NothingLost
    <3>1. Len(sent) <= Len(sent) + 1
      BY <1>n
    <3> QED BY <1>1, <3>1, SendStream DEF NothingLost
  <2> QED BY <1>1, <1>q, <2>1 DEF Send
<1>2. ASSUME NEW n \in 0..Len(wire), Close(n) PROVE Quiet
  <2>1. NothingLost
    <3>1. sent' = sent /\ Len(sent) <= Len(sent)
      BY <1>2, <1>n DEF Close
    <3>2. \A c \in 1..Len(stream') : c \in 1..Len(stream) /\ stream'[c] = stream[c]
      <4>1. Len(stream') <= Len(stream) /\ \A c \in 1..Len(stream') : stream'[c] = stream[c]
        BY <1>2, CloseStream
      <4>2. Len(stream') \in Int
        <5>1. StreamTyped'
          BY <1>2, CloseStream DEF StreamInv
        <5>2. wire' \in Seq(Cells) /\ buffer' \in Seq(Cells)
          BY <5>1 DEF StreamTyped
        <5> QED BY <5>2, ConcatCells DEF stream
      <4> QED BY <1>n, <4>1, <4>2
    <3> QED BY <3>1, <3>2 DEF NothingLost
  <2> QED BY <1>2, <1>q, <2>1 DEF Close
<1>3. ASSUME NEW n \in 1..MaxChunk, ReadChunk(n) PROVE Quiet
  <2>1. NothingLost
    <3>1. stream' = stream /\ sent' = sent
      BY <1>3, ReadStream DEF ReadChunk
    <3> QED BY <1>n, <3>1 DEF NothingLost
  <2> QED BY <1>3, <1>q, <2>1 DEF ReadChunk, Dispatch
<1>4. CASE ReadEnd
  <2>1. /\ pc = "reading" /\ pc' = "stopped" /\ messages' = <<>> /\ log' = log /\ sent' = sent
        /\ NothingLost
    BY <1>4, SameStream DEF ReadEnd, client, QueueTyped
  <2> QED BY <1>e, <2>1 DEF Stops, Dispatch
<1>5. CASE ExtractMessage
  <2>p. PICK p \in Seq(Cells) : messages' = Append(messages, p) /\ Sender(p) = stream[1].no
    BY <1>5, ExtractStream
  <2>1. /\ pc = "feeding" /\ pc' = pc /\ sent' = sent /\ log' = log /\ QueueTyped'
    BY <1>5, QueueTypedStep DEF ExtractMessage, client, Next, Server
  <2>2. Len(stream) > 0 /\ stream[1].no \in Numbers
    <3>1. Len(stream) > 0 /\ Len(sent) <= MaxRequests /\ MaxRequests \in Nat
      BY <1>5, ExtractStream, BoundsAssumption DEF StreamInv, StreamTyped
    <3>2. 1 \in 1..Len(stream)
      BY <1>n, <3>1
    <3>3. stream[1].no \in 1..Len(sent)
      BY <3>2 DEF StreamInv, Framed
    <3> QED BY <1>n, <3>1, <3>3 DEF Numbers
  <2>3. Waiting' = Append(Waiting, stream[1].no)
    <3>1. Senders(messages') = Append(Senders(messages), Sender(p))
      BY <2>p, <2>2, SendersAppend DEF QueueTyped
    <3>2. Waiting' = Senders(messages')
      BY <2>1, WaitingIdle DEF QueueTyped, Dispatch
    <3>3. Waiting = Senders(messages)
      BY <2>1, WaitingIs DEF Dispatch
    <3> QED BY <2>p, <3>1, <3>2, <3>3
  <2>4. NothingLost
    BY <1>n, <1>5, <2>1, ExtractStream DEF NothingLost
  <2>5. \A c \in 1..Len(stream') : stream[1].no < stream'[c].no
    BY <1>5, ExtractStream
  <2> QED BY <2>1, <2>2, <2>3, <2>4, <2>5 DEF Accepts
<1>6. CASE FeedRaises \/ DecodeRaises
  <2>1. /\ pc # "stopped" /\ pc' = "stopped" /\ messages' = <<>> /\ log' = log /\ sent' = sent
        /\ NothingLost
    BY <1>6, SameStream DEF FeedRaises, DecodeRaises, Working, client
  <2> QED BY <1>e, <2>1 DEF Stops, Dispatch
<1>7. CASE NextMessage
  <2>1. /\ pc = "dispatching" /\ pc' = "parsing" /\ messages # <<>> /\ messages' = Tail(messages)
        /\ current' = Sender(Head(messages)) /\ log' = log /\ NothingLost
    BY <1>7, SameStream DEF NextMessage, client
  <2>2. Waiting' = <<current'>> \o Senders(messages')
    BY <2>1 DEF Waiting, Dispatch, Senders
  <2>3. Waiting = Senders(messages)
    BY <2>1, WaitingIs DEF Dispatch
  <2>4. Waiting' = Waiting
    BY <2>1, <2>2, <2>3, SendersTail DEF QueueTyped
  <2> QED BY <2>1, <2>4 DEF Quiet
<1>8. CASE \/ FeedReturns \/ ReadOn \/ Reject \/ CallOther \/ CallShutdown \/ CallOpen \/ CallClose
           \/ SessionNotFound \/ BeginOperation \/ EndOperation
  <2>1. /\ messages' = messages /\ log' = log /\ pc # "stopped" /\ pc' # "stopped"
        /\ pc' \in Dispatch <=> pc \in Dispatch
        /\ current' = current /\ UNCHANGED <<sent, wire, eof, buffer>>
    BY <1>8 DEF FeedReturns, ReadOn, Reject, CallOther, CallShutdown, CallOpen, CallClose,
                SessionNotFound, BeginOperation, EndOperation, Called, Working, Dispatch, client
  <2> QED BY <1>q, <2>1, SameStream
<1>9. CASE EmitEvent
  <2>1. /\ pc = "working" /\ pc' = pc /\ messages' = messages /\ current' = current
        /\ log' = Append(log, [no |-> current, kind |-> "event"]) /\ sent' = sent /\ NothingLost
    BY <1>9, SameStream DEF EmitEvent, Working, client
  <2>2. Waiting' = Waiting /\ Waiting # <<>> /\ Waiting[1] = current
    BY <2>1, WaitingSame, WaitingIs DEF Dispatch
  <2> QED BY <2>1, <2>2 DEF Notifies
<1>10. CASE Answer
  <2>1. /\ pc = "answering" /\ sent' = sent /\ current \in Numbers /\ NothingLost
        /\ \/ pc' = "stopped" /\ messages' = <<>>
           \/ pc' = "dispatching" /\ messages' = messages
        /\ log' = IF current = 0 \/ Answered(Request)
                  THEN Append(log, [no |-> current, kind |-> "answer"])
                  ELSE log
    BY <1>10, SameStream DEF Answer, client, QueueTyped, Dispatch
  <2>2. Waiting # <<>> /\ Waiting[1] = current /\ Tail(Waiting) = Senders(messages)
    BY <2>1, WaitingIs DEF Dispatch
  <2>3. current # 0
    BY <2>1, BoundsAssumption DEF Numbers
  <2>4. log' = IF AsksForAnswer(sent[current])
               THEN Append(log, [no |-> current, kind |-> "answer"])
               ELSE log
    BY <2>1, <2>3 DEF Answered, AsksForAnswer, Request
  <2>5. CASE pc' = "stopped"
    BY <1>e, <2>1, <2>2, <2>4, <2>5 DEF Finishes, Dispatch
  <2>6. CASE pc' = "dispatching"
    <3>1. Waiting' = Senders(messages)
      BY <2>1, <2>6, WaitingIdle DEF QueueTyped, Dispatch
    <3> QED BY <2>1, <2>2, <2>4, <2>6, <3>1 DEF Finishes
  <2> QED BY <2>1, <2>5, <2>6
<1>11. CASE UNCHANGED vars
  <2>1. /\ UNCHANGED <<sent, wire, eof, buffer, messages, log, pc, current>>
    BY <1>11 DEF vars, client
  <2> QED BY <1>q, <2>1, SameStream
<1> QED
  BY <1>1, <1>2, <1>3, <1>4, <1>5, <1>6, <1>7, <1>8, <1>9, <1>10, <1>11 DEF Next, Server

\* The order of the requests, when none is accepted: those that go on waiting
\* waited before, and what is written is of the first of them.
LEMMA OrderKept ==
    ASSUME StreamInv, QueueInv, NothingLost, Len(sent') \in Nat,
           NEW q \in 0..1, Len(Waiting') \in Nat,
           \A i \in 1..Len(Waiting') : i + q \in 1..Len(Waiting) /\ Waiting'[i] = Waiting[i + q],
           \A k \in 1..Len(log') : \/ \E m \in 1..Len(log) : log'[k] = log[m]
                                   \/ 1 \in 1..Len(Waiting) /\ log'[k].no = Waiting[1]
    PROVE  Ordered'
<1>n. Len(sent) \in Nat /\ Len(stream) \in Nat /\ Len(sent) <= Len(sent')
  BY StreamIsSeq DEF StreamInv, NothingLost
<1>w. \A i \in 1..Len(Waiting) : Waiting[i] \in Int /\ Waiting[i] <= Len(sent)
  <2>1. Waiting \in Seq(Numbers)
    BY WaitingIs DEF QueueInv
  <2>2. \A i \in 1..Len(Waiting) : Waiting[i] \in Numbers
    BY <2>1, ElementOfSeq
  <2> QED BY <2>2 DEF Numbers, QueueInv, Ordered
<1>l. \A k \in 1..Len(log) : log[k].no \in Int /\ log[k].no <= Len(sent)
  <2>1. \A k \in 1..Len(log) : log[k] \in LogTypes
    BY ElementOfSeq DEF QueueInv, QueueTyped
  <2>2. \A k \in 1..Len(log) : log[k].no \in 0..MaxRequests
    BY <2>1 DEF LogTypes
  <2> QED BY <2>2 DEF QueueInv, Ordered
\* Every number that is known is below those of the cells.
<1>c. ASSUME NEW x \in Int, x <= Len(sent), \A d \in 1..Len(stream) : x < stream[d].no,
             NEW c \in 1..Len(stream')
      PROVE  x < stream'[c].no
  <2>1. CASE \E d \in 1..Len(stream) : stream'[c] = stream[d]
    BY <1>c, <2>1
  <2>2. CASE stream'[c].no = Len(sent) + 1
    BY <1>n, <1>c, <2>2
  <2> QED BY <2>1, <2>2 DEF NothingLost
<1>1. ASSUME NEW i \in 1..Len(Waiting') PROVE Waiting'[i] <= Len(sent')
  <2>1. Waiting'[i] \in Int /\ Waiting'[i] <= Len(sent)
    BY <1>w
  <2> QED BY <1>n, <2>1
<1>2. ASSUME NEW i \in 1..Len(Waiting'), NEW j \in 1..Len(Waiting'), i < j
      PROVE  Waiting'[i] < Waiting'[j]
  <2>1. i + q \in 1..Len(Waiting) /\ j + q \in 1..Len(Waiting) /\ i + q < j + q
    BY <1>2
  <2>2. Waiting[i + q] < Waiting[j + q]
    BY <2>1 DEF QueueInv, Ordered
  <2> QED BY <2>2
<1>3. ASSUME NEW i \in 1..Len(Waiting'), NEW c \in 1..Len(stream') PROVE Waiting'[i] < stream'[c].no
  <2>1. PICK x : x = Waiting'[i]
    OBVIOUS
  <2>2. x \in Int /\ x <= Len(sent) /\ \A d \in 1..Len(stream) : x < stream[d].no
    BY <1>w, <2>1 DEF QueueInv, Ordered
  <2> QED BY <1>c, <2>1, <2>2
<1>4. ASSUME NEW k \in 1..Len(log')
      PROVE  /\ log'[k].no \in Int /\ log'[k].no <= Len(sent)
             /\ \A d \in 1..Len(stream) : log'[k].no < stream[d].no
  <2>1. CASE \E m \in 1..Len(log) : log'[k] = log[m]
    BY <1>l, <2>1 DEF QueueInv, Ordered
  <2>2. CASE 1 \in 1..Len(Waiting) /\ log'[k].no = Waiting[1]
    BY <1>w, <2>2 DEF QueueInv, Ordered
  <2> QED BY <2>1, <2>2
<1>5. ASSUME NEW k \in 1..Len(log') PROVE log'[k].no <= Len(sent')
  BY <1>n, <1>4
<1>6. ASSUME NEW k \in 1..Len(log'), NEW c \in 1..Len(stream') PROVE log'[k].no < stream'[c].no
  <2>1. PICK x : x = log'[k].no
    OBVIOUS
  <2>2. x \in Int /\ x <= Len(sent) /\ \A d \in 1..Len(stream) : x < stream[d].no
    BY <1>4, <2>1
  <2> QED BY <1>c, <2>1, <2>2
<1> QED BY <1>1, <1>2, <1>3, <1>5, <1>6 DEF Ordered

LEMMA LogAppend ==
    ASSUME QueueTyped, 1 \in 1..Len(Waiting), NEW kind \in {"event", "answer"},
           log' = log \/ log' = Append(log, [no |-> Waiting[1], kind |-> kind])
    PROVE  \A k \in 1..Len(log') : \/ \E m \in 1..Len(log) : log'[k] = log[m]
                                   \/ 1 \in 1..Len(Waiting) /\ log'[k].no = Waiting[1]
<1>1. CASE log' = log
  BY <1>1
<1>2. CASE log' = Append(log, [no |-> Waiting[1], kind |-> kind])
  <2>1. Waiting[1] \in Numbers
    <3>1. Waiting \in Seq(Numbers)
      BY WaitingIs
    <3> QED BY <3>1, ElementOfSeq
  <2>2. [no |-> Waiting[1], kind |-> kind] \in LogTypes
    <3>1. Waiting[1] \in 0..MaxRequests
      BY <2>1, BoundsAssumption DEF Numbers
    <3> QED BY <3>1 DEF LogTypes
  <2>3. /\ Len(log') = Len(log) + 1 /\ \A k \in 1..Len(log) : log'[k] = log[k]
        /\ log'[Len(log) + 1] = [no |-> Waiting[1], kind |-> kind] /\ Len(log) \in Nat
    BY <1>2, <2>2, AppendProperties, LenProperties DEF QueueTyped
  <2>4. \A k \in 1..Len(log') : k \in 1..Len(log) \/ k = Len(log) + 1
    BY <2>3
  <2> QED BY <2>3, <2>4
<1> QED BY <1>1, <1>2

LEMMA OrderStep == StreamInv /\ QueueInv /\ [Next]_vars => Ordered'
<1> SUFFICES ASSUME StreamInv, QueueInv, [Next]_vars PROVE Ordered'
  OBVIOUS
<1>t. QueueTyped /\ Ordered
  BY DEF QueueInv
<1>n. /\ Len(sent) \in Nat /\ Len(stream) \in Nat /\ Len(sent') \in Nat
      /\ Waiting \in Seq(Numbers) /\ Len(Waiting) \in Nat
  <2>1. StreamInv'
    BY StreamStep
  <2>2. sent' \in Seq(Requests)
    BY <2>1 DEF StreamInv, StreamTyped
  <2> QED BY <1>t, <2>2, StreamIsSeq, WaitingIs, LenProperties DEF StreamInv
<1>w. Waiting # <<>> => 1 \in 1..Len(Waiting)
  BY <1>n, EmptySeq
<1>1. ASSUME Waiting' = Waiting PROVE \A i \in 1..Len(Waiting') : i + 0 \in 1..Len(Waiting) /\ Waiting'[i] = Waiting[i + 0]
  <2>1. \A i \in 1..Len(Waiting) : i + 0 = i
    BY <1>n
  <2> QED BY <1>1, <2>1
<1>2. ASSUME Waiting' = <<>>
      PROVE  Len(Waiting') \in Nat /\ \A i \in 1..Len(Waiting') : i + 0 \in 1..Len(Waiting) /\ Waiting'[i] = Waiting[i + 0]
  <2>1. Len(<<>>) = 0 /\ 1..0 = {}
    OBVIOUS
  <2> QED BY <1>2, <2>1
<1>3. CASE Quiet
  BY <1>n, <1>1, <1>3, OrderKept DEF Quiet
<1>4. CASE Stops
  BY <1>n, <1>2, <1>4, OrderKept DEF Stops
<1>5. CASE Notifies
  BY <1>n, <1>t, <1>w, <1>1, <1>5, OrderKept, LogAppend DEF Notifies
<1>6. CASE Finishes
  <2>1. \A k \in 1..Len(log') : \/ \E m \in 1..Len(log) : log'[k] = log[m]
                                \/ 1 \in 1..Len(Waiting) /\ log'[k].no = Waiting[1]
    BY <1>t, <1>w, <1>6, LogAppend DEF Finishes
  <2>2. CASE Waiting' = <<>>
    BY <1>n, <1>2, <1>6, <2>1, <2>2, OrderKept DEF Finishes
  <2>3. CASE Waiting' = Tail(Waiting)
    <3>1. /\ Len(Waiting') = Len(Waiting) - 1 /\ Len(Waiting') \in Nat
          /\ \A i \in 1..Len(Waiting') : Waiting'[i] = Waiting[i + 1]
      BY <1>n, <1>w, <1>6, <2>3, HeadTailProperties DEF Finishes
    <3>2. \A i \in 1..Len(Waiting') : i + 1 \in 1..Len(Waiting)
      BY <1>n, <3>1
    <3> QED BY <1>n, <1>6, <2>1, <3>1, <3>2, OrderKept DEF Finishes
  <2> QED BY <1>6, <2>2, <2>3 DEF Finishes
<1>7. CASE Accepts
  <2>p. PICK x : x = stream[1].no
    OBVIOUS
  <2>1. /\ x \in Numbers /\ x \in Int /\ Waiting' = Append(Waiting, x) /\ log' = log /\ sent' = sent
        /\ \A c \in 1..Len(stream') : x < stream'[c].no
        /\ 1 \in 1..Len(stream) /\ x <= Len(sent)
    <3>1. 1 \in 1..Len(stream)
      BY <1>n, <1>7 DEF Accepts
    <3>2. x \in 1..Len(sent)
      BY <2>p, <3>1 DEF StreamInv, Framed
    <3> QED BY <1>n, <1>7, <2>p, <3>1, <3>2 DEF Accepts
  <2>2. /\ Len(Waiting') = Len(Waiting) + 1 /\ Waiting'[Len(Waiting) + 1] = x
        /\ \A i \in 1..Len(Waiting) : Waiting'[i] = Waiting[i]
    BY <1>n, <2>1, AppendProperties
  <2>3. \A i \in 1..Len(Waiting') : i \in 1..Len(Waiting) \/ i = Len(Waiting) + 1
    BY <1>n, <2>2
  <2>4. \A i \in 1..Len(Waiting) : Waiting[i] \in Int /\ Waiting[i] < x /\ Waiting[i] <= Len(sent)
    <3>1. \A i \in 1..Len(Waiting) : Waiting[i] \in Numbers
      BY <1>n, ElementOfSeq
    <3> QED BY <1>t, <2>p, <2>1, <3>1 DEF Ordered, Numbers
  <2>5. \A c \in 1..Len(stream') : \E d \in 1..Len(stream) : stream'[c] = stream[d]
    <3>1. Len(sent') # Len(sent) + 1
      BY <1>n, <2>1
    <3> QED BY <1>7, <3>1 DEF Accepts, NothingLost
  <2>6. \A i \in 1..Len(Waiting') : Waiting'[i] <= Len(sent')
    BY <2>1, <2>2, <2>3, <2>4
  <2>7. ASSUME NEW i \in 1..Len(Waiting'), NEW j \in 1..Len(Waiting'), i < j
        PROVE  Waiting'[i] < Waiting'[j]
    <3>1. i \in 1..Len(Waiting)
      BY <1>n, <2>2, <2>7
    <3>2. CASE j \in 1..Len(Waiting)
      BY <1>t, <2>2, <2>7, <3>1, <3>2 DEF Ordered
    <3>3. CASE j = Len(Waiting) + 1
      BY <2>2, <2>4, <3>1, <3>3
    <3> QED BY <2>3, <3>2, <3>3
  <2>8. ASSUME NEW i \in 1..Len(Waiting'), NEW c \in 1..Len(stream') PROVE Waiting'[i] < stream'[c].no
    <3>1. CASE i \in 1..Len(Waiting)
      BY <1>t, <2>2, <2>5, <3>1 DEF Ordered
    <3>2. CASE i = Len(Waiting) + 1
      BY <2>1, <2>2, <3>2
    <3> QED BY <2>3, <3>1, <3>2
  <2>9. \A k \in 1..Len(log') : log'[k].no <= Len(sent')
    BY <1>t, <2>1 DEF Ordered
  <2>10. \A k \in 1..Len(log'), c \in 1..Len(stream') : log'[k].no < stream'[c].no
    BY <1>t, <2>1, <2>5 DEF Ordered
  <2> QED BY <2>6, <2>7, <2>8, <2>9, <2>10 DEF Ordered
<1> QED BY <1>t, <1>3, <1>4, <1>5, <1>6, <1>7, QueueMoves

LEMMA QueueInit == Init => QueueInv
<1> SUFFICES ASSUME Init PROVE QueueInv
  OBVIOUS
<1>1. QueueTyped
  BY QueueTypedInit
<1>2. Waiting = <<>> /\ log = <<>> /\ Len(<<>>) = 0 /\ 1..0 = {}
  <2>1. pc = "reading" /\ messages = <<>> /\ log = <<>>
    BY DEF Init
  <2>2. Waiting = Senders(messages)
    BY <1>1, <2>1, WaitingIs DEF Dispatch
  <2> QED BY <2>1, <2>2, SendersEmpty
<1> QED BY <1>1, <1>2 DEF QueueInv, Ordered

LEMMA QueueStep == StreamInv /\ QueueInv /\ [Next]_vars => QueueInv'
BY QueueTypedStep, OrderStep DEF QueueInv

-----------------------------------------------------------------------------
(* What the server makes of the stream is the promised service. *)

\* What the service knows of a request that waits.
EntryTypes == [no : Numbers, req : Requests]

\* The queue of the service, for the numbers w of requests among those sent.
Entries(w, requests) == [i \in DOMAIN w |-> [no |-> w[i], req |-> requests[w[i]]]]

LEMMA EntriesAre ==
    ASSUME NEW requests \in Seq(Requests), NEW w \in Seq(Numbers),
           \A i \in 1..Len(w) : w[i] <= Len(requests)
    PROVE  /\ Entries(w, requests) \in Seq(EntryTypes)
           /\ Len(Entries(w, requests)) = Len(w) /\ Len(w) \in Nat
           /\ DOMAIN Entries(w, requests) = 1..Len(w)
           /\ \A i \in 1..Len(w) : /\ Entries(w, requests)[i] = [no |-> w[i], req |-> requests[w[i]]]
                                   /\ requests[w[i]] \in Requests /\ w[i] \in Numbers
<1>1. DOMAIN w = 1..Len(w) /\ Len(w) \in Nat /\ Len(requests) \in Nat
  BY LenProperties
<1>2. ASSUME NEW i \in 1..Len(w) PROVE w[i] \in Numbers /\ requests[w[i]] \in Requests
  <2>1. w[i] \in Numbers
    BY ElementOfSeq
  <2>2. w[i] \in 1..Len(requests)
    BY <1>1, <2>1 DEF Numbers
  <2> QED BY <2>1, <2>2, ElementOfSeq
<1>3. Entries(w, requests) \in [1..Len(w) -> EntryTypes]
  BY <1>1, <1>2 DEF Entries, EntryTypes
<1>4. Entries(w, requests) \in Seq(EntryTypes)
  BY <1>1, <1>3, SeqDef
<1>5. DOMAIN Entries(w, requests) = 1..Len(w)
  BY <1>3
<1>6. Len(Entries(w, requests)) = Len(w)
  BY <1>1, <1>4, <1>5, LenProperties
<1>7. \A i \in 1..Len(w) : Entries(w, requests)[i] = [no |-> w[i], req |-> requests[w[i]]]
  BY <1>1 DEF Entries
<1> QED BY <1>1, <1>2, <1>4, <1>5, <1>6, <1>7

LEMMA EntriesKept ==
    ASSUME NEW requests \in Seq(Requests), NEW w \in Seq(Numbers),
           \A i \in 1..Len(w) : w[i] <= Len(requests),
           NEW more, \A no \in 1..Len(requests) : more[no] = requests[no]
    PROVE  Entries(w, more) = Entries(w, requests)
<1>1. DOMAIN w = 1..Len(w) /\ Len(requests) \in Nat
  BY LenProperties
<1>2. ASSUME NEW i \in 1..Len(w) PROVE more[w[i]] = requests[w[i]]
  <2>1. w[i] \in Numbers
    BY ElementOfSeq
  <2>2. w[i] \in 1..Len(requests)
    BY <1>1, <2>1 DEF Numbers
  <2> QED BY <2>2
<1> QED BY <1>1, <1>2 DEF Entries

LEMMA EntriesAppend ==
    ASSUME NEW requests \in Seq(Requests), NEW w \in Seq(Numbers),
           \A i \in 1..Len(w) : w[i] <= Len(requests),
           NEW x \in Numbers, x <= Len(requests)
    PROVE  Service!IsStrictPrefix(Entries(w, requests), Entries(Append(w, x), requests))
<1> DEFINE v == Append(w, x)
           s == Entries(w, requests)
           t == Entries(v, requests)
<1>1. /\ v \in Seq(Numbers) /\ Len(v) = Len(w) + 1 /\ v[Len(w) + 1] = x
      /\ \A i \in 1..Len(w) : v[i] = w[i]
  BY AppendProperties
<1> HIDE DEF v
<1>2. Len(w) \in Nat /\ Len(s) = Len(w) /\ s \in Seq(EntryTypes)
  BY EntriesAre
<1>3. \A i \in 1..Len(v) : v[i] <= Len(requests)
  <2>1. \A i \in 1..Len(v) : i \in 1..Len(w) \/ i = Len(w) + 1
    BY <1>1, <1>2
  <2> QED BY <1>1, <2>1
<1>4. t \in Seq(EntryTypes) /\ Len(t) = Len(w) + 1
  BY <1>1, <1>3, EntriesAre
<1>5. ASSUME NEW i \in 1..Len(w) PROVE s[i] = t[i]
  <2>1. i \in 1..Len(v)
    BY <1>1, <1>2
  <2>2. s[i] = [no |-> w[i], req |-> requests[w[i]]] /\ t[i] = [no |-> v[i], req |-> requests[v[i]]]
    BY <1>1, <1>3, <2>1, EntriesAre
  <2> QED BY <1>1, <2>2
<1> HIDE DEF s, t
<1>6. SubSeq(s, 1, Len(s)) = SubSeq(t, 1, Len(s))
  <2>1. /\ SubSeq(s, 1, Len(w)) = [i \in 1..Len(w) |-> s[i]]
        /\ SubSeq(t, 1, Len(w)) = [i \in 1..Len(w) |-> t[i]]
    BY <1>2, <1>4
  <2> QED BY <1>2, <1>5, <2>1
<1>7. Len(s) <= Len(t) /\ s # t
  BY <1>2, <1>4
<1>8. Service!IsStrictPrefix(s, t)
  BY <1>6, <1>7 DEF Service!IsStrictPrefix, Service!IsPrefix
<1> QED BY <1>8 DEF s, t, v

LEMMA EntriesTail ==
    ASSUME NEW requests \in Seq(Requests), NEW w \in Seq(Numbers), w # <<>>,
           \A i \in 1..Len(w) : w[i] <= Len(requests)
    PROVE  /\ Entries(w, requests) # <<>>
           /\ Head(Entries(w, requests)) = [no |-> w[1], req |-> requests[w[1]]]
           /\ requests[w[1]] \in Requests
           /\ Tail(Entries(w, requests)) = Entries(Tail(w), requests)
<1> DEFINE s == Entries(w, requests)
           t == Entries(Tail(w), requests)
<1>1. /\ s \in Seq(EntryTypes) /\ Len(s) = Len(w) /\ Len(w) \in Nat
      /\ \A i \in 1..Len(w) : s[i] = [no |-> w[i], req |-> requests[w[i]]] /\ requests[w[i]] \in Requests
  BY EntriesAre
<1>2. /\ Tail(w) \in Seq(Numbers) /\ Len(Tail(w)) = Len(w) - 1
      /\ \A i \in 1..Len(Tail(w)) : Tail(w)[i] = w[i + 1]
  BY HeadTailProperties
<1>3. 1 \in 1..Len(w)
  BY <1>1, EmptySeq
<1>4. \A i \in 1..Len(Tail(w)) : i + 1 \in 1..Len(w)
  BY <1>1, <1>2
<1>5. /\ t \in Seq(EntryTypes) /\ Len(t) = Len(w) - 1
      /\ \A i \in 1..Len(Tail(w)) : t[i] = [no |-> Tail(w)[i], req |-> requests[Tail(w)[i]]]
  <2>1. \A i \in 1..Len(Tail(w)) : Tail(w)[i] <= Len(requests)
    BY <1>2, <1>4
  <2> QED BY <1>2, <2>1, EntriesAre
<1> HIDE DEF s, t
<1>6. s # <<>>
  BY <1>1, <1>3
<1>7. /\ Tail(s) \in Seq(EntryTypes) /\ Len(Tail(s)) = Len(w) - 1
      /\ \A i \in 1..Len(Tail(s)) : Tail(s)[i] = s[i + 1]
  BY <1>1, <1>6, HeadTailProperties
<1>8. \A i \in 1..Len(Tail(w)) : Tail(s)[i] = t[i]
  BY <1>1, <1>2, <1>4, <1>5, <1>7
<1>9. Tail(s) = t
  BY <1>2, <1>5, <1>7, <1>8, SeqEqual
<1>10. Head(s) = s[1]
  BY <1>1, <1>6
<1> QED BY <1>1, <1>3, <1>6, <1>9, <1>10 DEF s, t

LEMMA ServiceInit == Init => Service!Init
<1> SUFFICES ASSUME Init PROVE Service!Init
  OBVIOUS
<1>1. pc = "reading" /\ log = <<>> /\ Waiting = <<>>
  <2>1. pc = "reading" /\ messages = <<>> /\ log = <<>>
    BY DEF Init
  <2>2. Waiting = Senders(messages)
    BY <2>1, QueueTypedInit, WaitingIs DEF Dispatch
  <2> QED BY <2>1, <2>2, SendersEmpty
<1>2. Entries(Waiting, sent) = <<>>
  BY <1>1 DEF Entries
<1> QED BY <1>1, <1>2 DEF Service!Init, Entries

\* Several of the server's steps are one of the service's or none at all.
LEMMA ServiceStep == StreamInv /\ QueueInv /\ [Next]_vars => [Service!Next]_(Service!vars)
<1> SUFFICES ASSUME StreamInv, QueueInv, [Next]_vars PROVE Service!Next \/ UNCHANGED Service!vars
  OBVIOUS
<1> DEFINE queue == [i \in DOMAIN Waiting |-> [no |-> Waiting[i], req |-> sent[Waiting[i]]]]
<1>t. QueueTyped /\ Ordered /\ QueueInv' /\ StreamInv'
  BY StreamStep, QueueStep DEF QueueInv
<1>w. /\ Waiting \in Seq(Numbers) /\ sent \in Seq(Requests) /\ Len(Waiting) \in Nat
      /\ \A i \in 1..Len(Waiting) : Waiting[i] <= Len(sent)
  BY <1>t, WaitingIs DEF Ordered, StreamInv, StreamTyped
<1>q. queue = Entries(Waiting, sent)
  BY DEF Entries
<1>r. queue' = Entries(Waiting', sent')
  BY DEF Entries
<1>s. /\ UNCHANGED Service!vars <=> /\ queue' = queue /\ log' = log
                                    /\ (pc' = "stopped") = (pc = "stopped")
  BY DEF Service!vars
<1>1. CASE Quiet
  <2>1. Entries(Waiting, sent') = Entries(Waiting, sent)
    BY <1>1, <1>w, EntriesKept DEF Quiet, NothingLost
  <2>2. queue' = queue
    BY <1>1, <1>q, <1>r, <2>1 DEF Quiet
  <2>3. log' = log /\ (pc' = "stopped" <=> pc = "stopped")
    BY <1>1 DEF Quiet
  <2> HIDE DEF queue
  <2> QED BY <1>s, <2>2, <2>3
<1>2. CASE Accepts
  <2>p. PICK x : x = stream[1].no
    OBVIOUS
  <2>1. /\ x \in Numbers /\ x <= Len(sent) /\ Waiting' = Append(Waiting, x)
        /\ log' = log /\ sent' = sent /\ pc # "stopped" /\ pc' # "stopped"
        /\ \A k \in 1..Len(log) : log[k].no < x
    <3>1. 1 \in 1..Len(stream)
      BY <1>2, StreamIsSeq DEF Accepts, StreamInv
    <3>2. x \in 1..Len(sent) /\ \A k \in 1..Len(log) : log[k].no < x
      BY <1>t, <2>p, <3>1 DEF StreamInv, Framed, Ordered
    <3> QED BY <1>2, <2>p, <3>2 DEF Accepts
  <2>2. Service!IsStrictPrefix(queue, queue')
    BY <1>w, <1>q, <1>r, <2>1, EntriesAppend
  <2>3. /\ Waiting' \in Seq(Numbers) /\ \A i \in 1..Len(Waiting') : Waiting'[i] <= Len(sent)
        /\ \A i, j \in 1..Len(Waiting') : i < j => Waiting'[i] < Waiting'[j]
        /\ Len(Waiting') = Len(Waiting) + 1 /\ Waiting'[Len(Waiting) + 1] = x
    <3>1. Ordered'
      BY <1>t DEF QueueInv
    <3> QED BY <1>w, <2>1, <3>1, AppendProperties DEF Ordered
  <2>4. /\ DOMAIN queue = 1..Len(Waiting) /\ DOMAIN queue' = 1..Len(Waiting')
        /\ \A i \in 1..Len(Waiting') : queue'[i].no = Waiting'[i]
    <3>1. DOMAIN queue = 1..Len(Waiting)
      BY <1>w, <1>q, EntriesAre
    <3>2. /\ DOMAIN Entries(Waiting', sent) = 1..Len(Waiting')
          /\ \A i \in 1..Len(Waiting') : Entries(Waiting', sent)[i] = [no |-> Waiting'[i], req |-> sent[Waiting'[i]]]
      BY <1>w, <2>3, EntriesAre
    <3>3. queue' = Entries(Waiting', sent)
      BY <1>r, <2>1
    <3> HIDE DEF queue
    <3> QED BY <3>1, <3>2, <3>3
  <2>5. Service!Increasing(queue')
    BY <2>3, <2>4 DEF Service!Increasing
  <2>6. \A i \in DOMAIN log, j \in DOMAIN queue' \ DOMAIN queue : log[i].no < queue'[j].no
    <3>1. DOMAIN log = 1..Len(log)
      BY <1>t, LenProperties DEF QueueTyped
    <3>2. \A j \in DOMAIN queue' \ DOMAIN queue : j = Len(Waiting) + 1 /\ j \in 1..Len(Waiting')
      <4> HIDE DEF queue
      <4> QED BY <1>w, <2>3, <2>4
    <3>3. \A j \in DOMAIN queue' \ DOMAIN queue : queue'[j].no = x
      <4> HIDE DEF queue
      <4> QED BY <2>3, <2>4, <3>2
    <3> HIDE DEF queue
    <3> QED BY <2>1, <3>1, <3>3
  <2>7. Service!Accept
    BY <2>1, <2>2, <2>5, <2>6 DEF Service!Accept
  <2> QED BY <2>7 DEF Service!Next
<1>3. ASSUME Waiting # <<>>
      PROVE  /\ queue # <<>> /\ Head(queue).no = Waiting[1] /\ Tail(queue) = Entries(Tail(Waiting), sent)
             /\ (Head(queue).req \in {r \in Requests : AsksForAnswer(r)} <=> AsksForAnswer(sent[Waiting[1]]))
  <2>1. /\ queue # <<>> /\ Head(queue) = [no |-> Waiting[1], req |-> sent[Waiting[1]]]
        /\ sent[Waiting[1]] \in Requests /\ Tail(queue) = Entries(Tail(Waiting), sent)
    BY <1>3, <1>w, <1>q, EntriesTail
  <2> HIDE DEF queue
  <2> QED BY <2>1
<1>4. CASE Notifies
  <2>1. queue' = queue
    BY <1>4 DEF Notifies
  <2>2. pc # "stopped" /\ pc' # "stopped" /\ log' = Append(log, [no |-> Waiting[1], kind |-> "event"])
    BY <1>4 DEF Notifies
  <2>3. queue # <<>> /\ Head(queue).no = Waiting[1]
    BY <1>3, <1>4 DEF Notifies
  <2>4. Service!Notify
    BY <2>1, <2>2, <2>3 DEF Service!Notify
  <2> QED BY <2>4 DEF Service!Next
<1>5. CASE Finishes
  <2>1. /\ pc # "stopped" /\ Waiting # <<>> /\ sent' = sent
        /\ log' = IF AsksForAnswer(sent[Waiting[1]])
                  THEN Append(log, [no |-> Waiting[1], kind |-> "answer"])
                  ELSE log
        /\ \/ Waiting' = Tail(Waiting) /\ pc' # "stopped"
           \/ Waiting' = <<>> /\ pc' = "stopped"
    BY <1>5 DEF Finishes
  <2>2. log' = IF Head(queue).req \in {r \in Requests : AsksForAnswer(r)}
               THEN Append(log, [no |-> Head(queue).no, kind |-> "answer"])
               ELSE log
    <3>1. /\ Head(queue).no = Waiting[1]
          /\ (Head(queue).req \in {r \in Requests : AsksForAnswer(r)} <=> AsksForAnswer(sent[Waiting[1]]))
      BY <1>3, <2>1
    <3> HIDE DEF queue
    <3> QED BY <2>1, <3>1
  <2>3. \/ queue' = Tail(queue) /\ pc' # "stopped"
        \/ queue' = <<>> /\ pc' = "stopped"
    <3>1. Entries(<<>>, sent) = <<>>
      BY DEF Entries
    <3>2. queue' = Entries(Waiting', sent) /\ Tail(queue) = Entries(Tail(Waiting), sent)
      BY <1>3, <1>r, <2>1
    <3> HIDE DEF queue
    <3> QED BY <2>1, <3>1, <3>2
  <2>4. queue # <<>>
    BY <1>3, <2>1
  <2>5. Service!Finish
    BY <2>1, <2>2, <2>3, <2>4 DEF Service!Finish
  <2> QED BY <2>5 DEF Service!Next
<1>6. CASE Stops
  <2>1. queue' = <<>>
    BY <1>6 DEF Stops
  <2>2. pc # "stopped" /\ pc' = "stopped" /\ log' = log
    BY <1>6 DEF Stops
  <2>3. Service!Stop
    BY <2>1, <2>2 DEF Service!Stop
  <2> QED BY <2>3 DEF Service!Next
<1> QED BY <1>t, <1>1, <1>2, <1>4, <1>5, <1>6, QueueMoves

\* However the client's bytes are cut into chunks, and wherever the stream
\* ends, the sidecar serves whole requests one at a time and in order, writes
\* their notifications before their answers, and answers each at most once and
\* only if it asked for that: the frames that ContentLengthDecoder.feed cuts
\* out of the stream are those that were written to it.
THEOREM ServesInOrder == Spec => ImplementsRequestService
<1>1. Init => StreamInv /\ QueueInv /\ Service!Init
  BY StreamInit, QueueInit, ServiceInit
<1>2. StreamInv /\ QueueInv /\ [Next]_vars => StreamInv' /\ QueueInv' /\ [Service!Next]_(Service!vars)
  BY StreamStep, QueueStep, ServiceStep
<1> QED BY <1>1, <1>2, PTL DEF Spec, ImplementsRequestService, Service!Spec

-----------------------------------------------------------------------------
(* The sessions and their locks. *)

\* The types of the registry and of the handles that clients hold.
RegistryTyped ==
    /\ ok \in BOOLEAN /\ exit \in BOOLEAN
    /\ session \in [Handles -> Dirs \cup {None}]
    /\ byDirectory \in [Dirs -> Handles \cup {0}]
    /\ nextId \in Nat /\ nextId > 0
    /\ given \subseteq [ws : Handles, dir : Dirs]

\* A request makes one handle at most, and only while it is parsed: there are
\* never more of them than requests that have been served.
Numbered ==
    /\ nextId <= Len(sent) + 1
    /\ \A c \in 1..Len(stream) : nextId <= stream[c].no
    /\ \A i \in 1..Len(Waiting) :
          nextId <= Waiting[i] \/ (i = 1 /\ pc = "answering" /\ nextId <= Waiting[i] + 1)

\* A handle that is in use anywhere was numbered before the next one.
Tables ==
    /\ \A g \in given : g.ws < nextId /\ session[g.ws] \in {g.dir, None}
    /\ \A d \in Dirs : byDirectory[d] # 0 => /\ byDirectory[d] < nextId
                                             /\ session[byDirectory[d]] = d
    /\ \A w \in Handles : session[w] # None => w < nextId /\ byDirectory[session[w]] = w

RegistryInv == RegistryTyped /\ Numbered /\ Tables

\* One operation at a time: it holds the lock of its session, and no other.
LockInv ==
    IF pc = "working" THEN holding = {Request.ws} /\ active \subseteq {current}
                      ELSE holding = {} /\ active = {}

\* Each handler gives up what it took.
LEMMA LockStep == LockInv /\ [Next]_vars => LockInv'
<1> SUFFICES ASSUME LockInv, [Next]_vars PROVE LockInv'
  OBVIOUS
<1>u. ASSUME UNCHANGED <<holding, active>>, pc # "working", pc' # "working" PROVE LockInv'
  BY <1>u DEF LockInv
<1>1. ASSUME NEW r \in Requests, Send(r) PROVE LockInv'
  BY <1>1, <1>u DEF Send
<1>2. ASSUME NEW n \in 0..Len(wire), Close(n) PROVE LockInv'
  BY <1>2, <1>u DEF Close
<1>3. ASSUME NEW n \in 1..MaxChunk, ReadChunk(n) PROVE LockInv'
  BY <1>3, <1>u DEF ReadChunk
<1>4. CASE ReadEnd \/ ExtractMessage \/ FeedReturns \/ FeedRaises \/ NextMessage \/ ReadOn
  BY <1>4, <1>u DEF ReadEnd, ExtractMessage, FeedReturns, FeedRaises, NextMessage, ReadOn
<1>5. CASE Reject \/ DecodeRaises \/ CallOther \/ CallShutdown \/ CallOpen \/ CallClose \/ SessionNotFound
  BY <1>5, <1>u DEF Reject, DecodeRaises, CallOther, CallShutdown, CallOpen, CallClose,
                    SessionNotFound, Called, Working
<1>6. CASE BeginOperation
  <2>1. holding = {} /\ active = {} /\ pc' = "working" /\ sent' = sent /\ current' = current
    BY <1>6 DEF BeginOperation, Called, Working, LockInv, client
  <2>2. holding' = {Request.ws} /\ active' \subseteq {current} /\ Request' = Request
    BY <1>6, <2>1 DEF BeginOperation, Request
  <2> QED BY <2>1, <2>2 DEF LockInv
<1>7. CASE EmitEvent
  <2>1. /\ pc = "working" /\ pc' = pc /\ UNCHANGED <<holding, active, current>> /\ Request' = Request
    BY <1>7 DEF EmitEvent, Working, client, Request
  <2> QED BY <2>1 DEF LockInv
<1>8. CASE EndOperation
  <2>1. holding = {Request.ws} /\ active \subseteq {current}
    BY <1>8 DEF EndOperation, Working, LockInv
  <2>2. holding' = {} /\ active' = {} /\ pc' = "answering"
    BY <1>8, <2>1 DEF EndOperation
  <2> QED BY <2>2 DEF LockInv
<1>9. CASE Answer
  BY <1>9, <1>u DEF Answer
<1>10. CASE UNCHANGED vars
  <2>1. UNCHANGED <<holding, active, pc, current, sent>>
    BY <1>10 DEF vars, client
  <2> QED BY <2>1 DEF LockInv, Request
<1> QED
  BY <1>1, <1>2, <1>3, <1>4, <1>5, <1>6, <1>7, <1>8, <1>9, <1>10 DEF Next, Server

\* What a step does to the tables of the registry.
SameTables == UNCHANGED <<session, byDirectory, nextId>>

Registers(d, replaced) ==
    /\ pc = "parsing" /\ pc' = "answering" /\ UNCHANGED <<sent, wire, eof, buffer, messages, current>>
    /\ Register(d, replaced)

Unregisters(w) ==
    /\ session[w] # None
    /\ session' = [session EXCEPT ![w] = None]
    /\ byDirectory' = [byDirectory EXCEPT ![session[w]] = 0]
    /\ UNCHANGED <<nextId, given>>

Clears ==
    /\ session' = [w \in Handles |-> None] /\ byDirectory' = [d \in Dirs |-> 0]
    /\ UNCHANGED <<nextId, given>>

\* A request that is being dispatched is one the client has sent.
LEMMA RequestIs ==
    ASSUME StreamInv, QueueInv, pc \in Dispatch
    PROVE  /\ current \in 1..Len(sent) /\ Request \in Requests
           /\ Request.dir \in Dirs /\ Request.ws \in Handles
           /\ 1 \in 1..Len(Waiting) /\ Waiting[1] = current
<1>1. Waiting[1] = current /\ Len(Waiting) > 0 /\ Len(Waiting) \in Nat /\ current \in Numbers
  BY WaitingIs DEF QueueInv, QueueTyped
<1>2. 1 \in 1..Len(Waiting)
  BY <1>1
<1>3. current <= Len(sent) /\ sent \in Seq(Requests) /\ Len(sent) \in Nat
  BY <1>1, <1>2, LenProperties DEF QueueInv, Ordered, StreamInv, StreamTyped
<1>4. current \in 1..Len(sent)
  BY <1>1, <1>3 DEF Numbers
<1>5. Request \in Requests
  BY <1>3, <1>4, ElementOfSeq DEF Request
<1> QED BY <1>1, <1>2, <1>4, <1>5, RequestFields

\* Every step leaves the registry alone or is one of these.
LEMMA TablesMove ==
    ASSUME StreamInv, QueueInv, RegistryInv, [Next]_vars
    PROVE  \/ SameTables /\ given' = given
           \/ \E d \in Dirs : /\ SameTables /\ byDirectory[d] # 0
                              /\ given' = given \cup {[ws |-> byDirectory[d], dir |-> d]}
           \/ \E d \in Dirs : Registers(d, {byDirectory[d]})
           \/ \E d \in Dirs : byDirectory[d] = 0 /\ Registers(d, {})
           \/ \E w \in Handles : Unregisters(w)
           \/ Clears
<1>1. ASSUME NEW r \in Requests, Send(r) PROVE SameTables /\ given' = given
  BY <1>1 DEF Send, SameTables, registry
<1>2. ASSUME NEW n \in 0..Len(wire), Close(n) PROVE SameTables /\ given' = given
  BY <1>2 DEF Close, SameTables, registry
<1>3. ASSUME NEW n \in 1..MaxChunk, ReadChunk(n) PROVE SameTables /\ given' = given
  BY <1>3 DEF ReadChunk, SameTables, registry
<1>4. CASE \/ ReadEnd \/ ExtractMessage \/ FeedReturns \/ FeedRaises \/ NextMessage \/ ReadOn
           \/ Reject \/ DecodeRaises \/ CallOther \/ SessionNotFound \/ BeginOperation
           \/ EmitEvent \/ EndOperation \/ Answer \/ UNCHANGED vars
  BY <1>4 DEF ReadEnd, ExtractMessage, FeedReturns, FeedRaises, NextMessage, ReadOn, Reject,
              DecodeRaises, CallOther, SessionNotFound, BeginOperation, EmitEvent, EndOperation,
              Answer, vars, registry, SameTables
<1>5. CASE CallShutdown
  BY <1>5 DEF CallShutdown, Clears
<1>6. CASE CallClose
  <2>1. Request.ws \in Handles
    BY <1>6, RequestIs DEF CallClose, Called, Working, Dispatch
  <2>2. CASE ok' = TRUE
    <3>1. Unregisters(Request.ws)
      BY <1>6, <2>2 DEF CallClose, Unregisters
    <3> QED BY <2>1, <3>1
  <2>3. CASE ok' # TRUE
    <3>1. SameTables /\ given' = given
      BY <1>6, <2>3 DEF CallClose, SameTables
    <3> QED BY <3>1
  <2> QED BY <2>2, <2>3
<1>7. CASE CallOpen
  <2>1. /\ pc = "parsing" /\ pc' = "answering" /\ UNCHANGED <<sent, wire, eof, buffer, messages, current>>
        /\ ok' \in BOOLEAN
    BY <1>7 DEF CallOpen, Called, Working, client
  <2>2. Request.dir \in Dirs
    BY <2>1, RequestIs DEF Dispatch
  <2>3. \/ UNCHANGED registry
        \/ CreateSession(Request.dir)
        \/ OpenSession(Request.dir)
    BY <1>7 DEF CallOpen
  <2>4. CASE UNCHANGED registry
    BY <2>4 DEF registry, SameTables
  <2>5. CASE CreateSession(Request.dir)
    BY <2>1, <2>2, <2>5 DEF CreateSession, Registers
  <2>6. CASE OpenSession(Request.dir)
    BY <2>1, <2>2, <2>6 DEF OpenSession, Registers, SameTables
  <2> QED BY <2>3, <2>4, <2>5, <2>6
<1> QED BY <1>1, <1>2, <1>3, <1>4, <1>5, <1>6, <1>7 DEF Next, Server

LEMMA WaitingMoves ==
    ASSUME StreamInv, QueueInv, [Next]_vars
    PROVE  /\ NothingLost
           /\ \/ Waiting' = <<>>
              \/ Waiting' = Tail(Waiting) /\ Waiting # <<>>
              \/ Waiting' = Waiting /\ (pc = "answering" => pc' = "answering")
              \/ /\ Waiting' = Append(Waiting, stream[1].no) /\ stream[1].no \in Numbers
                 /\ Len(stream) > 0 /\ pc # "answering"
<1>1. Quiet \/ Accepts \/ Notifies \/ Finishes \/ Stops
  BY QueueMoves DEF QueueInv
<1>2. CASE pc # "answering"
  BY <1>1, <1>2 DEF Quiet, Accepts, Notifies, Finishes, Stops
<1>3. CASE pc = "answering"
  <2>1. Answer \/ UNCHANGED vars
    BY <1>3 DEF Next, Server, Send, Close, ReadChunk, ReadEnd, ExtractMessage, FeedReturns,
                FeedRaises, NextMessage, ReadOn, Reject, DecodeRaises, CallOther, CallShutdown,
                CallOpen, CallClose, SessionNotFound, BeginOperation, EmitEvent, EndOperation,
                Called, Working
  <2>2. CASE Answer
    <3>1. Waiting # <<>> /\ Tail(Waiting) = Senders(messages)
      BY <1>3, WaitingIs DEF QueueInv, Dispatch
    <3>2. /\ pc' \in {"stopped", "dispatching"} /\ (messages' = <<>> \/ messages' = messages)
      BY <2>2 DEF Answer
    <3>3. Senders(messages) \in Seq(Numbers)
      BY DEF QueueInv, QueueTyped
    <3>4. CASE messages' = <<>>
      <4>1. Waiting' = <<>>
        BY <3>2, <3>4, WaitingIdle, SendersEmpty DEF Dispatch
      <4> QED BY <1>1, <4>1 DEF Quiet, Accepts, Notifies, Finishes, Stops
    <3>5. CASE messages' = messages
      <4>1. Waiting' = Tail(Waiting)
        BY <3>1, <3>2, <3>3, <3>5, WaitingIdle DEF Dispatch
      <4> QED BY <1>1, <3>1, <4>1 DEF Quiet, Accepts, Notifies, Finishes, Stops
    <3> QED BY <3>2, <3>4, <3>5
  <2>3. CASE UNCHANGED vars
    <3>1. UNCHANGED <<sent, wire, eof, buffer, messages, pc, current>>
      BY <2>3 DEF vars, client
    <3> QED BY <3>1, SameStream, WaitingSame
  <2> QED BY <2>1, <2>2, <2>3
<1> QED BY <1>2, <1>3

LEMMA NumberedKept ==
    ASSUME StreamInv, QueueInv, RegistryInv, [Next]_vars, nextId' = nextId
    PROVE  Numbered'
<1>n. /\ Len(sent) \in Nat /\ Len(stream) \in Nat /\ nextId \in Nat /\ Len(sent') \in Nat
      /\ Waiting \in Seq(Numbers) /\ Len(Waiting) \in Nat
      /\ \A i \in 1..Len(Waiting) : Waiting[i] \in Numbers
  <2>1. sent' \in Seq(Requests)
    BY StreamStep DEF StreamInv, StreamTyped
  <2>2. Waiting \in Seq(Numbers)
    BY WaitingIs DEF QueueInv
  <2> QED BY <2>1, <2>2, StreamIsSeq, LenProperties, ElementOfSeq DEF StreamInv, RegistryInv, RegistryTyped
<1>w. NothingLost
  BY WaitingMoves
<1>b. /\ nextId <= Len(sent) + 1
      /\ \A c \in 1..Len(stream) : nextId <= stream[c].no
      /\ \A i \in 1..Len(Waiting) :
            nextId <= Waiting[i] \/ (i = 1 /\ pc = "answering" /\ nextId <= Waiting[i] + 1)
  BY DEF RegistryInv, Numbered
<1>1. nextId' <= Len(sent') + 1
  BY <1>n, <1>w, <1>b DEF NothingLost
<1>2. \A c \in 1..Len(stream') : nextId' <= stream'[c].no
  <2>1. SUFFICES ASSUME NEW c \in 1..Len(stream') PROVE nextId <= stream'[c].no
    OBVIOUS
  <2>2. CASE stream'[c].no = Len(sent) + 1
    BY <1>b, <2>2
  <2>3. CASE \E d \in 1..Len(stream) : stream'[c] = stream[d]
    BY <1>b, <2>3
  <2> QED BY <1>w, <2>2, <2>3 DEF NothingLost
<1>3. ASSUME NEW i \in 1..Len(Waiting')
      PROVE  nextId <= Waiting'[i] \/ (i = 1 /\ pc' = "answering" /\ nextId <= Waiting'[i] + 1)
  <2>1. CASE Waiting' = <<>>
    <3>1. Len(<<>>) = 0 /\ 1..0 = {}
      OBVIOUS
    <3> QED BY <2>1, <3>1
  <2>2. CASE Waiting' = Tail(Waiting) /\ Waiting # <<>>
    <3>1. Len(Waiting') = Len(Waiting) - 1 /\ Waiting'[i] = Waiting[i + 1]
      BY <1>n, <2>2, HeadTailProperties
    <3>2. i + 1 \in 1..Len(Waiting) /\ i + 1 # 1
      BY <1>n, <3>1
    <3> QED BY <1>b, <3>1, <3>2
  <2>3. CASE Waiting' = Waiting /\ (pc = "answering" => pc' = "answering")
    BY <1>b, <2>3
  <2>4. CASE /\ Waiting' = Append(Waiting, stream[1].no) /\ stream[1].no \in Numbers
             /\ Len(stream) > 0 /\ pc # "answering"
    <3>1. /\ Len(Waiting') = Len(Waiting) + 1 /\ Waiting'[Len(Waiting) + 1] = stream[1].no
          /\ \A j \in 1..Len(Waiting) : Waiting'[j] = Waiting[j]
      BY <1>n, <2>4, AppendProperties
    <3>2. i \in 1..Len(Waiting) \/ i = Len(Waiting) + 1
      BY <1>n, <3>1
    <3>3. nextId <= stream[1].no
      BY <1>n, <1>b, <2>4
    <3> QED BY <1>b, <2>4, <3>1, <3>2, <3>3
  <2> QED BY <2>1, <2>2, <2>3, <2>4, WaitingMoves
<1> QED BY <1>1, <1>2, <1>3 DEF Numbered

\* The next handle is one that no request has been given yet.
LEMMA NumberedMore ==
    ASSUME StreamInv, QueueInv, RegistryInv, pc = "parsing", pc' = "answering",
           UNCHANGED <<sent, wire, eof, buffer, messages, current>>, nextId' = nextId + 1
    PROVE  Numbered' /\ nextId \in Handles
<1>q. 1 \in 1..Len(Waiting) /\ Waiting[1] = current /\ current \in 1..Len(sent)
  BY RequestIs DEF Dispatch
<1>n. /\ Len(sent) \in Nat /\ Len(sent) <= MaxRequests /\ Len(stream) \in Nat /\ nextId \in Nat
      /\ nextId > 0 /\ \A i \in 1..Len(Waiting) : Waiting[i] \in Numbers
  <2>2. Waiting \in Seq(Numbers)
    BY WaitingIs DEF QueueInv
  <2> QED BY <2>2, StreamIsSeq, ElementOfSeq DEF StreamInv, StreamTyped, RegistryInv, RegistryTyped
<1>u. stream' = stream /\ Waiting' = Waiting
  BY WaitingSame, StreamKept DEF Dispatch
<1>1. nextId <= current
  BY <1>q DEF RegistryInv, Numbered
<1>2. nextId \in Handles
  BY <1>n, <1>q, <1>1, BoundsAssumption DEF Handles
<1>3. nextId + 1 <= Len(sent) + 1
  BY <1>n, <1>q, <1>1
<1>4. ASSUME NEW c \in 1..Len(stream) PROVE nextId + 1 <= stream[c].no
  <2>1. current < stream[c].no
    BY <1>q DEF QueueInv, Ordered
  <2>2. stream[c].no \in 1..Len(sent)
    BY DEF StreamInv, Framed
  <2> QED BY <1>n, <1>q, <1>1, <2>1, <2>2
<1>5. ASSUME NEW i \in 1..Len(Waiting)
      PROVE  nextId + 1 <= Waiting[i] \/ (i = 1 /\ nextId + 1 <= Waiting[i] + 1)
  <2>1. CASE i = 1
    BY <1>n, <1>q, <1>1, <2>1
  <2>2. CASE i # 1
    <3>1. 1 < i
      BY <2>2
    <3>2. current < Waiting[i]
      BY <1>q, <3>1 DEF QueueInv, Ordered
    <3> QED BY <1>n, <1>q, <1>1, <3>2 DEF Numbers
  <2> QED BY <2>1, <2>2
<1> QED BY <1>u, <1>2, <1>3, <1>4, <1>5 DEF Numbered

LEMMA BelowNext ==
    ASSUME NEW w \in Handles, NEW n \in Nat, w < n
    PROVE  w # n /\ w < n + 1
BY DEF Handles

LEMMA RegisterKeeps ==
    ASSUME RegistryTyped, Tables, nextId \in Handles,
           NEW d \in Dirs, NEW replaced, replaced = {byDirectory[d]} \/ (replaced = {} /\ byDirectory[d] = 0),
           Register(d, replaced)
    PROVE  /\ session' \in [Handles -> Dirs \cup {None}] /\ byDirectory' \in [Dirs -> Handles \cup {0}]
           /\ given' \subseteq [ws : Handles, dir : Dirs] /\ Tables'
<1>t. /\ session \in [Handles -> Dirs \cup {None}] /\ byDirectory \in [Dirs -> Handles \cup {0}]
      /\ given \subseteq [ws : Handles, dir : Dirs] /\ nextId \in Nat /\ nextId' = nextId + 1
      /\ d # None /\ nextId # 0
  BY NoneAssumption DEF RegistryTyped, Register, Handles
<1>h. \A w \in Handles : w \in Nat /\ w # 0
  BY DEF Handles
<1>s. /\ session' \in [Handles -> Dirs \cup {None}]
      /\ session'[nextId] = d
      /\ \A w \in replaced : w \in Handles /\ w # nextId => session'[w] = None
      /\ \A w \in Handles : w # nextId /\ w \notin replaced => session'[w] = session[w]
      /\ \A w \in Handles : w # nextId => session'[w] \in {session[w], None}
  BY <1>t DEF Register, NewHandle
<1>d. /\ byDirectory' \in [Dirs -> Handles \cup {0}] /\ byDirectory'[d] = nextId
      /\ \A e \in Dirs : e # d => byDirectory'[e] = byDirectory[e]
  BY <1>t DEF Register, NewHandle
<1>g. /\ given' = given \cup {[ws |-> nextId, dir |-> d]}
      /\ given' \subseteq [ws : Handles, dir : Dirs]
  BY <1>t DEF Register, NewHandle
<1>1. ASSUME NEW g \in given' PROVE g.ws < nextId' /\ session'[g.ws] \in {g.dir, None}
  <2>1. CASE g \in given
    <3>1. g.ws \in Handles /\ g.ws < nextId /\ session[g.ws] \in {g.dir, None}
      BY <1>t, <2>1 DEF Tables
    <3>2. g.ws # nextId /\ g.ws < nextId + 1
      BY <1>t, <3>1, BelowNext
    <3> QED BY <1>t, <1>s, <3>1, <3>2
  <2>2. CASE g = [ws |-> nextId, dir |-> d]
    <3>1. g.ws = nextId /\ g.dir = d /\ nextId < nextId + 1
      BY <1>t, <2>2
    <3> QED BY <1>t, <1>s, <3>1
  <2> QED BY <1>g, <2>1, <2>2
<1>2. ASSUME NEW e \in Dirs, byDirectory'[e] # 0
      PROVE  byDirectory'[e] < nextId' /\ session'[byDirectory'[e]] = e
  <2>1. CASE e = d
    <3>1. nextId < nextId + 1
      BY <1>t
    <3> QED BY <1>t, <1>s, <1>d, <2>1, <3>1
  <2>2. CASE e # d
    <3>1. byDirectory'[e] = byDirectory[e]
      BY <1>d, <2>2
    <3>2. byDirectory[e] # 0
      BY <1>2, <3>1
    <3>3. /\ byDirectory[e] \in Handles /\ byDirectory[e] < nextId
          /\ session[byDirectory[e]] = e
      BY <1>t, <3>2 DEF Tables
    <3>4. byDirectory[e] # nextId /\ byDirectory[e] < nextId + 1
      BY <1>t, <3>3, BelowNext
    <3>5. byDirectory[e] \notin replaced
      <4>1. CASE byDirectory[d] # 0
        <5>1. session[byDirectory[d]] = d
          BY <4>1 DEF Tables
        <5> QED BY <2>2, <3>3, <4>1, <5>1
      <4>2. CASE byDirectory[d] = 0
        BY <3>2, <4>2
      <4> QED BY <4>1, <4>2
    <3>6. session'[byDirectory[e]] = e
      BY <1>s, <3>3, <3>4, <3>5
    <3> QED BY <1>t, <3>1, <3>4, <3>6
  <2> QED BY <2>1, <2>2
<1>3. ASSUME NEW w \in Handles, session'[w] # None
      PROVE  w < nextId' /\ byDirectory'[session'[w]] = w
  <2>1. CASE w = nextId
    <3>1. nextId < nextId + 1
      BY <1>t
    <3> QED BY <1>t, <1>s, <1>d, <2>1, <3>1
  <2>2. CASE w # nextId
    <3>1. session'[w] = session[w] /\ w \notin replaced
      BY <1>3, <1>s, <2>2
    <3>2. session[w] # None /\ session[w] \in Dirs /\ w < nextId /\ byDirectory[session[w]] = w
      BY <1>3, <1>t, <3>1 DEF Tables
    <3>3. session[w] # d
      <4> SUFFICES ASSUME session[w] = d PROVE FALSE
        OBVIOUS
      <4>1. byDirectory[d] = w /\ w # 0
        BY <1>h, <3>2
      <4> QED BY <3>1, <4>1
    <3>4. byDirectory'[session[w]] = w
      BY <1>d, <3>2, <3>3
    <3>5. w < nextId + 1
      BY <1>t, <1>h, <3>2
    <3> QED BY <1>t, <3>1, <3>4, <3>5
  <2> QED BY <2>1, <2>2
<1> QED BY <1>s, <1>d, <1>g, <1>1, <1>2, <1>3 DEF Tables

LEMMA UnregisterKeeps ==
    ASSUME RegistryTyped, Tables, NEW w \in Handles, Unregisters(w)
    PROVE  /\ session' \in [Handles -> Dirs \cup {None}] /\ byDirectory' \in [Dirs -> Handles \cup {0}]
           /\ Tables'
<1>t. /\ session \in [Handles -> Dirs \cup {None}] /\ byDirectory \in [Dirs -> Handles \cup {0}]
      /\ given \subseteq [ws : Handles, dir : Dirs] /\ nextId' = nextId /\ given' = given
  BY DEF RegistryTyped, Unregisters
<1>w. session[w] # None /\ session[w] \in Dirs /\ byDirectory[session[w]] = w
  BY <1>t DEF Tables, Unregisters
<1>s. /\ session' \in [Handles -> Dirs \cup {None}] /\ session'[w] = None
      /\ \A v \in Handles : v # w => session'[v] = session[v]
  BY <1>t DEF Unregisters
<1>d. /\ byDirectory' \in [Dirs -> Handles \cup {0}] /\ byDirectory'[session[w]] = 0
      /\ \A d \in Dirs : d # session[w] => byDirectory'[d] = byDirectory[d]
  BY <1>t, <1>w DEF Unregisters
<1>1. ASSUME NEW g \in given' PROVE g.ws < nextId' /\ session'[g.ws] \in {g.dir, None}
  <2>1. g.ws \in Handles /\ g.ws < nextId /\ session[g.ws] \in {g.dir, None}
    BY <1>t DEF Tables
  <2> QED BY <1>t, <1>s, <2>1
<1>2. ASSUME NEW d \in Dirs, byDirectory'[d] # 0
      PROVE  byDirectory'[d] < nextId' /\ session'[byDirectory'[d]] = d
  <2>1. d # session[w] /\ byDirectory'[d] = byDirectory[d]
    BY <1>2, <1>d
  <2>2. byDirectory[d] \in Handles /\ byDirectory[d] < nextId /\ session[byDirectory[d]] = d
    BY <1>2, <1>t, <2>1 DEF Tables
  <2>3. byDirectory[d] # w
    BY <2>1, <2>2
  <2> QED BY <1>t, <1>s, <2>1, <2>2, <2>3
<1>3. ASSUME NEW v \in Handles, session'[v] # None
      PROVE  v < nextId' /\ byDirectory'[session'[v]] = v
  <2>1. v # w /\ session'[v] = session[v]
    BY <1>3, <1>s
  <2>2. session[v] \in Dirs /\ v < nextId /\ byDirectory[session[v]] = v
    BY <1>3, <1>t, <2>1 DEF Tables
  <2>3. session[v] # session[w]
    BY <1>w, <2>1, <2>2
  <2> QED BY <1>t, <1>d, <2>1, <2>2, <2>3
<1> QED BY <1>s, <1>d, <1>1, <1>2, <1>3 DEF Tables

LEMMA FlagsTyped == RegistryTyped /\ [Next]_vars => ok' \in BOOLEAN /\ exit' \in BOOLEAN
<1> SUFFICES ASSUME RegistryTyped, [Next]_vars PROVE ok' \in BOOLEAN /\ exit' \in BOOLEAN
  OBVIOUS
<1>t. ok \in BOOLEAN /\ exit \in BOOLEAN
  BY DEF RegistryTyped
<1>1. ASSUME NEW r \in Requests, Send(r) PROVE UNCHANGED <<ok, exit>>
  BY <1>1 DEF Send
<1>2. ASSUME NEW n \in 0..Len(wire), Close(n) PROVE UNCHANGED <<ok, exit>>
  BY <1>2 DEF Close
<1>3. ASSUME NEW n \in 1..MaxChunk, ReadChunk(n) PROVE UNCHANGED <<ok, exit>>
  BY <1>3 DEF ReadChunk
<1>4. CASE \/ ReadEnd \/ ExtractMessage \/ FeedReturns \/ FeedRaises \/ NextMessage \/ ReadOn
           \/ DecodeRaises \/ BeginOperation \/ EmitEvent \/ Answer \/ UNCHANGED vars
  BY <1>t, <1>4 DEF ReadEnd, ExtractMessage, FeedReturns, FeedRaises, NextMessage, ReadOn,
              DecodeRaises, BeginOperation, EmitEvent, Answer, vars
<1>5. CASE Reject \/ CallOther \/ CallShutdown \/ CallOpen \/ SessionNotFound \/ EndOperation
  BY <1>t, <1>5 DEF Reject, CallOther, CallShutdown, CallOpen, SessionNotFound, EndOperation
<1>6. CASE CallClose
  <2>1. ok' = (session[Request.ws] # None) /\ exit' = exit
    BY <1>6 DEF CallClose
  <2> QED BY <1>t, <2>1
<1> QED BY <1>t, <1>1, <1>2, <1>3, <1>4, <1>5, <1>6 DEF Next, Server

LEMMA RegistryStep == StreamInv /\ QueueInv /\ RegistryInv /\ [Next]_vars => RegistryInv'
<1> SUFFICES ASSUME StreamInv, QueueInv, RegistryInv, [Next]_vars PROVE RegistryInv'
  OBVIOUS
<1>t. RegistryTyped /\ Tables /\ ok' \in BOOLEAN /\ exit' \in BOOLEAN
  BY FlagsTyped DEF RegistryInv
<1>n. nextId \in Nat /\ nextId > 0 /\ nextId + 1 \in Nat /\ nextId + 1 > 0
  BY <1>t DEF RegistryTyped
<1>1. CASE SameTables /\ given' = given
  <2>1. Numbered'
    BY <1>1, NumberedKept DEF SameTables
  <2>2. RegistryTyped' /\ Tables'
    BY <1>t, <1>1 DEF RegistryTyped, Tables, SameTables
  <2> QED BY <2>1, <2>2 DEF RegistryInv
<1>2. ASSUME NEW d \in Dirs, SameTables, byDirectory[d] # 0,
             given' = given \cup {[ws |-> byDirectory[d], dir |-> d]}
      PROVE  RegistryInv'
  <2>1. Numbered'
    BY <1>2, NumberedKept DEF SameTables
  <2>2. byDirectory[d] \in Handles /\ byDirectory[d] < nextId /\ session[byDirectory[d]] = d
    BY <1>t, <1>2 DEF RegistryTyped, Tables
  <2>3. RegistryTyped'
    BY <1>t, <1>2, <2>2 DEF RegistryTyped, SameTables
  <2>4. \A g \in given' : g.ws < nextId /\ session[g.ws] \in {g.dir, None}
    BY <1>t, <1>2, <2>2 DEF Tables
  <2>5. Tables'
    BY <1>t, <1>2, <2>4 DEF Tables, SameTables
  <2> QED BY <2>1, <2>3, <2>5 DEF RegistryInv
<1>3. ASSUME NEW d \in Dirs, NEW replaced, Registers(d, replaced),
             replaced = {byDirectory[d]} \/ (replaced = {} /\ byDirectory[d] = 0)
      PROVE  RegistryInv'
  <2>1. nextId' = nextId + 1 /\ Register(d, replaced)
    BY <1>3 DEF Registers, Register
  <2>2. Numbered' /\ nextId \in Handles
    BY <1>3, <2>1, NumberedMore DEF Registers
  <2>3. /\ session' \in [Handles -> Dirs \cup {None}] /\ byDirectory' \in [Dirs -> Handles \cup {0}]
        /\ given' \subseteq [ws : Handles, dir : Dirs] /\ Tables'
    BY <1>3, <1>t, <2>1, <2>2, RegisterKeeps
  <2>4. RegistryTyped'
    BY <1>t, <1>n, <2>1, <2>3 DEF RegistryTyped
  <2> QED BY <2>2, <2>3, <2>4 DEF RegistryInv
<1>4. ASSUME NEW w \in Handles, Unregisters(w) PROVE RegistryInv'
  <2>1. nextId' = nextId /\ given' = given
    BY <1>4 DEF Unregisters
  <2>2. Numbered'
    BY <2>1, NumberedKept
  <2>3. /\ session' \in [Handles -> Dirs \cup {None}] /\ byDirectory' \in [Dirs -> Handles \cup {0}]
        /\ Tables'
    BY <1>4, <1>t, UnregisterKeeps
  <2>4. RegistryTyped'
    BY <1>t, <2>1, <2>3 DEF RegistryTyped
  <2> QED BY <2>2, <2>3, <2>4 DEF RegistryInv
<1>5. CASE Clears
  <2>1. /\ nextId' = nextId /\ given' = given /\ session' = [w \in Handles |-> None]
        /\ byDirectory' = [d \in Dirs |-> 0]
    BY <1>5 DEF Clears
  <2>2. Numbered'
    BY <2>1, NumberedKept
  <2>3. RegistryTyped'
    BY <1>t, <2>1 DEF RegistryTyped
  <2>4. \A g \in given' : g.ws < nextId /\ g.ws \in Handles
    BY <1>t, <2>1 DEF Tables, RegistryTyped
  <2>5. Tables'
    BY <2>1, <2>4 DEF Tables
  <2> QED BY <2>2, <2>3, <2>5 DEF RegistryInv
<1> QED BY <1>1, <1>2, <1>3, <1>4, <1>5, TablesMove

LEMMA RegistryInit == Init => RegistryInv /\ LockInv
<1> SUFFICES ASSUME Init PROVE RegistryInv /\ LockInv
  OBVIOUS
<1>1. Waiting = <<>> /\ sent = <<>> /\ stream = <<>>
  <2>1. pc = "reading" /\ messages = <<>> /\ sent = <<>> /\ buffer = <<>> /\ wire = <<>>
    BY DEF Init
  <2>2. Waiting = Senders(messages)
    BY <2>1, QueueTypedInit, WaitingIs DEF Dispatch
  <2> QED BY <2>1, <2>2, SendersEmpty DEF stream
<1>2. /\ nextId = 1 /\ given = {} /\ session = [w \in Handles |-> None]
      /\ byDirectory = [d \in Dirs |-> 0] /\ ok = TRUE /\ exit = FALSE
  BY DEF Init
<1>3. RegistryTyped
  <2>1. session \in [Handles -> Dirs \cup {None}] /\ byDirectory \in [Dirs -> Handles \cup {0}]
    BY <1>2
  <2>2. nextId \in Nat /\ nextId > 0
    BY <1>2
  <2> QED BY <1>2, <2>1, <2>2 DEF RegistryTyped
<1>4. Numbered
  <2>1. Len(<<>>) = 0 /\ 1..0 = {} /\ 1 <= 0 + 1
    OBVIOUS
  <2> QED BY <1>1, <1>2, <2>1 DEF Numbered
<1>5. Tables
  BY <1>2 DEF Tables
<1>6. LockInv
  BY DEF Init, LockInv
<1> QED BY <1>3, <1>4, <1>5, <1>6 DEF RegistryInv

LEMMA ServerInvariant == Spec => [](StreamInv /\ QueueInv /\ RegistryInv /\ LockInv)
<1>1. Init => StreamInv /\ QueueInv /\ RegistryInv /\ LockInv
  BY StreamInit, QueueInit, RegistryInit
<1>2. StreamInv /\ QueueInv /\ RegistryInv /\ LockInv /\ [Next]_vars
      => StreamInv' /\ QueueInv' /\ RegistryInv' /\ LockInv'
  BY StreamStep, QueueStep, RegistryStep, LockStep
<1> QED BY <1>1, <1>2, PTL DEF Spec

\* The types of the server's state.  That handles stay within those that exist
\* is what Numbered is for: a request is given one new handle at most.
THEOREM TypeCorrect == Spec => []TypeOK
<1>1. StreamInv /\ QueueInv /\ RegistryInv /\ LockInv => TypeOK
  <2> SUFFICES ASSUME StreamInv, QueueInv, RegistryInv, LockInv PROVE TypeOK
    OBVIOUS
  <2>1. /\ sent \in Seq(Requests) /\ Len(sent) <= MaxRequests /\ Len(sent) \in Nat
        /\ wire \in Seq(Cells) /\ buffer \in Seq(Cells) /\ eof \in BOOLEAN
    BY LenProperties DEF StreamInv, StreamTyped
  <2>2. /\ messages \in Seq(Seq(Cells)) /\ pc \in Places /\ current \in 0..MaxRequests
        /\ log \in Seq([no : 0..MaxRequests, kind : {"event", "answer"}])
    BY DEF QueueInv, QueueTyped, LogTypes
  <2>3. /\ ok \in BOOLEAN /\ exit \in BOOLEAN /\ session \in [Handles -> Dirs \cup {None}]
        /\ byDirectory \in [Dirs -> Handles \cup {0}] /\ given \subseteq [ws : Handles, dir : Dirs]
    BY DEF RegistryInv, RegistryTyped
  <2>4. nextId \in 1..MaxRequests + 1
    <3>1. nextId \in Nat /\ nextId > 0 /\ nextId <= Len(sent) + 1
      BY DEF RegistryInv, RegistryTyped, Numbered
    <3> QED BY <2>1, <3>1, BoundsAssumption
  <2>5. holding \subseteq Handles /\ active \subseteq 1..MaxRequests
    <3>1. CASE pc = "working"
      <4>1. Request.ws \in Handles /\ current \in 1..Len(sent)
        BY <3>1, RequestIs DEF Dispatch
      <4>2. current \in 1..MaxRequests
        BY <2>1, <4>1, BoundsAssumption
      <4> QED BY <3>1, <4>1, <4>2 DEF LockInv
    <3>2. CASE pc # "working"
      BY <3>2 DEF LockInv
    <3> QED BY <3>1, <3>2
  <2> QED BY <2>1, <2>2, <2>3, <2>4, <2>5 DEF TypeOK
<1> QED BY <1>1, ServerInvariant, PTL

\* A handle that a client was ever given leads to the workspace it was given
\* for, or nowhere, whatever is created, opened, replaced and closed after it;
\* and the two tables of WorkspaceSessionRegistry stay inverse to each other.
THEOREM HandlesStayTrue == Spec => []HandlesKeepTheirWorkspace
<1>1. RegistryInv => HandlesKeepTheirWorkspace
  BY DEF RegistryInv, Tables, HandlesKeepTheirWorkspace
<1> QED BY <1>1, ServerInvariant, PTL

\* Whether an operation returns or raises, its lock and its operation id are
\* given up before the server goes on to the next request.
THEOREM LocksAreGivenUp == Spec => []NothingHeldBetweenRequests
<1>1. LockInv => NothingHeldBetweenRequests
  BY DEF LockInv, NothingHeldBetweenRequests
<1> QED BY <1>1, ServerInvariant, PTL
=============================================================================
