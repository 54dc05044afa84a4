--------------------------- MODULE HttpStreamProofs ---------------------------
(* The callbacks of _http_parse_message() are those that the messages call for,
   for any set of streams, any way of reading them, any place where the peer stops
   and any block size.  *)
EXTENDS HttpStream, HttpParserProofs

-----------------------------------------------------------------------------
(* The streams of HttpStream: what follows a part, and where.              *)

\* The parts of a stream and their framing have their types.
LEMMA PartTypes ==
    ASSUME NEW s, IsStream(s)
    PROVE  /\ Len(s.parts) \in Nat /\ Len(s.bytes) \in Nat
           /\ \A i \in 1 .. Len(s.parts) :
                 /\ s.parts[i] \in Part /\ s.framing[i] \in Framing
                 /\ s.parts[i].from \in Int /\ s.parts[i].to \in Int /\ s.parts[i].sz \in Int
                 /\ s.parts[i].ev \in {"line", "header"} => s.parts[i].from \in Nat
           /\ \A i \in 0 .. Len(s.parts) : Behind(s, i) \in Int
<1>1. /\ Len(s.parts) \in Nat /\ Len(s.bytes) \in Nat
      /\ \A i \in 1 .. Len(s.parts) : s.parts[i] \in Part /\ s.framing[i] \in Framing
  BY DEF IsStream
<1>2. \A f \in Part : /\ f.from \in Int /\ f.to \in Int /\ f.sz \in Int
                      /\ f.ev \in {"line", "header"} => f.from \in Nat
  BY DEF Part
<1>3. ASSUME NEW i \in 0 .. Len(s.parts) PROVE Behind(s, i) \in Int
  BY <1>1, <1>2 DEF Behind
<1> QED BY <1>1, <1>2, <1>3, Zenon

\* A part that is neither the end of a message nor malformed is not the last.
LEMMA NotLast ==
    ASSUME NEW s, IsStream(s), NEW i \in 1 .. Len(s.parts),
           s.parts[i].ev \notin {"end", "reject"}
    PROVE  i + 1 \in 1 .. Len(s.parts) /\ Follows(s, i) /\ Frames(s, i + 1)
<1>1. Len(s.parts) \in Nat
  BY PartTypes, Zenon
<1>2. i # Len(s.parts)
  BY <1>1 DEF IsStream, Malformed, Starts, Strays
<1>3. i \in 0 .. (Len(s.parts) - 1) /\ i + 1 \in 1 .. Len(s.parts)
  BY <1>1, <1>2
<1> QED BY <1>3, Zenon DEF IsStream

\* Nothing follows what is malformed.
LEMMA RejectIsLast ==
    ASSUME NEW s, IsStream(s), NEW i \in 1 .. Len(s.parts), s.parts[i].ev = "reject"
    PROVE  i = Len(s.parts)
<1>1. Len(s.parts) \in Nat
  BY PartTypes, Zenon
<1>2. ~ Follows(s, i)
  BY <1>1 DEF Follows, Starts
<1> QED BY <1>1, <1>2 DEF IsStream

\* Nothing but the end of its header follows a message of negative size.
LEMMA StrayIsLast ==
    ASSUME NEW s, IsStream(s), NEW i \in 0 .. Len(s.parts), Strays(s, i)
    PROVE  /\ i = Len(s.parts) /\ s.parts[i].sz \in Int
           /\ Behind(s, i) - s.parts[i].sz = Len(s.bytes)
<1>1. Len(s.parts) \in Nat /\ s.parts[i].sz \in Int /\ s.parts[i].sz < 0 /\ i > 0
      /\ s.parts[i].ev = "end"
  BY PartTypes DEF Strays
<1>2. ~ Starts(s, i)
  BY <1>1 DEF Starts
<1>3. ~ Follows(s, i)
  BY <1>1, <1>2, Zenon DEF Follows
<1>4. i = Len(s.parts)
  <2>1. i \in 0 .. (Len(s.parts) - 1) \/ i = Len(s.parts)
    BY <1>1
  <2> QED BY <1>3, <2>1, Zenon DEF IsStream
<1>5. ~ Malformed(s)
  BY <1>1, <1>4, Zenon DEF Malformed
<1> QED BY <1>1, <1>2, <1>4, <1>5, Zenon DEF IsStream

\* Before a message there is a start line, or the end of the stream.
LEMMA AfterMessage ==
    ASSUME NEW s, IsStream(s), NEW i \in 0 .. Len(s.parts), Starts(s, i),
           Behind(s, i) < Len(s.bytes)
    PROVE  /\ i + 1 \in 1 .. Len(s.parts) /\ Frames(s, i + 1)
           /\ LineAt(s, s.parts[i + 1], Behind(s, i))
<1>1. Len(s.parts) \in Nat
  BY PartTypes, Zenon
<1>2. i # Len(s.parts)
  <2>1. ASSUME i = Len(s.parts) PROVE ~ Malformed(s) /\ ~ Strays(s, Len(s.parts))
    <3>1. ~ Malformed(s)
      BY <1>1, <2>1 DEF Malformed, Starts
    <3>2. i > 0 => s.parts[i].sz \in Int
      BY <1>1, PartTypes
    <3> QED BY <1>1, <2>1, <3>1, <3>2 DEF Starts, Strays
  <2> QED BY <1>1, <2>1, PartTypes DEF IsStream
<1>3. i \in 0 .. (Len(s.parts) - 1) /\ i + 1 \in 1 .. Len(s.parts)
  BY <1>1, <1>2
<1> QED BY <1>3, Zenon DEF IsStream, Follows

\* A start line or a field ends with a CR LF; another field or the blank line and
\* the body follow.
LEMMA AfterField ==
    ASSUME NEW s, IsStream(s), NEW i \in 1 .. Len(s.parts),
           s.parts[i].ev \in {"line", "header"}
    PROVE  /\ i + 1 \in 1 .. Len(s.parts) /\ Frames(s, i + 1)
           /\ \/ FieldAt(s, s.parts[i + 1], Behind(s, i))
              \/ BodyAt(s, s.parts[i + 1], Behind(s, i), s.framing[i])
           /\ Behind(s, i) = s.parts[i].to + 2 /\ CrLfAt(s, s.parts[i].to)
           /\ s.parts[i].from \in Nat /\ s.parts[i].to = s.parts[i].from + 1
           /\ Kind(s, s.parts[i].from) \in {"line", "cl", "te", "hdr"}
<1>1. Len(s.parts) \in Nat
  BY PartTypes, Zenon
<1>2. i + 1 \in 1 .. Len(s.parts) /\ Follows(s, i) /\ Frames(s, i + 1)
  BY NotLast, Zenon
<1>3. \/ FieldAt(s, s.parts[i + 1], Behind(s, i))
      \/ BodyAt(s, s.parts[i + 1], Behind(s, i), s.framing[i])
  BY <1>2 DEF Follows, Starts
<1>4. Behind(s, i) = s.parts[i].to + 2
  BY <1>1 DEF Behind
<1>5. /\ CrLfAt(s, s.parts[i].to) /\ s.parts[i].to = s.parts[i].from + 1
      /\ Kind(s, s.parts[i].from) \in {"line", "cl", "te", "hdr"}
  <2> DEFINE j == i - 1
  <2>1. j \in 0 .. (Len(s.parts) - 1) /\ j + 1 = i
    BY <1>1
  <2> HIDE DEF j
  <2>2. Follows(s, j)
    BY <2>1, Zenon DEF IsStream
  <2>3. LineAt(s, s.parts[i], Behind(s, j)) \/ FieldAt(s, s.parts[i], Behind(s, j))
    <3> DEFINE f == s.parts[i]
    <3>1. f.ev \notin {"body", "reject", "end"}
      BY Zenon
    <3>2. \/ LineAt(s, f, Behind(s, j))
          \/ FieldAt(s, f, Behind(s, j)) \/ BodyAt(s, f, Behind(s, j), s.framing[j])
          \/ ChunkAt(s, f, Behind(s, j), s.parts[j].sz)
          \/ f = [ev |-> "end", from |-> Behind(s, j), to |-> Behind(s, j), sz |-> s.parts[j].sz]
      BY <2>1, <2>2, Zenon DEF Follows
    <3> HIDE DEF f
    <3>3. ASSUME NEW x, NEW n PROVE ~ ChunkAt(s, f, x, n)
      BY <3>1 DEF ChunkAt
    <3>4. ~ BodyAt(s, f, Behind(s, j), s.framing[j])
      BY <3>1, <3>3 DEF BodyAt
    <3> QED BY <3>1, <3>2, <3>3, <3>4 DEF f
  <2> QED BY <2>3 DEF LineAt, FieldAt, TextAt
<1>6. s.parts[i].from \in Nat
  BY PartTypes, Zenon
<1> QED BY <1>2, <1>3, <1>4, <1>5, <1>6, Zenon

\* A chunk is followed by the next one, the empty chunk by the end of the message.
LEMMA AfterChunk ==
    ASSUME NEW s, IsStream(s), NEW i \in 1 .. Len(s.parts),
           s.parts[i].ev = "body", s.framing[i].chunked
    PROVE  /\ i + 1 \in 1 .. Len(s.parts) /\ Behind(s, i) = s.parts[i].to + 2
           /\ s.parts[i + 1].ev = "body" => s.framing[i + 1].chunked
           /\ ~ LastChunk(s, i) =>
                 ChunkAt(s, s.parts[i + 1], s.parts[i].to + 2, s.parts[i].sz)
           /\ LastChunk(s, i) =>
                 s.parts[i + 1] = [ev |-> "end", from |-> s.parts[i].to + 2,
                                   to |-> s.parts[i].to + 2, sz |-> s.parts[i].sz]
<1>1. Len(s.parts) \in Nat
  BY PartTypes, Zenon
<1>2. i + 1 \in 1 .. Len(s.parts) /\ Follows(s, i) /\ Frames(s, i + 1)
  BY NotLast, Zenon
<1>3. Behind(s, i) = s.parts[i].to + 2
  BY <1>1 DEF Behind
<1>4. s.parts[i + 1].ev = "body" => s.framing[i + 1].chunked
  BY <1>1, <1>2 DEF Frames
<1> QED BY <1>2, <1>3, <1>4 DEF Follows, Starts

\* A body of known length is followed by the end of the message.
LEMMA AfterBody ==
    ASSUME NEW s, IsStream(s), NEW i \in 1 .. Len(s.parts),
           s.parts[i].ev = "body", ~ s.framing[i].chunked
    PROVE  /\ i + 1 \in 1 .. Len(s.parts) /\ Behind(s, i) = s.parts[i].to
           /\ s.parts[i + 1] = [ev |-> "end", from |-> s.parts[i].to,
                                to |-> s.parts[i].to, sz |-> s.parts[i].sz]
<1>1. Len(s.parts) \in Nat /\ s.parts[i].to \in Int
  BY PartTypes, Zenon
<1>2. i + 1 \in 1 .. Len(s.parts) /\ Follows(s, i)
  BY NotLast, Zenon
<1>3. Behind(s, i) = s.parts[i].to
  BY <1>1 DEF Behind
<1> QED BY <1>2, <1>3 DEF Follows, Starts
-----------------------------------------------------------------------------
(* The streams of HttpStream.                                              *)

\* The wire carries the stream, as far as the peer sends it.
Sent ==
    /\ stream \in Streams
    /\ Len(wire) <= Len(stream.bytes)
    /\ \A i \in 1 .. Len(wire) : wire[i] = stream.bytes[i]

\* The context says what the header fields so far do.
FramedAs(c, g) ==
    /\ c.flags = (IF g.chunked THEN 1 ELSE 0) /\ c.bodysz = g.len
    /\ g.chunked => c.chunk_parser_state = "SIZE" /\ c.bodysz = 0

\* After part k, process_body() with context c and the stream at offset p is in
\* front of a chunk size, or in the body that is the next part.
BodyPlace(c, p, k) ==
    LET f == stream.parts[k + 1]
        g == stream.framing[k + 1]
        Inside == /\ f.ev = "body" /\ base + c.chunk_start = f.from
                  /\ f.from <= base + p /\ c.bodysz = f.sz
    IN  /\ k \in 1 .. (Len(stream.parts) - 1)
        /\ c.flags = 1 =>
              /\ c.bodysz >= 0 /\ c.chunk_parser_state \in {"SIZE", "DATA"}
              /\ f.ev = "body" => g.chunked
              /\ c.chunk_parser_state = "SIZE" =>
                    ChunkAt(stream, f, base + c.chunk_start, c.bodysz)
              /\ c.chunk_parser_state = "DATA" =>
                    /\ Inside /\ base + p <= f.to
                    /\ c.chunk_end = p /\ c.chunk_size = f.to - f.from
        /\ c.flags = 0 =>
              /\ ~ g.chunked /\ Inside /\ p <= Eod
              /\ IF c.bodysz >= 0 THEN base + p <= f.to ELSE base + p = f.from
              /\ c.body_end = p /\ c.chunk_start = c.body_start /\ c.bodysz = f.to - f.from

InHeader(k) ==
    /\ k > 0 /\ stream.parts[k].ev \in {"line", "header"}
    /\ FramedAs(ctx, stream.framing[k])

\* Where the parser is in the stream after k callbacks.  At a blank line it has not
\* moved on, or the rest of the line never comes.  Behind a message without a length
\* it stands at the last byte.
Place(k) ==
    /\ ctx.parser_state \in {"START", "LINE"} =>
          /\ Starts(stream, k) \/ (Strays(stream, k) /\ stream.parts[k].sz >= -1)
          /\ ctx.flags = 0 /\ ctx.bodysz = -1
    /\ ctx.parser_state = "START" => base + spos = Behind(stream, k)
    /\ ctx.parser_state = "LINE" => base + ctx.first_line = Behind(stream, k)
    /\ ctx.parser_state = "HEADER_IN" => InHeader(k) /\ base + spos = Behind(stream, k)
    /\ ctx.parser_state = "HEADER_OUT" =>
          /\ InHeader(k) /\ base + ctx.header_name = Behind(stream, k)
          /\ CrLfAt(stream, Behind(stream, k)) =>
                spos = ctx.header_name \/ (rcvd = Len(wire) /\ rcvd < Behind(stream, k) + 2)
    /\ ctx.parser_state = "BODY" => BodyPlace(ctx, spos, k)

\* A message ended with callback k.
Ended(k) ==
    /\ k > 0 /\ base + spos = Behind(stream, k)
    /\ \/ Starts(stream, k)
       \/ Strays(stream, k) /\ ctx.flags = 0 /\ ctx.bodysz = stream.parts[k].sz

Made(evs) ==
    /\ Len(evs) <= Len(stream.parts)
    /\ \A i \in 1 .. Len(evs) : evs[i] = stream.parts[i]

\* What every state of the parser and its stream satisfies.
StreamInv ==
    /\ Sent
    /\ ~ SplitsBlankLine(0)
    /\ Made(events)
    /\ pc # "ret" => Place(Len(events))
    /\ res = "ok" => Ended(Len(events))
    /\ res = "parse_error" => /\ Len(events) + 1 = Len(stream.parts)
                              /\ stream.parts[Len(events) + 1].ev = "reject"

\* A byte in the buffer is the byte of the stream.
LEMMA AtStream ==
    ASSUME TypeOK, Sent, IsStream(stream), NEW off \in Int, base + off >= 0, off < Eod
    PROVE  /\ At(off) = stream.bytes[base + off + 1] /\ At(off).k = Kind(stream, base + off)
           /\ base + off < Len(stream.bytes)
<1>1. base + off + 1 \in 1 .. Len(wire) /\ Len(wire) \in Nat /\ base + off \in Int
  BY DEF TypeOK, Eod
<1>2. Len(stream.bytes) \in Nat
  BY PartTypes, Zenon
<1> QED BY <1>1, <1>2 DEF At, Sent, Kind

\* findcrlf() finds the first CR LF of the stream.
LEMMA FirstIs ==
    ASSUME TypeOK, Sent, IsStream(stream), NEW from \in Int, NEW x \in Int, NEW e,
           base + from >= 0, from <= x, FirstCrlf(from, e), CrLfAt(stream, base + x),
           \A i \in from .. (x - 1) : Kind(stream, base + i) # "cr"
    PROVE  e = x
<1>1. e \in Int /\ from <= e /\ e <= Eod - 2 /\ base \in Nat /\ Eod \in Int
  BY DEF FirstCrlf, TypeOK, Eod
<1>2. ASSUME e < x PROVE FALSE
  <2>1. e \in from .. (x - 1) /\ base + e >= 0 /\ e < Eod
    BY <1>1, <1>2
  <2>2. At(e).k = Kind(stream, base + e)
    BY <1>1, <2>1, AtStream, Zenon
  <2> QED BY <2>1, <2>2, Zenon DEF FirstCrlf, IsCrlf
<1>3. ASSUME x < e PROVE FALSE
  <2>1. /\ x \in from .. (e - 1) /\ base + x >= 0 /\ x < Eod
        /\ x + 1 \in Int /\ base + (x + 1) >= 0 /\ x + 1 < Eod /\ base + (x + 1) = base + x + 1
    BY <1>1, <1>3
  <2>2. At(x).k = Kind(stream, base + x) /\ At(x + 1).k = Kind(stream, base + x + 1)
    BY <1>1, <2>1, AtStream, Zenon
  <2> QED BY <2>1, <2>2, Zenon DEF FirstCrlf, IsCrlf, CrLfAt
<1> QED BY <1>1, <1>2, <1>3

\* What findcrlf() finds is a CR LF of the stream.
LEMMA FoundIs ==
    ASSUME TypeOK, Sent, IsStream(stream), NEW from \in Int, NEW e,
           base + from >= 0, FirstCrlf(from, e)
    PROVE  e \in Int /\ from <= e /\ e <= Eod - 2 /\ CrLfAt(stream, base + e)
           /\ base + e + 2 <= Len(stream.bytes)
<1>1. e \in Int /\ from <= e /\ e <= Eod - 2 /\ base \in Nat /\ Eod \in Int
      /\ e + 1 \in Int /\ base + e >= 0 /\ base + (e + 1) >= 0 /\ e < Eod /\ e + 1 < Eod
  BY DEF FirstCrlf, TypeOK, Eod
<1>2. At(e).k = Kind(stream, base + e) /\ At(e + 1).k = Kind(stream, base + (e + 1))
      /\ base + (e + 1) < Len(stream.bytes)
  BY <1>1, AtStream, Zenon
<1>3. base + (e + 1) = base + e + 1 /\ Len(stream.bytes) \in Nat
  BY <1>1, PartTypes
<1> QED BY <1>1, <1>2, <1>3 DEF FirstCrlf, IsCrlf, CrLfAt

\* A start line or a field is all that precedes its CR LF.
LEMMA TextEnds ==
    ASSUME TypeOK, Sent, IsStream(stream), NEW from \in Int, NEW e, base + from >= 0,
           FirstCrlf(from, e), Kind(stream, base + from) # "cr",
           CrLfAt(stream, base + from + 1)
    PROVE  e = from + 1 /\ At(from) = stream.bytes[base + from + 1]
           /\ At(from).k = Kind(stream, base + from)
<1>1. from + 1 \in Int /\ base + (from + 1) = base + from + 1 /\ from <= from + 1
      /\ from .. ((from + 1) - 1) = {from} /\ base \in Nat
  BY DEF TypeOK
<1>2. e = from + 1
  BY <1>1, FirstIs, Zenon
<1>3. from < Eod
  BY <1>1, <1>2 DEF FirstCrlf, Eod, TypeOK
<1> QED BY <1>2, <1>3, AtStream, Zenon

\* The stream and what has arrived of it do not change.
LEMMA SentSame ==
    ASSUME Sent, ~ SplitsBlankLine(0), UNCHANGED <<wire, rcvd, stream>>
    PROVE  Sent' /\ ~ SplitsBlankLine(0)'
<1> QED BY Zenon DEF Sent, SplitsBlankLine

\* The callback that the next part calls for.
LEMMA MadeOne ==
    ASSUME NEW evs \in Seq(Event), NEW e \in Event, Made(evs), IsStream(stream),
           Len(evs) + 1 \in 1 .. Len(stream.parts), e = stream.parts[Len(evs) + 1]
    PROVE  /\ Append(evs, e) \in Seq(Event) /\ Made(Append(evs, e))
           /\ Len(Append(evs, e)) = Len(evs) + 1
<1> DEFINE s == Append(evs, e)
<1>1. /\ s \in Seq(Event) /\ Len(s) = Len(evs) + 1 /\ Len(evs) \in Nat
      /\ s[Len(evs) + 1] = e
      /\ \A i \in 1 .. Len(evs) : s[i] = evs[i]
  OBVIOUS
<1> HIDE DEF s
<1>2. Len(s) <= Len(stream.parts)
  BY <1>1
<1>3. ASSUME NEW i \in 1 .. Len(s) PROVE s[i] = stream.parts[i]
  <2>1. i = Len(evs) + 1 \/ i \in 1 .. Len(evs)
    BY <1>1
  <2> QED BY <1>1, <2>1, Zenon DEF Made
<1> QED BY <1>1, <1>2, <1>3, Zenon DEF Made, s

\* A record is its fields.
LEMMA PartIs ==
    ASSUME NEW f \in Part
    PROVE  f = [ev |-> f.ev, from |-> f.from, to |-> f.to, sz |-> f.sz]
<1> QED BY Zenon DEF Part

\* The size in front of a chunk is what strtol() reads, and only that; it reads
\* none where an extension follows.
LEMMA SizesAre ==
    ASSUME TypeOK, Sent, IsStream(stream), NEW from \in Int, NEW e, base + from >= 0,
           FirstCrlf(from, e), NEW f, NEW sz, ChunkAt(stream, f, base + from, sz)
    PROVE  \/ /\ e = from + 1 /\ f.ev = "body"
              /\ Sizes(from, e) = {stream.bytes[base + from + 1].n}
              /\ stream.bytes[base + from + 1].n >= 0
           \/ e = from + 2 /\ f.ev = "reject" /\ Sizes(from, e) = {}
<1>0. base \in Nat /\ Kind(stream, base + from) = "size"
  BY DEF TypeOK, ChunkAt
<1>1. CASE CrLfAt(stream, base + from + 1) /\ f.ev = "body"
           /\ stream.bytes[base + from + 1].n >= 0
  <2>1. e = from + 1 /\ At(from) = stream.bytes[base + from + 1] /\ At(from).k = "size"
    BY <1>0, <1>1, TextEnds, Zenon
  <2>2. from .. (e - 1) = {from} /\ from .. (from - 1) = {} /\ from # e
    BY <2>1
  <2>3. \A n : SizeParses(from, e, n) <=> n = At(from).n
    BY <2>1, <2>2, Zenon DEF SizeParses
  <2>4. Sizes(from, e) = {At(from).n}
    BY <1>1, <2>1, <2>2, <2>3 DEF Sizes
  <2> QED BY <1>1, <2>1, <2>4, Zenon
<1>2. CASE /\ Kind(stream, base + from + 1) = "data" /\ CrLfAt(stream, base + from + 2)
           /\ f.ev = "reject"
  <2>1. /\ from + 2 \in Int /\ base + (from + 2) = base + from + 2 /\ from <= from + 2
        /\ from .. ((from + 2) - 1) = {from, from + 1} /\ from + 1 \in Int
        /\ base + (from + 1) = base + from + 1
    BY <1>0
  <2>2. e = from + 2
    BY <1>0, <1>2, <2>1, FirstIs, Zenon
  <2>3. from + 1 < Eod /\ base + (from + 1) >= 0
    BY <1>0, <2>2 DEF FirstCrlf, Eod, TypeOK
  <2>4. At(from + 1).k = "data"
    BY <1>2, <2>1, <2>3, AtStream, Zenon
  <2>5. \A j \in from .. (e - 1) : j + 1 = e => j = from + 1
    BY <2>2
  <2>6. \A n : ~ SizeParses(from, e, n)
    BY <2>2, <2>4, <2>5 DEF SizeParses
  <2> QED BY <1>2, <2>2, <2>6, Zenon DEF Sizes
<1> QED BY <1>1, <1>2 DEF ChunkAt

\* process_body() makes the callbacks that the stream calls for.
LEMMA BodyStream ==
    ASSUME TypeOK, Sent, ~ SplitsBlankLine(0), IsStream(stream), Made(events), res = "none",
           NEW c \in CtxType, NEW p \in Int, c.parser_state = "BODY",
           BodyAgrees(c, p), BodyPlace(c, p, Len(events)),
           process_body(c, p), UNCHANGED stream
    PROVE  StreamInv'
<1> DEFINE k == Len(events)
           f == stream.parts[k + 1]
           g == stream.framing[k + 1]
<1>a. /\ wire' = wire /\ rcvd' = rcvd /\ Sent' /\ ~ SplitsBlankLine(0)'
      /\ base + c.chunk_start >= 1
  BY SentSame, Zenon DEF process_body, BodyAgrees
<1>b. rcvd \in Int /\ base \in Int /\ Eod \in Int /\ events \in Seq(Event) /\ k \in Nat
  BY DEF TypeOK, Eod
<1>c. /\ c.chunk_start \in Int /\ c.chunk_end \in Int /\ c.body_start \in Int
      /\ c.body_end \in Int /\ c.bodysz \in Int /\ c.chunk_size \in Nat
  BY DEF CtxType
<1>e. base + c.chunk_start >= 0
  BY <1>a, <1>b, <1>c
<1>d. k \in 1 .. (Len(stream.parts) - 1) /\ Len(stream.parts) \in Nat
  BY PartTypes, Zenon DEF BodyPlace
<1>1. /\ k + 1 \in 1 .. Len(stream.parts) /\ f \in Part /\ g \in Framing
      /\ f.from \in Int /\ f.to \in Int /\ f.sz \in Int
  <2> HIDE DEF k
  <2>1. k + 1 \in 1 .. Len(stream.parts)
    BY <1>b, <1>d
  <2> QED BY <2>1, PartTypes, Zenon
<1> HIDE DEF k, f, g
<1>2. ASSUME events' = events, base' = base, pc' = "loop", res' = res,
             ctx'.parser_state = "BODY", BodyPlace(ctx, spos, Len(events))'
      PROVE  StreamInv'
  BY <1>a, <1>2, Zenon DEF StreamInv, Made, Place
<1>3. CASE ChunkSizeMore(c, p)
  <2>1. BodyPlace(ctx, spos, Len(events))'
    BY <1>3, Zenon DEF ChunkSizeMore, BodyPlace, k, f, g
  <2> QED BY <1>2, <1>3, <2>1, Zenon DEF ChunkSizeMore
<1>4. CASE ChunkSizeBad(c, p) \/ ChunkSize(c, p)
  <2>1. c.flags = 1 /\ c.bodysz >= 0 /\ ChunkAt(stream, f, base + c.chunk_start, c.bodysz)
        /\ (f.ev = "body" => g.chunked) /\ k \in 1 .. (Len(stream.parts) - 1)
    BY <1>4, Zenon DEF ChunkSizeBad, ChunkSize, BodyPlace, k, f, g
  <2>2. CASE ChunkSizeBad(c, p)
    <3>1. PICK e : FirstCrlf(c.chunk_start, e) /\ Sizes(c.chunk_start, e) = {}
      BY <2>2, Zenon DEF ChunkSizeBad
    <3>a. \/ Sizes(c.chunk_start, e) = {stream.bytes[base + c.chunk_start + 1].n}
          \/ f.ev = "reject"
      BY <1>c, <1>e, <2>1, <3>1, SizesAre, Zenon
    <3>2. f.ev = "reject"
      BY <3>1, <3>a, Zenon
    <3>3. k + 1 = Len(stream.parts)
      BY <1>1, <3>2, RejectIsLast, Zenon DEF f
    <3> QED BY <1>a, <2>2, <3>2, <3>3, Zenon DEF ChunkSizeBad, StreamInv, Made, k, f
  <2>3. CASE ChunkSize(c, p)
    <3>1. PICK e, n :
            /\ n \in Sizes(c.chunk_start, e) /\ FirstCrlf(c.chunk_start, e) /\ spos' = e + 2
            /\ ctx' = [c EXCEPT !.chunk_size = n, !.bodysz = @ + n,
                                !.chunk_start = e + 2, !.chunk_end = e + 2,
                                !.chunk_parser_state = "DATA"]
      BY <2>3, Zenon DEF ChunkSize
    <3>2. e = c.chunk_start + 1 /\ f.ev = "body" /\ n = stream.bytes[base + c.chunk_start + 1].n
          /\ n >= 0
      <4>1. \/ /\ e = c.chunk_start + 1 /\ f.ev = "body"
               /\ stream.bytes[base + c.chunk_start + 1].n >= 0
               /\ Sizes(c.chunk_start, e) = {stream.bytes[base + c.chunk_start + 1].n}
            \/ Sizes(c.chunk_start, e) = {}
        BY <1>c, <1>e, <2>1, <3>1, SizesAre, Zenon
      <4> QED BY <3>1, <4>1, Zenon
    <3>3. /\ f.from = base + c.chunk_start + 3 /\ f.to = base + c.chunk_start + 3 + n
          /\ f.sz = c.bodysz + n
      BY <2>1, <3>2 DEF ChunkAt
    <3>4. /\ ctx'.flags = 1 /\ ctx'.chunk_parser_state = "DATA" /\ ctx'.chunk_size = n
          /\ ctx'.chunk_start = e + 2 /\ ctx'.chunk_end = e + 2 /\ ctx'.bodysz = c.bodysz + n
          /\ ctx'.parser_state = "BODY"
      BY <2>1, <3>1, Zenon DEF CtxType
    <3>5. n \in Nat
      <4>1. stream.bytes[base + c.chunk_start + 1] \in Byte
        <5>1. base + c.chunk_start + 3 <= Len(stream.bytes) /\ Len(stream.bytes) \in Nat
          BY <1>b, <1>c, <2>1, <3>2, PartTypes, SMTT(60) DEF ChunkAt, CrLfAt
        <5>2. base + c.chunk_start + 1 \in 1 .. Len(stream.bytes)
          BY <1>b, <1>c, <1>a, <5>1, SMTT(60)
        <5> QED BY <5>2 DEF IsStream
      <4>2. n \in Int
        BY <3>2, <4>1, Zenon DEF Byte
      <4> QED BY <3>2, <4>2
    <3>6. base' = base /\ events' = events /\ res' = res /\ pc' = "loop"
      BY <2>3, Zenon DEF ChunkSize
    <3>7. BodyPlace(ctx, spos, Len(events))'
      <4>0. e = c.chunk_start + 1
        BY <3>2, Zenon
      <4>a. e \in Int
        BY <1>c, <4>0
      <4>b. \A i, j \in Int : i + j + 3 = i + ((j + 1) + 2)
        OBVIOUS
      <4>1. f.from = base + (e + 2) /\ f.to = f.from + n /\ e \in Int
        BY <1>b, <1>c, <3>3, <3>5, <4>0, <4>a, <4>b, Zenon
      <4>2. /\ f.from <= base + (e + 2) /\ base + (e + 2) <= f.to
            /\ n = f.to - f.from
        BY <1>1, <3>5, <4>1
      <4>3. c.bodysz + n >= 0
        BY <1>c, <2>1, <3>5
      <4> QED BY <1>b, <1>c, <2>1, <3>1, <3>2, <3>3, <3>4, <3>6, <4>1, <4>2, <4>3, Zenon DEF BodyPlace, k, f, g
    <3> QED BY <1>2, <3>4, <3>6, <3>7, Zenon
  <2> QED BY <1>4, <2>2, <2>3, Zenon
<1>5. CASE ChunkDataMore(c, p)
  <2> DEFINE needed == c.chunk_size - (c.chunk_end - c.chunk_start)
             incr == Smaller(needed, Eod - p)
  <2>1. /\ c.flags = 1 /\ c.chunk_parser_state = "DATA" /\ needed > 0
        /\ ctx' = [c EXCEPT !.chunk_end = @ + incr] /\ spos' = p + incr
        /\ base' = base /\ events' = events /\ res' = res /\ pc' = "loop"
    BY <1>5, Zenon DEF ChunkDataMore
  <2>2. /\ f.ev = "body" /\ base + c.chunk_start = f.from /\ f.from <= base + p
        /\ base + p <= f.to /\ c.bodysz = f.sz /\ c.chunk_end = p
        /\ c.chunk_size = f.to - f.from /\ g.chunked /\ p <= Eod /\ c.bodysz >= 0
        /\ k \in 1 .. (Len(stream.parts) - 1)
    BY <2>1, Zenon DEF BodyPlace, k, f, g, BodyAgrees
  <2>a. needed \in Int /\ needed = f.to - (base + p)
    BY <1>b, <1>c, <1>1, <2>2, SMTT(30)
  <2> HIDE DEF needed
  <2>b. p <= Eod /\ needed > 0
    BY <2>1, <2>2, Zenon
  <2>3. incr \in Int /\ 0 <= incr /\ incr <= needed
    BY <1>b, <2>a, <2>b, SMTT(30) DEF Smaller
  <2> HIDE DEF incr
  <2>c. f.from <= base + p /\ f.from \in Int /\ f.to \in Int /\ base \in Int
    BY <1>b, <1>1, <2>2
  <2>4. f.from <= base + (p + incr) /\ base + (p + incr) <= f.to
    BY <2>a, <2>c, <2>3, SMTT(30)
  <2>5. /\ ctx'.flags = 1 /\ ctx'.chunk_parser_state = "DATA" /\ ctx'.chunk_end = p + incr
        /\ ctx'.chunk_size = c.chunk_size /\ ctx'.chunk_start = c.chunk_start
        /\ ctx'.bodysz = c.bodysz /\ ctx'.parser_state = "BODY"
    BY <2>1, <2>2, Zenon DEF CtxType
  <2>6. BodyPlace(ctx, spos, Len(events))'
    BY <1>b, <1>c, <2>1, <2>2, <2>4, <2>5, Zenon DEF BodyPlace, k, f, g
  <2> QED BY <1>2, <2>1, <2>5, <2>6, Zenon
\* The callback on a body that is complete.
<1>6. ASSUME f.ev = "body", NEW x \in Int, base + x = f.to, base + c.chunk_start = f.from,
             c.bodysz = f.sz, NEW cb, cb = Log("body", c.chunk_start, x, c.bodysz)
      PROVE  cb = Append(events, f) /\ cb \in Seq(Event) /\ Made(cb) /\ Len(cb) = k + 1
  <2>1. f = [ev |-> "body", from |-> base + c.chunk_start, to |-> base + x, sz |-> c.bodysz]
    BY <1>1, <1>6, PartIs, Zenon
  <2>2. f \in Event
    BY <1>1, <1>6, <2>1 DEF Event
  <2>3. cb = Append(events, f)
    BY <1>6, <2>1, Zenon DEF Log
  <2> QED BY <1>b, <1>1, <2>2, <2>3, MadeOne, Zenon DEF f, k
\* The end of the message behind it.
<1>7. ASSUME NEW cb \in Seq(Event), Made(cb), Len(cb) = k + 1,
             NEW x \in Int, k + 2 \in 1 .. Len(stream.parts),
             stream.parts[k + 2] = [ev |-> "end", from |-> x, to |-> x, sz |-> f.sz],
             events' = Append(cb, [ev |-> "end", from |-> x, to |-> x, sz |-> f.sz]),
             f.sz >= 0 \/ (ctx'.flags = 0 /\ ctx'.bodysz = f.sz),
             base' + spos' = x, pc' = "ret", res' = "ok"
      PROVE  StreamInv'
  <2> DEFINE last == [ev |-> "end", from |-> x, to |-> x, sz |-> f.sz]
  <2>1. last \in Event /\ last.ev = "end" /\ last.to = x /\ last.sz = f.sz
    BY <1>1, Zenon DEF Event
  <2>2. Len(cb) + 1 = k + 2
    BY <1>b, <1>7
  <2> HIDE DEF last
  <2>3. events' \in Seq(Event) /\ Made(events') /\ Len(events') = k + 2
    BY <1>7, <2>1, <2>2, MadeOne, Zenon DEF last
  <2>4. Made(events)'
    BY <2>3, Zenon DEF Made
  <2>5. /\ Starts(stream, k + 2) \/ (Strays(stream, k + 2) /\ f.sz < 0)
        /\ Behind(stream, k + 2) = x /\ stream.parts[k + 2].sz = f.sz
    BY <1>b, <1>1, <1>7, <2>1 DEF Starts, Strays, Behind, last
  <2>6. Ended(Len(events))'
    BY <1>b, <1>1, <1>7, <2>3, <2>5 DEF Ended
  <2> QED BY <1>a, <1>7, <2>4, <2>6, Zenon DEF StreamInv
<1>8. CASE ChunkDone(c, p)
  <2>1. /\ c.flags = 1 /\ f.ev = "body" /\ base + c.chunk_start = f.from /\ f.from <= base + p
        /\ base + p <= f.to /\ c.bodysz = f.sz /\ c.chunk_end = p
        /\ c.chunk_size = f.to - f.from /\ g.chunked /\ c.bodysz >= 0
    BY <1>8, Zenon DEF ChunkDone, BodyPlace, k, f, g
  <2>2. p - c.chunk_start >= c.chunk_size
    BY <1>8, <2>1, Zenon DEF ChunkDone
  <2>3. base + p = f.to
    <3>1. PICK a \in Int, b \in Int : a = f.from /\ b = f.to
      BY <1>1
    <3>2. base + c.chunk_start = a /\ base + p <= b /\ p - c.chunk_start >= b - a
      BY <2>1, <2>2, <3>1, Zenon
    <3>3. base + p = b
      BY <1>b, <1>c, <3>2
    <3> QED BY <3>1, <3>3, Zenon
  <2> DEFINE cb == Log("body", c.chunk_start, c.chunk_end, c.bodysz)
  <2>4. cb = Append(events, f) /\ cb \in Seq(Event) /\ Made(cb) /\ Len(cb) = k + 1
    BY <1>6, <2>1, <2>3, Zenon
  <2> HIDE DEF cb
  <2>5. CASE events' = cb /\ pc' = "ret" /\ res' = "cb_error"
    BY <1>a, <2>4, <2>5, Zenon DEF StreamInv, Made
  <2>6. CASE \E r \in Recycled(p + 2) :
               /\ base' = base + r
               /\ spos' = p + 2 - r
               /\ ctx' = recycle_stream_buffer(
                        [c EXCEPT !.chunk_parser_state = "SIZE",
                                  !.chunk_start = p + 2, !.chunk_end = p + 2], r)
               /\ \/ c.chunk_size > 0 /\ events' = cb /\ pc' = "loop" /\ res' = res
                  \/ /\ c.chunk_size <= 0
                     /\ events' = Append(cb, [ev |-> "end", from |-> base + p + 2,
                                              to |-> base + p + 2, sz |-> c.bodysz])
                     /\ pc' = "ret" /\ res' = "ok"
    <3>1. PICK r \in Recycled(p + 2) :
               /\ base' = base + r
               /\ spos' = p + 2 - r
               /\ ctx' = recycle_stream_buffer(
                        [c EXCEPT !.chunk_parser_state = "SIZE",
                                  !.chunk_start = p + 2, !.chunk_end = p + 2], r)
      BY <2>6, Zenon
    <3>2. r \in Int
      BY DEF Recycled
    <3>3. PICK x \in Int : x = f.to + 2
      BY <1>1
    <3>4. base + p + 2 = x /\ base' + spos' = x /\ base' + (p + 2 - r) = x
      BY <1>b, <2>3, <3>1, <3>2, <3>3
    <3>5. /\ ctx'.flags = 1 /\ ctx'.parser_state = "BODY" /\ ctx'.bodysz = c.bodysz
          /\ ctx'.chunk_parser_state = "SIZE" /\ ctx'.chunk_start = p + 2 - r
      <4>1. PICK y \in Int : y = p + 2
        OBVIOUS
      <4> DEFINE d == [c EXCEPT !.chunk_parser_state = "SIZE",
                                !.chunk_start = y, !.chunk_end = y]
      <4>2. d \in CtxType /\ d.chunk_start = y /\ d.parser_state = "BODY" /\ d.flags = 1
            /\ d.chunk_parser_state = "SIZE" /\ d.bodysz = c.bodysz
        BY <2>1, Zenon DEF CtxType
      <4>3. ctx' = recycle_stream_buffer(d, r)
        BY <3>1, <4>1, Zenon
      <4> HIDE DEF d
      <4>4. /\ ctx'.parser_state = d.parser_state /\ ctx'.flags = d.flags
            /\ ctx'.chunk_parser_state = d.chunk_parser_state
            /\ ctx'.chunk_start = d.chunk_start - r /\ ctx'.bodysz = d.bodysz
        BY <3>2, <4>2, <4>3, RecycleType, Zenon
      <4> QED BY <3>2, <4>1, <4>2, <4>4
    <3>6. (k + 1) + 1 = k + 2 /\ k + 1 \in 1 .. Len(stream.parts)
      BY <1>b, <1>1
    <3>7. /\ k + 2 \in 1 .. Len(stream.parts)
          /\ stream.parts[k + 2].ev = "body" => stream.framing[k + 2].chunked
          /\ ~ LastChunk(stream, k + 1) => ChunkAt(stream, stream.parts[k + 2], x, f.sz)
          /\ LastChunk(stream, k + 1) =>
                stream.parts[k + 2] = [ev |-> "end", from |-> x, to |-> x, sz |-> f.sz]
      <4> DEFINE i == k + 1
      <4>1. stream.parts[i].ev = "body" /\ stream.framing[i].chunked
        BY <2>1, Zenon DEF f, g
      <4>2. i \in 1 .. Len(stream.parts) /\ i + 1 = k + 2
        BY <3>6, Zenon
      <4> HIDE DEF i
      <4>3. /\ i + 1 \in 1 .. Len(stream.parts)
            /\ stream.parts[i + 1].ev = "body" => stream.framing[i + 1].chunked
            /\ ~ LastChunk(stream, i) => ChunkAt(stream, stream.parts[i + 1],
                                                 stream.parts[i].to + 2, stream.parts[i].sz)
            /\ LastChunk(stream, i) =>
                  stream.parts[i + 1] = [ev |-> "end", from |-> stream.parts[i].to + 2,
                                         to |-> stream.parts[i].to + 2, sz |-> stream.parts[i].sz]
        BY <4>1, <4>2, AfterChunk, SMTT(60)
      <4> QED BY <3>3, <4>2, <4>3, Zenon DEF i, f
    <3>8. CASE c.chunk_size > 0 /\ events' = cb /\ pc' = "loop" /\ res' = res
      <4>1. ~ LastChunk(stream, k + 1)
        BY <1>1, <2>1, <3>8 DEF LastChunk, f
      <4>2. /\ Len(events') = k + 1 /\ k + 1 \in 1 .. (Len(stream.parts) - 1)
        BY <1>b, <1>d, <2>4, <3>7, <3>8
      <4>3. ChunkAt(stream, stream.parts[k + 2], base' + ctx'.chunk_start, ctx'.bodysz)
        BY <2>1, <3>4, <3>5, <3>7, <4>1, Zenon
      <4>4. BodyPlace(ctx, spos, Len(events))'
        <5>1. ctx'.bodysz >= 0
          BY <2>1, <3>5, Zenon
        <5> QED BY <3>5, <3>6, <3>7, <4>2, <4>3, <5>1 DEF BodyPlace
      <4>5. Made(events)'
        BY <2>4, <3>8, Zenon DEF Made
      <4> QED BY <1>a, <3>5, <3>8, <4>4, <4>5, Zenon DEF StreamInv, Place
    <3>9. CASE /\ c.chunk_size <= 0
               /\ events' = Append(cb, [ev |-> "end", from |-> base + p + 2,
                                        to |-> base + p + 2, sz |-> c.bodysz])
               /\ pc' = "ret" /\ res' = "ok"
      <4>1. LastChunk(stream, k + 1)
        <5>1. PICK a \in Int, b \in Int : a = f.from /\ b = f.to
          BY <1>1
        <5>2. b - a <= 0 /\ b - a \in Nat
          BY <1>c, <2>1, <3>9, <5>1, Zenon
        <5>3. a = b
          BY <5>2
        <5> QED BY <5>1, <5>3, Zenon DEF LastChunk, f
      <4> QED BY <1>7, <2>1, <2>4, <3>4, <3>7, <3>9, <4>1, Zenon
    <3> QED BY <2>6, <3>8, <3>9, Zenon
  <2> QED BY <1>8, <2>5, <2>6, Zenon DEF ChunkDone, cb
<1>9. CASE BodyMore(c, p) \/ BodyDone(c, p)
  <2>1. /\ c.flags = 0 /\ f.ev = "body" /\ ~ g.chunked /\ base + c.chunk_start = f.from
        /\ f.from <= base + p /\ p <= Eod /\ c.bodysz = f.sz
        /\ IF c.bodysz >= 0 THEN base + p <= f.to ELSE base + p = f.from
        /\ c.body_end = p /\ c.chunk_start = c.body_start /\ c.bodysz = f.to - f.from
    BY <1>9, Zenon DEF BodyMore, BodyDone, BodyPlace, k, f, g
  <2> DEFINE incr == Smaller(Eod - p, c.bodysz - (c.body_end - c.body_start))
  <2>2. PICK a \in Int, b \in Int : a = f.from /\ b = f.to
    BY <1>1
  <2>3. base + c.chunk_start = a /\ c.bodysz = b - a
        /\ IF c.bodysz >= 0 THEN base + p <= b ELSE base + p = a
    BY <2>1, <2>2, Zenon
  <2>4. PICK x \in Int : x = p + incr
    BY <1>b, <1>c, SMTT(30) DEF Smaller
  <2>5. incr \in {Eod - p, c.bodysz - (p - c.chunk_start)}
        /\ incr <= Eod - p /\ incr <= c.bodysz - (p - c.chunk_start)
    BY <1>b, <1>c, <2>1, <2>3, SMTT(30) DEF Smaller
  <2> HIDE DEF incr
  <2>6. x <= Eod /\ base + x <= b
    BY <1>b, <1>c, <2>3, <2>4, <2>5, SMTT(30)
  <2>a. IF c.bodysz >= 0 THEN p <= x ELSE base + x = b
    BY <1>b, <1>c, <2>1, <2>3, <2>4, <2>5, SMTT(30)
  <2> DEFINE h == Grown(c, p)
  <2>7. h = [c EXCEPT !.body_end = x, !.chunk_end = x]
    BY <2>1, <2>4, Zenon DEF Grown, incr
  <2>8. /\ h.body_end = x /\ h.chunk_end = x /\ h.bodysz = c.bodysz /\ h.flags = 0
        /\ h.chunk_start = c.chunk_start /\ h.body_start = c.chunk_start
        /\ h.parser_state = "BODY" /\ h \in CtxType
    BY <2>1, <2>7, ZenonT(60) DEF CtxType
  <2> HIDE DEF h
  <2>9. p + (h.body_end - c.body_end) = x
    BY <2>1, <2>8
  <2>10. CASE BodyMore(c, p)
    <3>1. ctx' = h /\ spos' = x /\ pc' = "loop" /\ UNCHANGED <<base, res, events>>
      BY <2>9, <2>10, Zenon DEF BodyMore, h
    <3>a. x - c.chunk_start < c.bodysz
      BY <2>8, <2>10, Zenon DEF BodyMore, h
    <3>b. c.bodysz >= 0
      <4> SUFFICES ASSUME ~ (c.bodysz >= 0) PROVE FALSE
        BY Zenon
      <4>1. base + x = b
        BY <2>a, Zenon
      <4> QED BY <1>b, <1>c, <2>3, <3>a, <4>1
    <3>c. p <= x
      BY <2>a, <3>b, Zenon
    <3>2. f.from <= base + x /\ base + x <= f.to
      BY <1>b, <1>1, <2>1, <2>2, <2>6, <3>c
    <3>3. Eod' = Eod
      BY <1>a, <3>1, Zenon DEF Eod
    <3>4. BodyPlace(ctx, spos, Len(events))'
      BY <1>d, <2>1, <2>6, <2>8, <3>1, <3>2, <3>3, <3>b, Zenon DEF BodyPlace, k, f, g
    <3> QED BY <1>2, <2>8, <3>1, <3>4, Zenon
  <2>11. CASE BodyDone(c, p)
    <3>1. x - c.chunk_start >= c.bodysz
      BY <2>8, <2>11, Zenon DEF BodyDone, h
    <3>2. base + x = b
      BY <1>b, <1>c, <2>3, <2>6, <3>1
    <3> DEFINE cb == Log("body", h.chunk_start, h.chunk_end, h.bodysz)
    <3>3. cb = Append(events, f) /\ cb \in Seq(Event) /\ Made(cb) /\ Len(cb) = k + 1
      BY <1>6, <2>1, <2>2, <2>8, <3>2, Zenon
    <3> HIDE DEF cb
    <3>4. CASE events' = cb /\ pc' = "ret" /\ res' = "cb_error"
      BY <1>a, <3>3, <3>4, Zenon DEF StreamInv, Made
    <3>5. CASE \E r \in Recycled(h.chunk_start) :
                 /\ base' = base + r /\ spos' = x - r
                 /\ ctx' = recycle_stream_buffer(h, r)
                 /\ events' = Append(cb, [ev |-> "end", from |-> base + x,
                                          to |-> base + x, sz |-> h.bodysz])
                 /\ pc' = "ret" /\ res' = "ok"
      <4>1. PICK r \in Recycled(h.chunk_start) : /\ base' = base + r /\ spos' = x - r
                                                 /\ ctx' = recycle_stream_buffer(h, r)
        BY <3>5, Zenon
      <4>2. r \in Int
        BY DEF Recycled
      <4>3. base' + spos' = b
        BY <1>b, <3>2, <4>1, <4>2
      <4>5. k + 2 \in 1 .. Len(stream.parts)
            /\ stream.parts[k + 2] = [ev |-> "end", from |-> f.to, to |-> f.to, sz |-> f.sz]
        <5> DEFINE i == k + 1
        <5>1. stream.parts[i].ev = "body" /\ ~ stream.framing[i].chunked
          BY <2>1, Zenon DEF f, g
        <5>2. i \in 1 .. Len(stream.parts) /\ i + 1 = k + 2
          BY <1>b, <1>1
        <5> HIDE DEF i
        <5>3. /\ i + 1 \in 1 .. Len(stream.parts)
              /\ stream.parts[i + 1] = [ev |-> "end", from |-> stream.parts[i].to,
                                        to |-> stream.parts[i].to, sz |-> stream.parts[i].sz]
          BY <5>1, <5>2, AfterBody, Zenon
        <5> QED BY <5>2, <5>3, Zenon DEF i, f
      <4>6. ctx'.flags = 0 /\ ctx'.bodysz = f.sz
        BY <2>1, <2>8, <4>1, <4>2, RecycleType, Zenon
      <4> QED BY <1>7, <2>1, <2>2, <2>8, <3>2, <3>3, <3>5, <4>3, <4>5, <4>6, Zenon
    <3> QED BY <2>9, <2>11, <3>4, <3>5, Zenon DEF BodyDone, h, cb
  <2> QED BY <1>9, <2>10, <2>11, Zenon
<1> QED BY <1>3, <1>4, <1>5, <1>8, <1>9, Zenon DEF process_body

\* The callbacks made so far, the part they have reached, and its offset.
Count == Len(events)
Coming == stream.parts[Count + 1]
Here == Behind(stream, Count)

\* What the invariants say of the parser in front of a step.
LEMMA Now ==
    ASSUME ParserInv, StreamInv
    PROVE  /\ TypeOK /\ Sent /\ ~ SplitsBlankLine(0) /\ Made(events)
           /\ pc # "ret" => Place(Count) /\ Agrees
           /\ pc = "ret" <=> res # "none"
           /\ res = "ok" => Ended(Count)
  BY Zenon DEF ParserInv, StreamInv, Count

\* The stream is one that IsStream describes, and the callbacks are some of its parts.
LEMMA StreamIs ==
    ASSUME ParserInv, StreamInv
    PROVE  /\ IsStream(stream) /\ Len(stream.parts) \in Nat /\ Len(stream.bytes) \in Nat
           /\ Count \in 0 .. Len(stream.parts) /\ Here \in Int
<1>1. IsStream(stream)
  BY Now, StreamAssumption, Zenon DEF Sent
<1>2. Len(stream.parts) \in Nat /\ Len(stream.bytes) \in Nat
  BY <1>1, PartTypes, Zenon
<1>3. Count \in 0 .. Len(stream.parts)
  BY <1>2, Now DEF Made, TypeOK, Count
<1> QED BY <1>1, <1>2, <1>3, PartTypes, Zenon DEF Here

\* The types of the variables.
LEMMA Offsets ==
    ASSUME ParserInv, StreamInv
    PROVE  /\ rcvd \in Int /\ base \in Nat /\ spos \in Int /\ Eod \in Int /\ Eod = rcvd - base
           /\ events \in Seq(Event) /\ Count \in Nat /\ Len(wire) \in Nat /\ rcvd <= Len(wire)
           /\ Len(wire) <= Len(stream.bytes)
  BY Now DEF TypeOK, Eod, Sent, Count

\* The types of the context.
LEMMA CtxIs ==
    ASSUME ParserInv, StreamInv
    PROVE  ctx \in CtxType /\ ctx.first_line \in Int /\ ctx.header_name \in Int
  BY Now, Zenon DEF TypeOK, CtxType

\* Offsets into the stream and into the buffer.
LEMMA Ints ==
    ASSUME ParserInv, StreamInv
    PROVE  /\ Here \in Int /\ base \in Int /\ base >= 0 /\ rcvd \in Int
           /\ Eod \in Int /\ Eod = rcvd - base
  BY StreamIs, Offsets

\* Between reads the wire stays.
LEMMA SentKept ==
    ASSUME ParserInv, StreamInv, UNCHANGED stream, UNCHANGED <<wire, rcvd>>
    PROVE  Sent' /\ ~ SplitsBlankLine(0)'
  BY Now, SentSame, Zenon

\* The loop body of _http_parse_message() runs during a call.
LEMMA WhenReady ==
    ASSUME ParserInv, StreamInv, Ready
    PROVE  pc # "ret" /\ res = "none" /\ Place(Count) /\ Agrees
  BY Now, Zenon DEF Ready

\* bytestream_consume_data() reads on, and does not stop inside a blank line.
LEMMA ConsumeStep ==
    ASSUME ~ BlankLineSplit, ParserInv, StreamInv, Consume, UNCHANGED stream
    PROVE  StreamInv'
<1>1. PICK n \in 1 .. (Len(wire) - rcvd) : ~ SplitsBlankLine(n) /\ rcvd' = rcvd + n
  BY Zenon DEF Consume
<1>2. /\ pc = "loop" /\ pc' = "step" /\ Eod <= spos
      /\ UNCHANGED <<wire, base, spos, ctx, res, events>>
  BY Zenon DEF Consume, NeedMore
<1>3. Sent' /\ Made(events)'
  BY <1>2, Now, Zenon DEF Sent, Made
<1>4. ~ SplitsBlankLine(0)'
  <2>1. rcvd' + 0 = rcvd + n
    BY <1>1, Ints
  <2>2. wire' = wire
    BY <1>2, Zenon
  <2> QED BY <1>1, <2>1, <2>2, Zenon DEF SplitsBlankLine
<1>5. rcvd < Len(wire) /\ rcvd <= rcvd' /\ rcvd' \in Int
  BY <1>1, Offsets
<1>6. Eod <= Eod' /\ Eod' \in Int
  <2>1. Eod' = rcvd' - base
    BY <1>2, Zenon DEF Eod
  <2>2. \A a, b, d \in Int : a <= b => a - d <= b - d /\ b - d \in Int
    BY SMTT(60)
  <2> QED BY <1>5, <2>1, <2>2, Ints, Zenon
<1>7. ASSUME BodyPlace(ctx, spos, Len(events)) PROVE BodyPlace(ctx, spos, Len(events))'
  BY <1>2, <1>6, <1>7, Offsets DEF BodyPlace
<1>8. Place(Len(events))'
  <2>1. Place(Len(events))
    BY <1>2, Now, Zenon DEF Count
  <2>2. rcvd # Len(wire)
    BY <1>5, Offsets
  <2>3. wire' = wire /\ base' = base /\ spos' = spos /\ ctx' = ctx /\ events' = events
    BY <1>2, Zenon
  <2> QED BY <1>7, <2>1, <2>2, <2>3, Zenon DEF Place, InHeader
<1> QED BY <1>2, <1>3, <1>4, <1>8, Now, Zenon DEF StreamInv

\* It fails or finds the end of the stream.
LEMMA ConsumeEndStep ==
    ASSUME ParserInv, StreamInv, ConsumeEof \/ ConsumeError, UNCHANGED stream
    PROVE  StreamInv'
<1>1. pc' = "ret" /\ res' \in {"empty", "consume_error", "read_error"}
      /\ UNCHANGED <<wire, rcvd, base, spos, ctx, events>>
  BY Zenon DEF ConsumeEof, ConsumeError
<1>2. Made(events)'
  BY <1>1, Now, Zenon DEF Made
<1> QED BY <1>1, <1>2, SentKept, Zenon DEF StreamInv

\* A message begins.
LEMMA StartStep ==
    ASSUME ParserInv, StreamInv, Start, UNCHANGED stream
    PROVE  StreamInv'
<1>1. Ready /\ ctx.parser_state = "START" /\ pc' = "loop"
      /\ ctx' = [ctx EXCEPT !.first_line = spos, !.parser_state = "LINE"]
      /\ UNCHANGED <<wire, rcvd, base, spos, res, events>>
  BY Zenon DEF Start
<1>2. /\ ctx'.parser_state = "LINE" /\ ctx'.first_line = spos
      /\ ctx'.flags = ctx.flags /\ ctx'.bodysz = ctx.bodysz
  BY <1>1, CtxIs, Zenon DEF CtxType
<1>3. Made(events)'
  BY <1>1, Now, Zenon DEF Made
<1>4. Place(Len(events))'
  BY <1>1, <1>2, WhenReady, Zenon DEF Place, Count
<1> QED BY <1>1, <1>3, <1>4, SentKept, WhenReady, Zenon DEF StreamInv

\* Its start line has not arrived.
LEMMA LineMoreStep ==
    ASSUME ParserInv, StreamInv, LineMore, UNCHANGED stream
    PROVE  StreamInv'
<1>1. Ready /\ ctx.parser_state = "LINE" /\ pc' = "loop"
      /\ UNCHANGED <<wire, rcvd, base, ctx, res, events>>
  BY Zenon DEF LineMore
<1>2. Made(events)'
  BY <1>1, Now, Zenon DEF Made
<1>3. Place(Len(events))'
  BY <1>1, WhenReady, Zenon DEF Place, Count
<1> QED BY <1>1, <1>2, <1>3, SentKept, WhenReady, Zenon DEF StreamInv

\* What has been found at the start of a message is its start line.
LEMMA LineFound ==
    ASSUME ParserInv, StreamInv, Ready, ctx.parser_state = "LINE", NEW e,
           FirstCrlf(ctx.first_line, e)
    PROVE  /\ Count + 1 \in 1 .. Len(stream.parts) /\ Frames(stream, Count + 1)
           /\ base + ctx.first_line = Here /\ e = ctx.first_line + 1
           /\ CrLfAt(stream, Here + 1) /\ At(ctx.first_line).k = Kind(stream, Here)
           /\ \/ /\ At(ctx.first_line).k = "line"
                 /\ Coming = [ev |-> "line", from |-> Here, to |-> Here + 1, sz |-> 0]
              \/ At(ctx.first_line).k = "badline" /\ Coming.ev = "reject"
<1>1. /\ base + ctx.first_line = Here
      /\ Starts(stream, Count) \/ (Strays(stream, Count) /\ stream.parts[Count].sz >= -1)
  BY WhenReady, Zenon DEF Place, Here
<1>2. base + ctx.first_line >= 0
  BY WhenReady, Zenon DEF Agrees, Mark
<1>3. e \in Int /\ ctx.first_line <= e /\ base + e + 2 <= Len(stream.bytes)
  BY <1>2, Now, StreamIs, CtxIs, FoundIs, Zenon
<1>4. Here < Len(stream.bytes)
  <2>1. Len(stream.bytes) \in Nat /\ ctx.first_line \in Int /\ base \in Int
    BY StreamIs, CtxIs, Ints, Zenon
  <2> QED BY <1>1, <1>3, <2>1
\* Behind a message without a length there is no line.
<1>8. Starts(stream, Count)
  <2> SUFFICES ASSUME Strays(stream, Count), stream.parts[Count].sz >= -1 PROVE FALSE
    BY <1>1, Zenon
  <2>1. Here - stream.parts[Count].sz = Len(stream.bytes) /\ stream.parts[Count].sz \in Int
    BY StreamIs, StrayIsLast, Zenon DEF Here
  <2>2. Len(stream.bytes) \in Nat /\ ctx.first_line \in Int /\ base \in Int /\ Here \in Int
    BY StreamIs, CtxIs, Ints, Zenon
  <2> QED BY <1>1, <1>3, <2>1, <2>2
<1>5. /\ Count + 1 \in 1 .. Len(stream.parts) /\ Frames(stream, Count + 1)
      /\ LineAt(stream, Coming, Here)
  BY <1>4, <1>8, StreamIs, AfterMessage, Zenon DEF Coming, Here
<1>6. /\ CrLfAt(stream, Here + 1) /\ Kind(stream, Here) \in {"line", "badline"}
      /\ \/ Kind(stream, Here) = "line"
            /\ Coming = [ev |-> "line", from |-> Here, to |-> Here + 1, sz |-> 0]
         \/ Kind(stream, Here) = "badline" /\ Coming.ev = "reject"
  BY <1>5, Zenon DEF LineAt, TextAt
<1>7. e = ctx.first_line + 1 /\ At(ctx.first_line).k = Kind(stream, Here)
  BY <1>1, <1>2, <1>6, Now, StreamIs, CtxIs, TextEnds, Zenon
<1> QED BY <1>1, <1>5, <1>6, <1>7, Zenon

\* A part that is rejected is the last one.
LEMMA Rejected ==
    ASSUME ParserInv, StreamInv, UNCHANGED stream, Coming.ev = "reject",
           Count + 1 \in 1 .. Len(stream.parts), res' = "parse_error", pc' = "ret",
           UNCHANGED <<wire, rcvd, events>>
    PROVE  StreamInv'
<1>1. Count + 1 = Len(stream.parts)
  BY StreamIs, RejectIsLast, Zenon DEF Coming
<1>2. Made(events)'
  BY Now, Zenon DEF Made
<1> QED BY <1>1, <1>2, SentKept, Zenon DEF StreamInv, Count, Coming

\* A start line that does not parse.
LEMMA LineBadStep ==
    ASSUME ParserInv, StreamInv, LineBad, UNCHANGED stream
    PROVE  StreamInv'
<1>1. PICK e : FirstCrlf(ctx.first_line, e) /\ ~ LineParses(ctx.first_line, e)
  BY Zenon DEF LineBad
<1>2. Ready /\ ctx.parser_state = "LINE" /\ pc' = "ret" /\ res' = "parse_error"
      /\ UNCHANGED <<wire, rcvd, base, spos, ctx, events>>
  BY Zenon DEF LineBad
<1>3. /\ Count + 1 \in 1 .. Len(stream.parts) /\ e = ctx.first_line + 1
      /\ At(ctx.first_line).k = "line" \/ Coming.ev = "reject"
  BY <1>1, <1>2, LineFound, Zenon
<1>4. Coming.ev = "reject"
  BY <1>1, <1>3, CtxIs DEF LineParses
<1> QED BY <1>2, <1>3, <1>4, Rejected, Zenon

\* The callback on a start line or a field.
LEMMA TextMade ==
    ASSUME ParserInv, StreamInv, UNCHANGED stream,
           NEW ev \in {"line", "header"}, NEW from \in Int, NEW e, e = from + 1,
           base + from = Here, Count + 1 \in 1 .. Len(stream.parts),
           Coming = [ev |-> ev, from |-> Here, to |-> Here + 1, sz |-> 0],
           events' = Log(ev, from, e, 0)
    PROVE  /\ Made(events)' /\ Len(events') = Count + 1
           /\ Behind(stream, Count + 1) = Here + 3 /\ base + (e + 2) = Here + 3
           /\ stream.parts[Count + 1].ev = ev /\ stream.parts[Count + 1].from = Here
<1>1. Coming \in Event
  BY StreamIs DEF Event
<1>2. base + e = Here + 1 /\ base + (e + 2) = Here + 3 /\ (Here + 1) + 2 = Here + 3
  BY Ints, SMTT(60)
<1>3. events' = Append(events, Coming)
  BY <1>2, Zenon DEF Log
<1>4. Made(events') /\ Len(events') = Count + 1
  BY <1>1, <1>3, StreamIs, Offsets, Now, MadeOne, Zenon DEF Count, Coming
<1>5. Made(events)'
  BY <1>4, Zenon DEF Made
<1>6. Coming.ev = ev /\ Coming.from = Here /\ Coming.to = Here + 1
  BY Zenon
<1>7. Behind(stream, Count + 1) = Here + 3
  <2>1. Count + 1 # 0
    BY Offsets
  <2> QED BY <1>2, <1>6, <2>1, Zenon DEF Behind, Coming
<1> QED BY <1>2, <1>4, <1>5, <1>6, <1>7, Zenon DEF Coming

\* line_cb() is called.
LEMMA LineStep ==
    ASSUME ParserInv, StreamInv, Line, UNCHANGED stream
    PROVE  StreamInv'
<1>1. PICK e : /\ FirstCrlf(ctx.first_line, e) /\ LineMayParse(ctx.first_line, e)
               /\ spos' = e + 2 /\ events' = Log("line", ctx.first_line, e, 0)
  BY Zenon DEF Line
<1>2. /\ Ready /\ ctx.parser_state = "LINE"
      /\ ctx' = [ctx EXCEPT !.parser_state = "HEADER_IN"]
      /\ \/ pc' = "loop" /\ res' = res
         \/ pc' = "ret" /\ res' = "cb_error"
      /\ UNCHANGED <<wire, rcvd, base>>
  BY Zenon DEF Line
<1>3. /\ Count + 1 \in 1 .. Len(stream.parts) /\ Frames(stream, Count + 1)
      /\ base + ctx.first_line = Here /\ e = ctx.first_line + 1
      /\ \/ Coming = [ev |-> "line", from |-> Here, to |-> Here + 1, sz |-> 0]
         \/ At(ctx.first_line).k = "badline"
  BY <1>1, <1>2, LineFound, Zenon
<1>4. Coming = [ev |-> "line", from |-> Here, to |-> Here + 1, sz |-> 0]
  <2>1. ctx.first_line .. (e - 1) = {ctx.first_line}
    BY <1>3, CtxIs
  <2> QED BY <1>1, <1>3, <2>1, Zenon DEF LineMayParse
<1>5. /\ Made(events)' /\ Len(events') = Count + 1
      /\ base + (e + 2) = Behind(stream, Count + 1) /\ stream.parts[Count + 1].ev = "line"
  BY <1>1, <1>3, <1>4, CtxIs, TextMade, Zenon
<1>6. /\ ctx'.parser_state = "HEADER_IN" /\ ctx'.flags = ctx.flags
      /\ ctx'.bodysz = ctx.bodysz
  BY <1>2, CtxIs, Zenon DEF CtxType
<1>7. ctx.flags = 0 /\ ctx.bodysz = -1
  BY <1>2, WhenReady, Zenon DEF Place
<1>8. stream.framing[Count + 1] = [chunked |-> FALSE, len |-> -1]
  BY <1>3, <1>5, Zenon DEF Frames
<1>9. FramedAs(ctx', stream.framing[Count + 1])
  BY <1>6, <1>7, <1>8 DEF FramedAs
<1>10. Place(Len(events))'
  BY <1>1, <1>2, <1>5, <1>6, <1>9, Offsets, SMTT(60) DEF Place, InHeader, FramedAs
<1> QED BY <1>2, <1>5, <1>10, SentKept, WhenReady, Zenon DEF StreamInv

\* A field or the blank line begins.
LEMMA HeaderInStep ==
    ASSUME ParserInv, StreamInv, HeaderIn, UNCHANGED stream
    PROVE  StreamInv'
<1>1. Ready /\ ctx.parser_state = "HEADER_IN" /\ pc' = "loop"
      /\ ctx' = [ctx EXCEPT !.header_name = spos, !.parser_state = "HEADER_OUT"]
      /\ UNCHANGED <<wire, rcvd, base, spos, res, events>>
  BY Zenon DEF HeaderIn
<1>2. /\ ctx'.parser_state = "HEADER_OUT" /\ ctx'.header_name = spos
      /\ ctx'.flags = ctx.flags /\ ctx'.bodysz = ctx.bodysz
      /\ ctx'.chunk_parser_state = ctx.chunk_parser_state
  BY <1>1, CtxIs, Zenon DEF CtxType
<1>3. Made(events)'
  BY <1>1, Now, Zenon DEF Made
<1>4. Place(Len(events))'
  BY <1>1, <1>2, WhenReady, Zenon DEF Place, InHeader, FramedAs, Count
<1> QED BY <1>1, <1>3, <1>4, SentKept, WhenReady, Zenon DEF StreamInv

\* In a header, another part follows.
LEMMA InFields ==
    ASSUME ParserInv, StreamInv, Ready, ctx.parser_state = "HEADER_OUT"
    PROVE  /\ base + ctx.header_name = Here /\ ctx.header_name <= Eod /\ Here >= 0
           /\ FramedAs(ctx, stream.framing[Count]) /\ Count > 0
           /\ Count + 1 \in 1 .. Len(stream.parts) /\ Frames(stream, Count + 1)
           /\ FieldAt(stream, Coming, Here) \/ BodyAt(stream, Coming, Here, stream.framing[Count])
           /\ Here = stream.parts[Count].to + 2 /\ CrLfAt(stream, stream.parts[Count].to)
           /\ stream.parts[Count].from \in Nat
           /\ stream.parts[Count].to = stream.parts[Count].from + 1
           /\ Kind(stream, stream.parts[Count].from) \in {"line", "cl", "te", "hdr"}
           /\ CrLfAt(stream, Here) =>
                spos = ctx.header_name \/ (rcvd = Len(wire) /\ rcvd < Here + 2)
<1>1. /\ Count > 0 /\ stream.parts[Count].ev \in {"line", "header"}
      /\ FramedAs(ctx, stream.framing[Count]) /\ base + ctx.header_name = Here
      /\ CrLfAt(stream, Here) =>
           spos = ctx.header_name \/ (rcvd = Len(wire) /\ rcvd < Here + 2)
  BY WhenReady, Zenon DEF Place, InHeader, Here
<1>2. ctx.header_name <= Eod /\ base + ctx.header_name >= 0
  BY WhenReady, Zenon DEF Agrees, Mark
<1>3. Count \in 1 .. Len(stream.parts)
  BY <1>1, StreamIs
<1>4. /\ Count + 1 \in 1 .. Len(stream.parts) /\ Frames(stream, Count + 1)
      /\ FieldAt(stream, Coming, Here) \/ BodyAt(stream, Coming, Here, stream.framing[Count])
      /\ Here = stream.parts[Count].to + 2 /\ CrLfAt(stream, stream.parts[Count].to)
      /\ stream.parts[Count].from \in Nat
      /\ stream.parts[Count].to = stream.parts[Count].from + 1
      /\ Kind(stream, stream.parts[Count].from) \in {"line", "cl", "te", "hdr"}
  BY <1>1, <1>3, StreamIs, AfterField, Zenon DEF Coming, Here
<1> QED BY <1>1, <1>2, <1>4, Zenon

\* The field has not arrived, and of a blank line not only the CR.
LEMMA HeaderMoreStep ==
    ASSUME ParserInv, StreamInv, HeaderMore, UNCHANGED stream
    PROVE  StreamInv'
<1>1. Ready /\ ctx.parser_state = "HEADER_OUT" /\ pc' = "loop" /\ NoCrlf(ctx.header_name)
      /\ spos' = Eod /\ UNCHANGED <<wire, rcvd, base, ctx, res, events>>
  BY Zenon DEF HeaderMore
<1>2. Made(events)'
  BY <1>1, Now, Zenon DEF Made
\* Of a blank line not more than the CR is there, and not only the CR.
<1>3. ASSUME CrLfAt(stream, Here)
      PROVE  Eod = ctx.header_name \/ (rcvd = Len(wire) /\ rcvd < Here + 2)
  <2>1. PICK h \in Int : h = ctx.header_name
    BY CtxIs, Zenon
  <2>2. base + h = Here /\ h <= Eod /\ Here >= 0
    BY <1>1, <2>1, InFields, Zenon
  <2>3. h > Eod - 2
    <3>1. SUFFICES ASSUME h <= Eod - 2 PROVE FALSE
      BY Offsets
    <3>2. /\ h + 1 \in Int /\ base + h >= 0 /\ base + (h + 1) >= 0 /\ h < Eod /\ h + 1 < Eod
          /\ base + (h + 1) = Here + 1 /\ h \in h .. (Eod - 2)
      BY <2>2, <3>1, Ints
    <3>3. At(h).k = Kind(stream, base + h) /\ At(h + 1).k = Kind(stream, base + (h + 1))
      BY <3>2, Now, StreamIs, AtStream, Zenon
    <3> QED BY <1>1, <1>3, <2>1, <2>2, <3>2, <3>3, Zenon DEF NoCrlf, IsCrlf, CrLfAt
  <2>4. CASE Eod = h + 1
    <3>1. rcvd = Here + 1 /\ rcvd < Here + 2
      BY <2>2, <2>4, StreamIs, Offsets, SMTT(60)
    <3>2. SUFFICES ASSUME rcvd # Len(wire) PROVE FALSE
      BY <3>1, Zenon
    <3>3. PICK z \in Nat : /\ z = stream.parts[Count].from /\ Here = z + 1 + 2
                           /\ CrLfAt(stream, z + 1) /\ Kind(stream, z) \in {"line", "cl", "te", "hdr"}
      BY <1>1, InFields, Zenon
    <3>4. /\ Kind(stream, z) \in {"line", "cl", "te", "hdr"}
          /\ Kind(stream, z + 1) = "cr" /\ Kind(stream, z + 1 + 1) = "lf"
          /\ Kind(stream, Here) = "cr" /\ Kind(stream, Here + 1) = "lf"
      BY <1>3, <3>3, Zenon DEF CrLfAt
    <3>5. /\ rcvd - 3 = z + 1 /\ rcvd - 2 = z + 1 + 1 /\ rcvd - 1 = z + 1 + 1 + 1
          /\ rcvd = Here + 1 /\ rcvd + 1 = Here + 1 + 1
          /\ rcvd - 3 \in 1 .. Len(wire) /\ rcvd - 2 \in 1 .. Len(wire)
          /\ rcvd - 1 \in 1 .. Len(wire) /\ rcvd \in 1 .. Len(wire)
          /\ rcvd + 1 \in 1 .. Len(wire) /\ rcvd \in 4 .. (Len(wire) - 1)
      <4>1. PICK m \in Int : m = Len(wire)
        BY Offsets
      <4>2. rcvd < m
        BY <3>2, <4>1, Offsets
      <4>3. Here = z + 1 + 2
        BY <3>3, Zenon
      <4> QED BY <3>1, <4>1, <4>2, <4>3, Ints
    <3>6. /\ wire[rcvd - 3].k \in {"line", "cl", "te", "hdr"}
          /\ wire[rcvd - 2].k = "cr" /\ wire[rcvd - 1].k = "lf"
          /\ wire[rcvd].k = "cr" /\ wire[rcvd + 1].k = "lf"
      BY <3>4, <3>5, Now, Zenon DEF Sent, Kind
    <3>7. rcvd + 0 = rcvd
      BY Offsets
    <3> QED BY <3>5, <3>6, <3>7, Now, Zenon DEF SplitsBlankLine
  <2>5. Eod = h \/ Eod = h + 1
    BY <2>2, <2>3, Ints
  <2> QED BY <2>1, <2>4, <2>5, Zenon
<1>4. Place(Len(events))'
  BY <1>1, <1>3, WhenReady, Zenon DEF Place, InHeader, FramedAs, Count, Here
<1> QED BY <1>1, <1>2, <1>4, SentKept, WhenReady, Zenon DEF StreamInv

\* What ends behind its first byte is a field.
LEMMA FieldFound ==
    ASSUME ParserInv, StreamInv, Ready, ctx.parser_state = "HEADER_OUT", NEW e,
           FirstCrlf(ctx.header_name, e), e # ctx.header_name
    PROVE  /\ e = ctx.header_name + 1
           /\ At(ctx.header_name) = stream.bytes[Here + 1]
           /\ \/ /\ At(ctx.header_name).k \in {"cl", "te", "hdr"}
                 /\ Coming = [ev |-> "header", from |-> Here, to |-> Here + 1, sz |-> 0]
              \/ At(ctx.header_name).k = "nocolon" /\ Coming.ev = "reject"
<1>1. /\ base + ctx.header_name = Here /\ Here >= 0
      /\ FieldAt(stream, Coming, Here) \/ BodyAt(stream, Coming, Here, stream.framing[Count])
  BY InFields, Zenon
<1>2. base + ctx.header_name >= 0
  BY <1>1, Zenon
<1>3. ASSUME CrLfAt(stream, Here) PROVE FALSE
  <2>1. ctx.header_name .. (ctx.header_name - 1) = {} /\ ctx.header_name <= ctx.header_name
    BY CtxIs
  <2>2. e = ctx.header_name
    BY <1>1, <1>2, <1>3, <2>1, Now, StreamIs, CtxIs, FirstIs, Zenon
  <2> QED BY <2>2, Zenon
<1>4. FieldAt(stream, Coming, Here)
  BY <1>1, <1>3, Zenon DEF BodyAt
<1>5. /\ CrLfAt(stream, Here + 1) /\ Kind(stream, Here) # "cr"
      /\ \/ /\ Kind(stream, Here) \in {"cl", "te", "hdr"}
            /\ Coming = [ev |-> "header", from |-> Here, to |-> Here + 1, sz |-> 0]
         \/ Kind(stream, Here) = "nocolon" /\ Coming.ev = "reject"
  BY <1>4, Zenon DEF FieldAt, TextAt
<1>6. /\ e = ctx.header_name + 1 /\ At(ctx.header_name) = stream.bytes[Here + 1]
      /\ At(ctx.header_name).k = Kind(stream, Here)
  BY <1>1, <1>2, <1>5, Now, StreamIs, CtxIs, TextEnds, Zenon
<1> QED BY <1>5, <1>6, Zenon

\* A field without a colon.
LEMMA HeaderBadStep ==
    ASSUME ParserInv, StreamInv, HeaderBad, UNCHANGED stream
    PROVE  StreamInv'
<1>1. PICK e \in (ctx.header_name + 1) .. (Eod - 2) :
         FirstCrlf(ctx.header_name, e) /\ ~ HasColon(ctx.header_name, e)
  BY Zenon DEF HeaderBad
<1>2. Ready /\ ctx.parser_state = "HEADER_OUT" /\ pc' = "ret" /\ res' = "parse_error"
      /\ UNCHANGED <<wire, rcvd, base, spos, ctx, events>>
  BY Zenon DEF HeaderBad
<1>3. e # ctx.header_name
  BY <1>1, CtxIs, Ints
<1>4. /\ e = ctx.header_name + 1
      /\ At(ctx.header_name).k \in {"cl", "te", "hdr"} \/ Coming.ev = "reject"
  BY <1>1, <1>2, <1>3, FieldFound, Zenon
<1>5. ctx.header_name \in ctx.header_name .. (e - 1)
  BY <1>4, CtxIs
<1>6. Coming.ev = "reject"
  BY <1>1, <1>4, <1>5, Zenon DEF HasColon
<1> QED BY <1>2, <1>6, Rejected, InFields, Zenon

\* header_cb() is called, and process_header() notes how the body is framed.
LEMMA HeaderStep ==
    ASSUME ParserInv, StreamInv, Header, UNCHANGED stream
    PROVE  StreamInv'
<1> DEFINE b == At(ctx.header_name)
           c == process_header(ctx, b)
<1>1. PICK e \in (ctx.header_name + 1) .. (Eod - 2) :
        /\ FirstCrlf(ctx.header_name, e) /\ HasColon(ctx.header_name, e)
        /\ events' = Log("header", ctx.header_name, e, 0)
        /\ \/ /\ ctx' = [c EXCEPT !.parser_state = "HEADER_IN"]
              /\ spos' = e + 2 /\ pc' = "loop" /\ res' = res
           \/ pc' = "ret" /\ res' = "cb_error"
  BY Zenon DEF Header
<1>2. Ready /\ ctx.parser_state = "HEADER_OUT" /\ UNCHANGED <<wire, rcvd, base>>
  BY Zenon DEF Header
<1>3. e # ctx.header_name
  BY <1>1, CtxIs, Ints
<1>4. /\ e = ctx.header_name + 1 /\ b = stream.bytes[Here + 1]
      /\ \/ /\ b.k \in {"cl", "te", "hdr"}
            /\ Coming = [ev |-> "header", from |-> Here, to |-> Here + 1, sz |-> 0]
         \/ b.k = "nocolon"
  BY <1>1, <1>2, <1>3, FieldFound, Zenon
<1>5. /\ b.k \in {"cl", "te", "hdr"}
      /\ Coming = [ev |-> "header", from |-> Here, to |-> Here + 1, sz |-> 0]
  <2>1. ctx.header_name .. (e - 1) = {ctx.header_name}
    BY <1>4, CtxIs
  <2> QED BY <1>1, <1>4, <2>1, Zenon DEF HasColon
<1>6. base + ctx.header_name = Here /\ FramedAs(ctx, stream.framing[Count]) /\ Count > 0
      /\ Count + 1 \in 1 .. Len(stream.parts) /\ Frames(stream, Count + 1)
  BY <1>2, InFields, Zenon
<1>7. /\ Made(events)' /\ Len(events') = Count + 1
      /\ base + (e + 2) = Behind(stream, Count + 1)
      /\ stream.parts[Count + 1].ev = "header" /\ stream.parts[Count + 1].from = Here
  BY <1>1, <1>4, <1>5, <1>6, CtxIs, TextMade, Zenon
<1> HIDE DEF b
<1>8. /\ b.k = "cl" => /\ ~ stream.framing[Count].chunked
                       /\ stream.framing[Count + 1] = [chunked |-> FALSE, len |-> b.n]
      /\ b.k = "te" => stream.framing[Count + 1] = [chunked |-> TRUE, len |-> 0]
      /\ b.k = "hdr" => stream.framing[Count + 1] = stream.framing[Count]
  <2>1. (Count + 1) - 1 = Count
    BY Offsets
  <2> QED BY <1>4, <1>6, <1>7, <2>1, Zenon DEF Frames
<1>9. FramedAs(c, stream.framing[Count + 1]) /\ DOMAIN c = DOMAIN ctx
  <2>1. CASE b.k = "cl"
    <3>1. c = [ctx EXCEPT !.bodysz = b.n]
      BY <2>1, Zenon DEF process_header
    <3>2. c.bodysz = b.n /\ c.flags = ctx.flags /\ DOMAIN c = DOMAIN ctx
      BY <3>1, CtxIs, Zenon DEF CtxType
    <3> QED BY <1>6, <1>8, <2>1, <3>2 DEF FramedAs
  <2>2. CASE b.k = "te"
    <3>1. c = [ctx EXCEPT !.flags = 1, !.bodysz = 0, !.chunk_parser_state = "SIZE"]
      BY <2>2, Zenon DEF process_header
    <3>2. c.bodysz = 0 /\ c.flags = 1 /\ c.chunk_parser_state = "SIZE"
          /\ DOMAIN c = DOMAIN ctx
      BY <3>1, CtxIs, Zenon DEF CtxType
    <3>3. stream.framing[Count + 1].chunked = TRUE /\ stream.framing[Count + 1].len = 0
      BY <1>8, <2>2
    <3> QED BY <3>2, <3>3, Zenon DEF FramedAs
  <2>3. CASE b.k = "hdr"
    BY <1>6, <1>8, <2>3, Zenon DEF process_header
  <2> QED BY <1>5, <2>1, <2>2, <2>3, Zenon
<1> HIDE DEF c
<1>10. CASE /\ ctx' = [c EXCEPT !.parser_state = "HEADER_IN"]
            /\ spos' = e + 2 /\ pc' = "loop" /\ res' = res
  <2>1. /\ ctx'.parser_state = "HEADER_IN" /\ ctx'.flags = c.flags
        /\ ctx'.bodysz = c.bodysz /\ ctx'.chunk_parser_state = c.chunk_parser_state
    BY <1>9, <1>10, CtxIs, Zenon DEF CtxType
  <2>2. Place(Len(events))'
    BY <1>2, <1>7, <1>9, <1>10, <2>1, Offsets, SMTT(60) DEF Place, InHeader, FramedAs
  <2> QED BY <1>2, <1>7, <1>10, <2>2, SentKept, WhenReady, Zenon DEF StreamInv
<1>11. CASE pc' = "ret" /\ res' = "cb_error"
  BY <1>2, <1>7, <1>11, SentKept, Zenon DEF StreamInv
<1> QED BY <1>1, <1>10, <1>11, Zenon

\* The blank line: process_body() begins.
LEMMA EmptyLineStep ==
    ASSUME ParserInv, StreamInv, EmptyLine, UNCHANGED stream
    PROVE  StreamInv'
<1>1. Ready /\ ctx.parser_state = "HEADER_OUT" /\ FirstCrlf(ctx.header_name, ctx.header_name)
  BY Zenon DEF EmptyLine
<1>2. /\ base + ctx.header_name = Here /\ Here >= 0
      /\ FramedAs(ctx, stream.framing[Count]) /\ Count > 0
      /\ Count + 1 \in 1 .. Len(stream.parts) /\ Frames(stream, Count + 1)
      /\ FieldAt(stream, Coming, Here) \/ BodyAt(stream, Coming, Here, stream.framing[Count])
      /\ CrLfAt(stream, Here) => spos = ctx.header_name \/ (rcvd = Len(wire) /\ rcvd < Here + 2)
  BY <1>1, InFields, Zenon
<1>3. base + ctx.header_name >= 0
  BY <1>2, Zenon
<1>4. ctx.header_name <= Eod - 2 /\ CrLfAt(stream, Here)
  BY <1>1, <1>2, <1>3, Now, StreamIs, CtxIs, FoundIs, Zenon
<1>5. spos = ctx.header_name
  <2>1. PICK h \in Int : h = ctx.header_name
    BY CtxIs, Zenon
  <2>2. ~ (rcvd < Here + 2)
    BY <1>2, <1>4, <2>1, Ints
  <2> QED BY <1>2, <1>4, <2>2, Zenon
<1>6. BodyAt(stream, Coming, Here, stream.framing[Count])
  BY <1>2, <1>4, Zenon DEF FieldAt, TextAt, CrLfAt
<1>7. PICK p \in Int : p = spos + 2
  BY Offsets
<1>8. PICK c : c = [ctx EXCEPT !.body_start = p, !.body_end = p,
                               !.chunk_start = p, !.chunk_end = p,
                               !.parser_state = "BODY"]
  BY Zenon
<1>9. process_body(c, p)
  BY <1>7, <1>8, Zenon DEF EmptyLine
<1>10. /\ c \in CtxType /\ c.parser_state = "BODY"
       /\ c.chunk_start = p /\ c.body_start = p /\ c.body_end = p
       /\ c.flags = ctx.flags /\ c.bodysz = ctx.bodysz
       /\ c.chunk_parser_state = ctx.chunk_parser_state
  BY <1>8, CtxIs, Zenon DEF CtxType
<1>11. /\ EndsBy(events, base + ctx.header_name) /\ ctx.chunk_parser_state # "DATA"
  BY <1>1, WhenReady, Zenon DEF Agrees, Mark
<1>12. base + p = Here + 2 /\ base + p >= 1 /\ p <= Eod
  <2>1. PICK h \in Int : h = ctx.header_name
    BY CtxIs, Zenon
  <2>2. p = h + 2 /\ base + h = Here /\ h <= Eod - 2 /\ Here >= 0
    BY <1>2, <1>4, <1>5, <1>7, <2>1, Zenon
  <2> QED BY <2>2, Ints
<1>13. BodyAgrees(c, p)
  <2>1. EndsBy(events, base + p)
    <3>1. base + ctx.header_name \in Int /\ base + p \in Int
          /\ base + ctx.header_name <= base + p
      BY <1>2, <1>12, Ints
    <3> QED BY <1>11, <3>1, Offsets, EndsByMonotone, Zenon
  <2> QED BY <1>10, <1>11, <1>12, <2>1, Zenon DEF BodyAgrees
<1>14. BodyPlace(c, p, Count)
  <2>1. Count \in 1 .. (Len(stream.parts) - 1)
    BY <1>2, StreamIs, Offsets, SMTT(60)
  <2>2. Coming.ev = "body" => stream.framing[Count + 1] = stream.framing[Count]
    <3>1. (Count + 1) - 1 = Count
      BY Offsets
    <3> QED BY <1>2, <3>1, Zenon DEF Frames, Coming
  <2>3. CASE stream.framing[Count].chunked
    <3>1. c.flags = 1 /\ c.bodysz = 0 /\ c.chunk_parser_state = "SIZE"
      BY <1>2, <1>10, <2>3, Zenon DEF FramedAs
    <3>2. ChunkAt(stream, Coming, base + c.chunk_start, c.bodysz)
      BY <1>6, <1>10, <1>12, <2>3, <3>1, Zenon DEF BodyAt
    <3>3. c.bodysz >= 0
      BY <3>1
    <3> QED BY <2>1, <2>2, <2>3, <3>1, <3>2, <3>3 DEF BodyPlace, Coming
  <2>4. CASE ~ stream.framing[Count].chunked
    <3>1. c.flags = 0 /\ c.bodysz = stream.framing[Count].len
      BY <1>2, <1>10, <2>4, Zenon DEF FramedAs
    <3>2. Coming = [ev |-> "body", from |-> Here + 2, to |-> Here + 2 + c.bodysz, sz |-> c.bodysz]
      BY <1>6, <2>4, <3>1, Zenon DEF BodyAt
    <3>3. /\ Coming.ev = "body" /\ Coming.from = Here + 2 /\ Coming.to = Here + 2 + c.bodysz
          /\ Coming.sz = c.bodysz
      BY <3>2, Zenon
    <3>4. c.bodysz \in Int
      BY <1>10 DEF CtxType
    <3>5. Coming.from <= base + p /\ c.bodysz = Coming.to - Coming.from
          /\ IF c.bodysz >= 0 THEN base + p <= Coming.to ELSE base + p = Coming.from
      BY <1>12, <3>2, <3>3, <3>4, Ints
    <3>6. base + c.chunk_start = Coming.from /\ c.body_end = p /\ c.chunk_start = c.body_start
      BY <1>10, <1>12, <3>3, Zenon
    <3>7. ~ stream.framing[Count + 1].chunked
      BY <2>2, <2>4, <3>3, Zenon
    <3> QED BY <1>12, <2>1, <3>1, <3>3, <3>5, <3>6, <3>7 DEF BodyPlace, Coming
  <2> QED BY <2>3, <2>4, Zenon
<1>15. res = "none"
  BY <1>1, WhenReady, Zenon
<1> QED BY <1>9, <1>10, <1>13, <1>14, <1>15, Now, StreamIs, BodyStream, Zenon DEF Count

\* process_body() goes on.
LEMMA BodyStep ==
    ASSUME ParserInv, StreamInv, Body, UNCHANGED stream
    PROVE  StreamInv'
<1>1. PICK p \in Int, c \in CtxType : p = spos /\ c = ctx
  BY Offsets, CtxIs, Zenon
<1>2. Ready /\ c.parser_state = "BODY" /\ process_body(c, p)
  BY <1>1, Zenon DEF Body
<1>3. res = "none" /\ BodyAgrees(c, p) /\ BodyPlace(c, p, Len(events))
  BY <1>1, <1>2, WhenReady, Zenon DEF Agrees, Place, Count
<1> QED BY <1>2, <1>3, Now, StreamIs, BodyStream, Zenon

\* The next message of the connection.
LEMMA NextMessageStep ==
    ASSUME ParserInv, StreamInv, NextMessage, UNCHANGED stream
    PROVE  StreamInv'
<1>1. res = "ok" /\ ~ Astray /\ ctx' = CtxInit /\ pc' = "loop" /\ res' = "none"
      /\ UNCHANGED <<wire, rcvd, base, spos, events>>
  BY Zenon DEF NextMessage
<1>2. CtxInit.parser_state = "START" /\ CtxInit.flags = 0 /\ CtxInit.bodysz = -1
  BY Zenon DEF CtxInit
<1>3. Made(events)'
  BY <1>1, Now, Zenon DEF Made
<1>4. Place(Len(events))'
  <2>1. /\ base + spos = Behind(stream, Count)
        /\ \/ Starts(stream, Count)
           \/ Strays(stream, Count) /\ ctx.flags = 0 /\ ctx.bodysz = stream.parts[Count].sz
    BY <1>1, Now, Zenon DEF Ended
  <2>2. Strays(stream, Count) => stream.parts[Count].sz \in Int
    BY StreamIs, StrayIsLast, Zenon
  <2>3. Starts(stream, Count) \/ (Strays(stream, Count) /\ stream.parts[Count].sz >= -1)
    BY <1>1, <2>1, <2>2 DEF Astray
  <2> QED BY <1>1, <1>2, <2>1, <2>3, Zenon DEF Place, Count
<1> QED BY <1>1, <1>3, <1>4, SentKept, Zenon DEF StreamInv

\* Nothing happens.
LEMMA StreamStays == ASSUME StreamInv, UNCHANGED StreamVars PROVE StreamInv'
<1>1. Sent' /\ ~ SplitsBlankLine(0)' /\ Made(events)'
  BY Zenon DEF StreamVars, vars, StreamInv, Sent, SplitsBlankLine, Made
<1>2. pc # "ret" => Place(Len(events))'
  BY Zenon DEF StreamVars, vars, StreamInv, Place, InHeader, BodyPlace, Eod
<1> QED BY <1>1, <1>2, Zenon DEF StreamVars, vars, StreamInv, Ended

\* Each step of the parser goes on where it is in the stream.
LEMMA StreamStep ==
    ASSUME ~ BlankLineSplit, ParserInv, StreamInv, [StreamNext]_StreamVars
    PROVE  StreamInv'
<1>1. CASE UNCHANGED StreamVars
  BY <1>1, StreamStays, Zenon
<1>2. CASE Stop /\ UNCHANGED stream
  BY <1>2, StreamStays, Zenon DEF Stop, StreamVars
<1>3. CASE Next /\ UNCHANGED stream
  BY <1>2, <1>3, ConsumeStep, ConsumeEndStep, StartStep, LineMoreStep, LineBadStep, LineStep,
     HeaderInStep, HeaderMoreStep, HeaderBadStep, HeaderStep, EmptyLineStep, BodyStep,
     NextMessageStep, Zenon DEF Next, Parse
<1> QED BY <1>1, <1>3, Zenon DEF StreamNext

-----------------------------------------------------------------------------
(* What was to be shown of the parser of a stream.                         *)

\* Before the first read nothing was delivered, and the first message is due.
LEMMA StreamStarts == StreamInit => ParserInv /\ StreamInv
<1> SUFFICES ASSUME StreamInit PROVE ParserInv /\ StreamInv
  BY Zenon
<1>1. stream \in Streams /\ ParserInit
  BY Zenon DEF StreamInit
<1>2. stream.bytes \in Seq(Byte) /\ stream.parts \in Seq(Part)
  BY <1>1, StreamAssumption, Zenon DEF IsStream
<1>3. PICK cut \in 0 .. Len(stream.bytes) : wire = SubSeq(stream.bytes, 1, cut)
  BY Zenon DEF StreamInit
<1>4. /\ wire \in Seq(Byte) /\ Len(wire) <= Len(stream.bytes)
      /\ \A i \in 1 .. Len(wire) : wire[i] = stream.bytes[i]
  <2>1. PICK b \in Seq(Byte) : b = stream.bytes
    BY <1>2, Zenon
  <2>2. cut \in 0 .. Len(b) /\ wire = SubSeq(b, 1, cut)
    BY <1>3, <2>1, Zenon
  <2>3. SubSeq(b, 1, cut) \in Seq(Byte) /\ Len(SubSeq(b, 1, cut)) = cut
        /\ \A i \in 1 .. cut : SubSeq(b, 1, cut)[i] = b[i]
    BY <2>2
  <2> QED BY <2>1, <2>2, <2>3
<1>5. ParserInv
  BY <1>1, <1>4, ParserStarts, Zenon
<1>6. rcvd = 0 /\ base = 0 /\ spos = 0 /\ ctx = CtxInit /\ events = <<>> /\ res = "none"
  BY <1>1, Zenon DEF ParserInit
<1>7. Len(events) = 0 /\ Len(stream.parts) >= 0
  BY <1>2, <1>6
<1>8. Made(events)
  BY <1>7 DEF Made
<1>9. ~ SplitsBlankLine(0)
  BY <1>6 DEF SplitsBlankLine
<1>10. ctx.parser_state = "START" /\ ctx.flags = 0 /\ ctx.bodysz = -1
  BY <1>6, Zenon DEF CtxInit
<1>11. Place(Len(events))
  BY <1>6, <1>7, <1>10 DEF Place, Starts, Behind
<1> QED BY <1>1, <1>4, <1>5, <1>6, <1>8, <1>9, <1>11, Zenon DEF StreamInv, Sent

\* Whatever stream of messages a peer sends and wherever it ends, the parser's place
\* in it agrees with the callbacks made, if no read ends inside a blank line.
THEOREM PlaceInvariant == ~ BlankLineSplit => (StreamSpec => [](ParserInv /\ StreamInv))
<1> SUFFICES ASSUME ~ BlankLineSplit PROVE StreamSpec => [](ParserInv /\ StreamInv)
  BY Zenon
<1>1. ParserInv /\ StreamInv /\ [StreamNext]_StreamVars => ParserInv' /\ StreamInv'
  <2> SUFFICES ASSUME ParserInv, StreamInv, [StreamNext]_StreamVars
               PROVE  ParserInv' /\ StreamInv'
    BY Zenon
  <2>1. [Next]_vars
    BY Zenon DEF StreamNext, StreamVars
  <2> QED BY <2>1, InvNext, StreamStep, Zenon
<1> QED BY <1>1, StreamStarts, PTL DEF StreamSpec

\* The callbacks of a stream are its parts, without one that has to be rejected.
LEMMA CallbacksAre ==
    ASSUME NEW s, IsStream(s)
    PROVE  /\ Callbacks(s) \in Seq(Part)
           /\ Len(Callbacks(s)) = IF Malformed(s) THEN Len(s.parts) - 1 ELSE Len(s.parts)
           /\ \A i \in 1 .. Len(Callbacks(s)) : Callbacks(s)[i] = s.parts[i]
<1>1. PICK p \in Seq(Part) : p = s.parts
  BY Zenon DEF IsStream
<1>2. Len(p) \in Nat /\ (Malformed(s) => Len(p) > 0)
  <2>1. Malformed(s) => p # <<>>
    BY <1>1, Zenon DEF Malformed
  <2> QED BY <1>1, <2>1
<1>3. PICK m \in 0 .. Len(p) : m = IF Malformed(s) THEN Len(p) - 1 ELSE Len(p)
  BY <1>2, SMTT(60)
<1>4. Callbacks(s) = SubSeq(p, 1, m)
  BY <1>1, <1>3, Zenon DEF Callbacks
<1>5. SubSeq(p, 1, m) \in Seq(Part) /\ Len(SubSeq(p, 1, m)) = m
      /\ \A i \in 1 .. m : SubSeq(p, 1, m)[i] = p[i]
  BY <1>3
<1> QED BY <1>1, <1>3, <1>4, <1>5, Zenon

\* No callback is made for what has to be rejected.
LEMMA InvDelivers == ASSUME ParserInv, StreamInv PROVE DeliversMessages
<1>1. /\ Len(events) \in Nat /\ Len(stream.parts) \in Nat /\ Len(events) <= Len(stream.parts)
      /\ \A i \in 1 .. Len(events) : events[i] = stream.parts[i]
  BY Now, StreamIs, Offsets, Zenon DEF Made, Count
<1>2. ASSUME Malformed(stream), Len(events) = Len(stream.parts) PROVE FALSE
  <2>1. Len(stream.parts) > 0 /\ stream.parts[Len(stream.parts)].ev = "reject"
    BY <1>2, StreamIs DEF Malformed, IsStream
  <2>2. events[Len(events)] \in Event /\ events[Len(events)].ev = "reject"
    BY <1>1, <1>2, <2>1, Offsets
  <2> QED BY <2>2, Zenon DEF Event
<1>3. Len(events) <= Len(Callbacks(stream))
  BY <1>1, <1>2, StreamIs, CallbacksAre
<1>4. \A i \in 1 .. Len(events) : i \in 1 .. Len(Callbacks(stream))
  BY <1>1, <1>3, StreamIs, CallbacksAre
<1> QED BY <1>1, <1>3, <1>4, StreamIs, CallbacksAre, Zenon DEF DeliversMessages

\* All that precedes a part that is rejected has been delivered.
LEMMA InvRejects == ASSUME ParserInv, StreamInv PROVE RejectsOnlyMalformed
<1> SUFFICES ASSUME res = "parse_error" PROVE Malformed(stream) /\ events = Callbacks(stream)
  BY Zenon DEF RejectsOnlyMalformed
<1>1. Len(events) + 1 = Len(stream.parts) /\ stream.parts[Len(events) + 1].ev = "reject"
  BY Zenon DEF StreamInv
<1>2. Len(events) \in Nat /\ events \in Seq(Event)
  BY Offsets, Zenon DEF Count
<1>3. Malformed(stream)
  BY <1>1, <1>2, StreamIs DEF Malformed, IsStream
<1>4. Len(Callbacks(stream)) = Len(events) /\ Callbacks(stream) \in Seq(Part)
  BY <1>1, <1>2, <1>3, StreamIs, CallbacksAre
<1>5. \A i \in 1 .. Len(events) : events[i] = Callbacks(stream)[i]
  BY InvDelivers, Zenon DEF DeliversMessages
<1>6. events = [i \in 1 .. Len(events) |-> events[i]]
  BY <1>2
<1>7. Callbacks(stream) = [i \in 1 .. Len(Callbacks(stream)) |-> Callbacks(stream)[i]]
  BY <1>4
<1>8. events = Callbacks(stream)
  BY <1>4, <1>5, <1>6, <1>7, Zenon
<1> QED BY <1>3, <1>8, Zenon

\* However a stream is cut into reads, cut short, and recycled, the callbacks of
\* _http_parse_message() are the first of those that its messages call for.
THEOREM DeliversEveryStream == ~ BlankLineSplit => (StreamSpec => []DeliversMessages)
<1>1. ParserInv /\ StreamInv => DeliversMessages
  BY InvDelivers, Zenon
<1> QED BY <1>1, PlaceInvariant, PTL

\* _http_parse_message() returns an error only for a part that is malformed, after
\* the callbacks for all that precedes it: no way of reading causes one.
THEOREM RejectsMalformedOnly == ~ BlankLineSplit => (StreamSpec => []RejectsOnlyMalformed)
<1>1. ParserInv /\ StreamInv => RejectsOnlyMalformed
  BY InvRejects, Zenon
<1> QED BY <1>1, PlaceInvariant, PTL

-----------------------------------------------------------------------------
(* The parser implements MessageDelivery, but for its fairness.            *)

\* A step makes no callback, or one, or that on the last byte of a message and the
\* one on its end; after the connection was given up, none.
Calls ==
    \/ \E e : events' = Append(events, e)
    \/ \E e, d : d.ev = "end" /\ events' = Append(Append(events, e), d)

LEMMA BodyCalls ==
    ASSUME NEW c, NEW p, process_body(c, p) PROVE UNCHANGED events \/ Calls
<1>1. CASE ChunkSizeMore(c, p) \/ ChunkSizeBad(c, p) \/ ChunkSize(c, p) \/ ChunkDataMore(c, p)
           \/ BodyMore(c, p)
  BY <1>1, Zenon DEF ChunkSizeMore, ChunkSizeBad, ChunkSize, ChunkDataMore, BodyMore
<1>2. CASE ChunkDone(c, p)
  <2> DEFINE cb == Log("body", c.chunk_start, c.chunk_end, c.bodysz)
             d == [ev |-> "end", from |-> base + p + 2, to |-> base + p + 2, sz |-> c.bodysz]
  <2>1. events' = cb \/ events' = Append(cb, d)
    BY <1>2, Zenon DEF ChunkDone
  <2>2. \E e : cb = Append(events, e)
    BY Zenon DEF Log
  <2>3. d.ev = "end"
    BY Zenon
  <2> HIDE DEF cb, d
  <2> QED BY <2>1, <2>2, <2>3, Zenon DEF Calls
<1>3. CASE BodyDone(c, p)
  <2> DEFINE g == Grown(c, p)
             q == p + (g.body_end - c.body_end)
             cb == Log("body", g.chunk_start, g.chunk_end, g.bodysz)
             d == [ev |-> "end", from |-> base + q, to |-> base + q, sz |-> g.bodysz]
  <2> HIDE DEF g, q
  <2>1. events' = cb \/ events' = Append(cb, d)
    BY <1>3, Zenon DEF BodyDone, g, q
  <2>2. \E e : cb = Append(events, e)
    BY Zenon DEF Log
  <2>3. d.ev = "end"
    BY Zenon
  <2> HIDE DEF cb, d
  <2> QED BY <2>1, <2>2, <2>3, Zenon DEF Calls
<1> QED BY <1>1, <1>2, <1>3, Zenon DEF process_body

LEMMA StepCalls ==
    ASSUME Next
    PROVE  \/ UNCHANGED events /\ (GivenUp => UNCHANGED <<pc, res, ctx>>)
           \/ ~ GivenUp /\ Calls
<1>1. Ready => ~ GivenUp
  BY Zenon DEF Ready, GivenUp
<1>2. CASE Consume \/ ConsumeEof \/ ConsumeError
  BY <1>2, Zenon DEF Consume, ConsumeEof, ConsumeError, GivenUp
<1>3. CASE Start \/ LineMore \/ LineBad \/ HeaderIn \/ HeaderMore \/ HeaderBad
  BY <1>1, <1>3, Zenon DEF Start, LineMore, LineBad, HeaderIn, HeaderMore, HeaderBad
<1>4. CASE Line
  BY <1>1, <1>4, Zenon DEF Line, Log, Calls
<1>5. CASE Header
  BY <1>1, <1>5, Zenon DEF Header, Log, Calls
<1>6. CASE EmptyLine
  <2>1. Ready /\ \E c, p : process_body(c, p)
    BY <1>6, Zenon DEF EmptyLine
  <2> QED BY <1>1, <2>1, BodyCalls, Zenon
<1>7. CASE Body
  BY <1>1, <1>7, BodyCalls, Zenon DEF Body
<1>8. CASE NextMessage \/ Stop
  BY <1>8, Zenon DEF NextMessage, Stop, GivenUp, vars
<1> QED BY <1>2, <1>3, <1>4, <1>5, <1>6, <1>7, <1>8, Zenon DEF Next, Parse

LEMMA DeliveryInit == StreamInit => Delivery!Init
  BY Zenon DEF StreamInit, ParserInit, Delivery!Init, GivenUp

LEMMA DeliveryNext ==
    ASSUME ParserInv, StreamInv, ParserInv', DeliversMessages', [StreamNext]_StreamVars
    PROVE  [Delivery!Next]_(Delivery!dvars)
<1> DEFINE m == Callbacks(stream)
<1>1. SUFFICES Delivery!Next \/ UNCHANGED <<m, events, GivenUp>>
  BY Zenon DEF Delivery!dvars
<1>2. CASE UNCHANGED StreamVars
  BY <1>2, Zenon DEF StreamVars, vars, GivenUp, Astray
<1>3. CASE Next /\ UNCHANGED stream
  <2>1. UNCHANGED m
    BY <1>3, Zenon
  <2>2. GivenUp' \in BOOLEAN /\ GivenUp \in BOOLEAN
    BY Zenon DEF GivenUp
  <2>3. CASE UNCHANGED events /\ (GivenUp => UNCHANGED <<pc, res, ctx>>)
    <3>1. CASE GivenUp
      BY <2>1, <2>3, <3>1, Zenon DEF GivenUp, Astray
    <3>2. CASE ~ GivenUp /\ GivenUp'
      BY <2>1, <2>3, <3>2, Zenon DEF Delivery!Next, Delivery!GiveUp
    <3>3. CASE ~ GivenUp /\ ~ GivenUp'
      BY <2>1, <2>2, <2>3, <3>3, Zenon
    <3> QED BY <3>1, <3>2, <3>3, Zenon
  <2>4. CASE ~ GivenUp /\ Calls
    <3>2. PICK n \in {1, 2} : /\ Len(events') = Len(events) + n
                              /\ n = 2 => events'[Len(events) + 2].ev = "end"
      BY <2>4, Offsets DEF Calls, Count
    <3>3. events' \in Seq(Event) /\ Len(events') \in Nat /\ Len(events) \in Nat
      BY Offsets DEF ParserInv, TypeOK, Count
    <3>4. Len(events') <= Len(m) /\ \A i \in 1 .. Len(events') : events'[i] = m[i]
      BY <2>1, Zenon DEF DeliversMessages
    <3>5. m \in Seq(Part)
      BY StreamIs, CallbacksAre, Zenon
    <3> HIDE DEF m
    <3>6. events' = SubSeq(m, 1, Len(events'))
      <4>1. PICK j \in Nat : j = Len(events')
        BY <3>3, Zenon
      <4>2. SubSeq(m, 1, j) \in Seq(Part) /\ Len(SubSeq(m, 1, j)) = j
            /\ \A i \in 1 .. j : SubSeq(m, 1, j)[i] = m[i]
        BY <3>4, <3>5, <4>1
      <4>3. SubSeq(m, 1, j) = [i \in 1 .. j |-> m[i]]
        BY <4>2
      <4>4. events' = [i \in 1 .. j |-> events'[i]]
        BY <3>3, <4>1
      <4> QED BY <3>4, <4>1, <4>3, <4>4, Zenon
    <3>7. n = 2 => m[Len(events) + 2].ev = "end"
      BY <3>2, <3>3, <3>4
    <3>8. Delivery!Deliver
      BY <2>1, <2>2, <2>4, <3>2, <3>4, <3>6, <3>7, Zenon DEF Delivery!Deliver, m
    <3> QED BY <3>8, Zenon DEF Delivery!Next
  <2> QED BY <1>3, <2>3, <2>4, StepCalls, Zenon
<1> QED BY <1>2, <1>3, Zenon DEF StreamNext

\* The parser makes the callbacks of all messages once and in order until the
\* connection is given up: it implements MessageDelivery without its fairness.
THEOREM ParserDelivers ==
    ~ BlankLineSplit =>
        (StreamSpec => Delivery!Init /\ [][Delivery!Next]_(Delivery!dvars))
<1>1. /\ ParserInv /\ StreamInv /\ ParserInv' /\ DeliversMessages'
      /\ [StreamNext]_StreamVars
      => [Delivery!Next]_(Delivery!dvars)
  BY DeliveryNext, Zenon
<1> QED BY <1>1, PlaceInvariant, DeliversEveryStream, DeliveryInit, PTL DEF StreamSpec
=============================================================================
