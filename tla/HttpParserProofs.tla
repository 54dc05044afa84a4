--------------------------- MODULE HttpParserProofs ---------------------------
(***************************************************************************)
(* Proofs about HttpParser, for every stream of bytes, every way it is cut *)
(* into reads and every block size of the recycled buffer.                 *)
(***************************************************************************)
EXTENDS HttpParser, TLAPS

\* Appending a callback on bytes that have arrived, after those of the last
\* callback, keeps the history of callbacks in order and within the data.
LEMMA AppendEvent ==
    ASSUME NEW evs \in Seq(Event), NEW e \in Event, NEW n \in Int,
           Received(evs, n), InOrder(evs), EndsBy(evs, e.from),
           e.to <= IF e.ev = "end" THEN n + 2 ELSE n
    PROVE  /\ Append(evs, e) \in Seq(Event)
           /\ Received(Append(evs, e), n)
           /\ InOrder(Append(evs, e))
           /\ \A x \in Int : e.to <= x => EndsBy(Append(evs, e), x)
<1> DEFINE s == Append(evs, e)
<1>1. /\ s \in Seq(Event) /\ Len(s) = Len(evs) + 1 /\ Len(evs) \in Nat
      /\ s[Len(evs) + 1] = e
      /\ \A i \in 1 .. Len(evs) : s[i] = evs[i] /\ evs[i] \in Event
  OBVIOUS
<1> HIDE DEF s
<1>2. Received(s, n)
  <2> SUFFICES ASSUME NEW i \in 1 .. Len(s)
               PROVE  s[i].to <= IF s[i].ev = "end" THEN n + 2 ELSE n
    BY Zenon DEF Received
  <2>1. CASE i = Len(evs) + 1
    BY <1>1, <2>1, Zenon
  <2>2. CASE i \in 1 .. Len(evs)
    BY <1>1, <2>2, Zenon DEF Received
  <2> QED BY <1>1, <2>1, <2>2
<1>3. InOrder(s)
  <2> SUFFICES ASSUME NEW i \in 1 .. (Len(s) - 1) PROVE s[i].to <= s[i + 1].from
    BY Zenon DEF InOrder
  <2>1. CASE i = Len(evs)
    BY <1>1, <2>1 DEF EndsBy
  <2>2. CASE i < Len(evs)
    BY <1>1, <2>2, SMTT(60) DEF InOrder
  <2> QED BY <1>1, <2>1, <2>2
<1>4. \A x \in Int : e.to <= x => EndsBy(s, x)
  BY <1>1, Zenon DEF EndsBy
<1> QED BY <1>1, <1>2, <1>3, <1>4, Zenon DEF s

\* More data arriving keeps the history within the data.
LEMMA ReceivedMonotone ==
    ASSUME NEW evs \in Seq(Event), NEW m \in Int, NEW n \in Int,
           m <= n, Received(evs, m)
    PROVE  Received(evs, n)
<1> SUFFICES ASSUME NEW i \in 1 .. Len(evs)
             PROVE  evs[i].to <= IF evs[i].ev = "end" THEN n + 2 ELSE n
  BY Zenon DEF Received
<1>0. evs[i] \in Event
  OBVIOUS
<1>1. evs[i].to \in Int
  BY <1>0, Zenon DEF Event
<1> QED BY <1>1 DEF Received

\* A later bound holds a fortiori.
LEMMA EndsByMonotone ==
    ASSUME NEW evs \in Seq(Event), NEW x \in Int, NEW y \in Int,
           x <= y, EndsBy(evs, x)
    PROVE  EndsBy(evs, y)
<1> SUFFICES ASSUME evs # <<>> PROVE evs[Len(evs)].to <= y
  BY Zenon DEF EndsBy
<1>1. evs[Len(evs)] \in Event
  OBVIOUS
<1>2. evs[Len(evs)].to \in Int
  BY <1>1, Zenon DEF Event
<1> QED BY <1>2 DEF EndsBy

\* A byte that has arrived is a byte.
LEMMA AtType ==
    ASSUME TypeOK, NEW off \in Int, base + off >= 0, off < Eod
    PROVE  At(off) \in Byte
<1>1. base + off + 1 \in 1 .. Len(wire)
  BY DEF TypeOK, Eod
<1> QED BY <1>1 DEF TypeOK, At

\* strtol() of a chunk size yields a natural number.
LEMMA SizesType ==
    ASSUME TypeOK, NEW from \in Int, NEW e \in Int, base + from >= 0, e <= Eod
    PROVE  Sizes(from, e) \subseteq Nat
<1> SUFFICES ASSUME NEW j \in from .. (e - 1) PROVE At(j).n \in Int
  BY DEF Sizes
<1>1. j \in Int /\ base + j >= 0 /\ j < Eod
  BY DEF TypeOK, Eod
<1>2. At(j) \in Byte
  BY <1>1, AtType, Zenon
<1> QED BY <1>2, Zenon DEF Byte

\* recycle_stream_buffer() moves the offsets of the current chunk.
LEMMA RecycleType ==
    ASSUME NEW c \in CtxType, NEW r \in Int
    PROVE  /\ recycle_stream_buffer(c, r) \in CtxType
           /\ recycle_stream_buffer(c, r).chunk_start = c.chunk_start - r
           /\ recycle_stream_buffer(c, r).parser_state = c.parser_state
           /\ recycle_stream_buffer(c, r).chunk_parser_state = c.chunk_parser_state
           /\ recycle_stream_buffer(c, r).flags = c.flags
           /\ recycle_stream_buffer(c, r).bodysz = c.bodysz
<1>1. PICK x \in Int, y \in Int : x = c.chunk_start - r /\ y = c.chunk_end - r
  BY DEF CtxType
<1>z. PICK z \in Int : z = 0
  OBVIOUS
<1> DEFINE d == [c EXCEPT !.first_line = z, !.header_name = z,
                          !.body_start = z, !.body_end = z]
<1>2. d \in CtxType /\ d.parser_state = c.parser_state /\ d.flags = c.flags
      /\ d.chunk_parser_state = c.chunk_parser_state /\ d.bodysz = c.bodysz
  BY Zenon DEF CtxType
<1>3. recycle_stream_buffer(c, r) = [d EXCEPT !.chunk_start = x, !.chunk_end = y]
  BY <1>1, <1>z, Zenon DEF recycle_stream_buffer
<1> HIDE DEF d
<1> QED BY <1>1, <1>2, <1>3, ZenonT(60) DEF CtxType

\* process_body() keeps the invariant, whatever the state of the body is.
LEMMA ProcessBodyInv ==
    ASSUME TypeOK, SeesOnlyReceivedBytes, CallbacksInOrder, res = "none",
           NEW c \in CtxType, NEW p \in Int,
           c.parser_state = "BODY", BodyAgrees(c, p), process_body(c, p)
    PROVE  ParserInv'
<1> USE DEF SeesOnlyReceivedBytes, CallbacksInOrder
<1>0. /\ wire' = wire /\ rcvd' = rcvd
      /\ rcvd \in Int /\ base \in Int /\ Eod \in Int
      /\ events \in Seq(Event)
      /\ c.chunk_start \in Int /\ c.chunk_end \in Int /\ c.body_start \in Int
      /\ c.body_end \in Int /\ c.bodysz \in Int /\ c.chunk_size \in Nat
  BY DEF process_body, TypeOK, CtxType, Eod
<1>1. CASE ChunkSizeMore(c, p)
  <2>1. TypeOK'
    BY <1>0, <1>1, Zenon DEF ChunkSizeMore, TypeOK
  <2>2. Agrees'
    BY <1>0, <1>1, SMTT(60) DEF ChunkSizeMore, Agrees, BodyAgrees, EndsBy
  <2> QED BY <1>0, <1>1, <2>1, <2>2, Zenon DEF ChunkSizeMore, ParserInv
<1>2. CASE ChunkSizeBad(c, p)
  <2>1. TypeOK'
    BY <1>0, <1>2, Zenon DEF ChunkSizeBad, TypeOK, Results
  <2> QED BY <1>0, <1>2, <2>1, Zenon DEF ChunkSizeBad, ParserInv
<1>3. CASE ChunkSize(c, p)
  <2>1. PICK e \in c.chunk_start .. (Eod - 2) : \E n \in Sizes(c.chunk_start, e) :
           /\ FirstCrlf(c.chunk_start, e)
           /\ spos' = e + 2
           /\ ctx' = [c EXCEPT !.chunk_size = n, !.bodysz = @ + n,
                              !.chunk_start = e + 2, !.chunk_end = e + 2,
                              !.chunk_parser_state = "DATA"]
    BY <1>3, Zenon DEF ChunkSize
  <2>2. PICK n \in Sizes(c.chunk_start, e) :
           /\ spos' = e + 2
           /\ ctx' = [c EXCEPT !.chunk_size = n, !.bodysz = @ + n,
                              !.chunk_start = e + 2, !.chunk_end = e + 2,
                              !.chunk_parser_state = "DATA"]
    BY <2>1, Zenon
  <2>3. e \in Int /\ e <= Eod - 2 /\ c.chunk_start <= e /\ base + c.chunk_start >= 1
    BY <1>0 DEF BodyAgrees
  <2>4. n \in Nat
    BY <1>0, <2>3, SizesType, SMTT(60)
  <2>a. PICK m \in Int : m = c.bodysz + n
    BY <1>0, <2>4
  <2>b. PICK x \in Int : x = e + 2
    BY <2>3
  <2>c. ctx' = [c EXCEPT !.chunk_size = n, !.bodysz = m,
                         !.chunk_start = x, !.chunk_end = x,
                         !.chunk_parser_state = "DATA"]
    BY <2>2, <2>a, <2>b, Zenon
  <2>d. c.flags = 1
    BY <1>3, Zenon DEF ChunkSize
  <2>5. /\ ctx' \in CtxType
        /\ ctx'.parser_state = "BODY" /\ ctx'.flags = 1
        /\ ctx'.chunk_start = x /\ ctx'.chunk_end = x
    BY <2>4, <2>c, <2>d, Zenon DEF CtxType
  <2>6. base' = base /\ events' = events /\ res' = res /\ pc' = "loop" /\ Eod' = Eod
    BY <1>0, <1>3, Zenon DEF ChunkSize, Eod
  <2>7. TypeOK'
    BY <1>0, <2>2, <2>3, <2>5, <2>6 DEF TypeOK
  <2>8. EndsBy(events, base + x)
    BY <1>0, <2>3, <2>b, EndsByMonotone, SMTT(60) DEF BodyAgrees
  <2>9. x <= Eod /\ base + x >= 1
    BY <1>0, <2>3, <2>b
  <2>10. spos' = x
    BY <2>2, <2>b, Zenon
  <2>11. Agrees'
    BY <2>5, <2>6, <2>8, <2>9, <2>10 DEF Agrees, BodyAgrees
  <2> QED BY <1>0, <2>6, <2>7, <2>11, Zenon DEF ParserInv
<1>4. CASE ChunkDataMore(c, p)
  <2> DEFINE needed == c.chunk_size - (c.chunk_end - c.chunk_start)
             incr == Smaller(needed, Eod - p)
  <2>1. /\ c.flags = 1 /\ c.chunk_parser_state = "DATA" /\ needed > 0
        /\ ctx' = [c EXCEPT !.chunk_end = @ + incr] /\ spos' = p + incr
        /\ base' = base /\ events' = events /\ res' = res /\ pc' = "loop" /\ Eod' = Eod
    BY <1>0, <1>4, Zenon DEF ChunkDataMore, Eod
  <2>2. needed \in Int /\ c.chunk_end = p /\ c.chunk_start <= p /\ p <= Eod
    BY <1>0, <2>1, SMTT(60) DEF BodyAgrees
  <2>3. incr \in Int /\ 0 <= incr /\ p + incr <= Eod
    BY <1>0, <2>1, <2>2, SMTT(60) DEF Smaller
  <2> HIDE DEF incr, needed
  <2>a. p + incr \in Int /\ ctx' = [c EXCEPT !.chunk_end = p + incr]
    BY <2>1, <2>2, <2>3
  <2>4. /\ ctx' \in CtxType
        /\ ctx'.parser_state = "BODY" /\ ctx'.flags = 1
        /\ ctx'.chunk_start = c.chunk_start /\ ctx'.chunk_end = p + incr
    BY <2>1, <2>a, Zenon DEF CtxType
  <2>5. TypeOK'
    BY <1>0, <2>1, <2>3, <2>4 DEF TypeOK
  <2>6. Agrees'
    BY <1>0, <2>1, <2>2, <2>3, <2>4, SMTT(60) DEF Agrees, BodyAgrees
  <2> QED BY <1>0, <2>1, <2>5, <2>6, Zenon DEF ParserInv
<1>5. CASE ChunkDone(c, p)
  <2> DEFINE body == [ev |-> "body", from |-> base + c.chunk_start,
                      to |-> base + c.chunk_end, sz |-> c.bodysz]
             last == [ev |-> "end", from |-> base + p + 2,
                      to |-> base + p + 2, sz |-> c.bodysz]
             cb == Append(events, body)
  <2>1. c.flags = 1 /\ c.chunk_end = p /\ c.chunk_start <= p /\ p <= Eod
    BY <1>5, Zenon DEF ChunkDone, BodyAgrees
  <2>2. base + c.chunk_start \in Int /\ base + p \in Int /\ base + p + 2 \in Int
        /\ base + p <= rcvd /\ base + c.chunk_start >= 1
    BY <1>0, <2>1 DEF BodyAgrees, Eod
  <2>3. body \in Event /\ last \in Event
    BY <1>0, <2>1, <2>2, Zenon DEF Event
  <2>4. body.from = base + c.chunk_start /\ body.to = base + p /\ body.ev = "body"
        /\ last.from = base + p + 2 /\ last.to = base + p + 2 /\ last.ev = "end"
    BY <2>1, Zenon
  <2> HIDE DEF body, last
  <2>5. EndsBy(events, body.from)
    BY <2>4, Zenon DEF BodyAgrees
  <2>6. /\ cb \in Seq(Event) /\ Received(cb, rcvd) /\ InOrder(cb)
        /\ \A x \in Int : base + p <= x => EndsBy(cb, x)
    <3>1. rcvd \in Int /\ EndsBy(events, body.from)
          /\ body.to <= IF body.ev = "end" THEN rcvd + 2 ELSE rcvd
      BY <1>0, <2>2, <2>4, <2>5, Zenon
    <3>2. /\ Append(events, body) \in Seq(Event) /\ Received(Append(events, body), rcvd)
          /\ InOrder(Append(events, body))
          /\ \A x \in Int : body.to <= x => EndsBy(Append(events, body), x)
      BY <1>0, <2>3, <3>1, AppendEvent, Zenon
    <3> QED BY <2>4, <3>2, Zenon
  <2> HIDE DEF cb
  <2>7. /\ Append(cb, last) \in Seq(Event) /\ Received(Append(cb, last), rcvd)
        /\ InOrder(Append(cb, last))
        /\ \A x \in Int : base + p + 2 <= x => EndsBy(Append(cb, last), x)
    <3>1. rcvd \in Int /\ EndsBy(cb, last.from)
          /\ last.to <= IF last.ev = "end" THEN rcvd + 2 ELSE rcvd
      BY <1>0, <2>2, <2>4, <2>6
    <3>2. /\ Append(cb, last) \in Seq(Event) /\ Received(Append(cb, last), rcvd)
          /\ InOrder(Append(cb, last))
          /\ \A x \in Int : last.to <= x => EndsBy(Append(cb, last), x)
      BY <2>3, <2>6, <3>1, AppendEvent, Zenon
    <3> QED BY <2>4, <3>2, Zenon
  <2>8. CASE events' = cb /\ pc' = "ret" /\ res' = "cb_error"
             /\ ctx' = c /\ spos' = p /\ base' = base
    <3>1. TypeOK'
      BY <1>0, <2>6, <2>8, Zenon DEF TypeOK, Results
    <3> QED BY <1>0, <2>6, <2>8, <3>1, Zenon DEF ParserInv
  <2>9. CASE \E r \in Recycled(p + 2) :
               /\ base' = base + r
               /\ spos' = p + 2 - r
               /\ ctx' = recycle_stream_buffer(
                        [c EXCEPT !.chunk_parser_state = "SIZE",
                                  !.chunk_start = p + 2, !.chunk_end = p + 2], r)
               /\ \/ events' = cb /\ pc' = "loop" /\ res' = res
                  \/ events' = Append(cb, last) /\ pc' = "ret" /\ res' = "ok"
    <3>1. PICK r \in Recycled(p + 2) :
               /\ base' = base + r
               /\ spos' = p + 2 - r
               /\ ctx' = recycle_stream_buffer(
                        [c EXCEPT !.chunk_parser_state = "SIZE",
                                  !.chunk_start = p + 2, !.chunk_end = p + 2], r)
               /\ \/ events' = cb /\ pc' = "loop" /\ res' = res
                  \/ events' = Append(cb, last) /\ pc' = "ret" /\ res' = "ok"
      BY <2>9, Zenon
    <3>2. r \in Nat /\ r <= Eod
      BY DEF Recycled
    <3>3. base' = base + r /\ spos' = p + 2 - r
      BY <3>1, Zenon
    <3>4. PICK x \in Int : x = p + 2
      OBVIOUS
    <3> DEFINE d == [c EXCEPT !.chunk_parser_state = "SIZE",
                              !.chunk_start = x, !.chunk_end = x]
    <3>5. d \in CtxType /\ d.chunk_start = x /\ d.parser_state = "BODY"
          /\ d.flags = 1 /\ d.chunk_parser_state = "SIZE"
      BY <2>1, Zenon DEF CtxType
    <3>6. ctx' = recycle_stream_buffer(d, r)
      BY <3>1, <3>4, Zenon
    <3> HIDE DEF d
    <3>7. /\ ctx' \in CtxType
          /\ ctx'.parser_state = "BODY" /\ ctx'.flags = 1
          /\ ctx'.chunk_parser_state = "SIZE" /\ ctx'.chunk_start = x - r
      <4>1. /\ recycle_stream_buffer(d, r) \in CtxType
            /\ recycle_stream_buffer(d, r).parser_state = d.parser_state
            /\ recycle_stream_buffer(d, r).flags = d.flags
            /\ recycle_stream_buffer(d, r).chunk_parser_state = d.chunk_parser_state
            /\ recycle_stream_buffer(d, r).chunk_start = d.chunk_start - r
        <5>1. r \in Int /\ d \in CtxType
          BY <3>2, <3>5
        <5> QED BY <5>1, RecycleType, Zenon
      <4> QED BY <3>5, <3>6, <4>1, Zenon
    <3>8. /\ base' \in 0 .. rcvd' /\ spos' \in Int /\ ctx'.chunk_start = spos'
          /\ base' + spos' = base + p + 2 /\ base' + spos' >= 1 /\ base' + spos' >= 0
      BY <1>0, <2>1, <2>2, <3>2, <3>3, <3>4, <3>7, SMTT(60) DEF TypeOK, Eod
    <3>9. /\ events' \in Seq(Event) /\ Received(events', rcvd) /\ InOrder(events')
          /\ EndsBy(events', base + p + 2)
      <4>1. CASE events' = cb
        <5>1. base + p <= base + p + 2
          BY <2>2
        <5> QED BY <2>2, <2>6, <4>1, <5>1, Zenon
      <4>2. CASE events' = Append(cb, last)
        BY <2>2, <2>7, <4>2
      <4> QED BY <3>1, <4>1, <4>2, Zenon
    <3>10. pc' \in {"loop", "ret"} /\ (pc' = "ret" <=> res' # "none") /\ res' \in Results
      BY <3>1, Zenon DEF Results
    <3>11. TypeOK'
      BY <1>0, <3>7, <3>8, <3>9, <3>10, Zenon DEF TypeOK
    <3>12. EndsBy(events', base' + spos')
      BY <3>8, <3>9, Zenon
    <3>13. Agrees'
      <4>1. base' + ctx'.chunk_start >= 1 /\ EndsBy(events', base' + ctx'.chunk_start)
        BY <3>8, <3>12, Zenon
      <4> QED BY <3>7, <4>1 DEF Agrees, BodyAgrees
    <3>14. base' + spos' >= 0
      BY <3>8, Zenon
    <3>15. SeesOnlyReceivedBytes' /\ CallbacksInOrder'
      BY <1>0, <3>9, Zenon
    <3> HIDE DEF SeesOnlyReceivedBytes, CallbacksInOrder
    <3> QED BY <3>10, <3>11, <3>12, <3>13, <3>14, <3>15, Zenon DEF ParserInv
  <2> QED BY <1>5, <2>8, <2>9, SMTT(60) DEF ChunkDone, Log, body, last, cb
<1>6. CASE BodyMore(c, p)
  <2> DEFINE incr == Smaller(Eod - p, c.bodysz - (c.body_end - c.body_start))
  <2>1. c.flags = 0 /\ c.body_end = p /\ c.chunk_start = c.body_start
    BY <1>6, Zenon DEF BodyMore, BodyAgrees
  <2>2. PICK x \in Int : x = p + incr
    BY <1>0, SMTT(60) DEF Smaller
  <2> HIDE DEF incr
  <2>3. Grown(c, p) = [c EXCEPT !.body_end = x, !.chunk_end = x]
    BY <2>1, <2>2, Zenon DEF Grown, incr
  <2>4. Grown(c, p) \in CtxType /\ Grown(c, p).body_end = x
        /\ Grown(c, p).flags = 0 /\ Grown(c, p).parser_state = "BODY"
        /\ Grown(c, p).chunk_start = c.chunk_start /\ Grown(c, p).body_start = c.body_start
    BY <2>1, <2>3, ZenonT(60) DEF CtxType
  <2>5. ctx' = Grown(c, p) /\ spos' = p + (Grown(c, p).body_end - c.body_end)
        /\ base' = base /\ events' = events /\ res' = res /\ pc' = "loop"
    BY <1>6, Zenon DEF BodyMore
  <2>6. spos' = x
    BY <2>1, <2>4, <2>5
  <2>7. TypeOK'
    BY <1>0, <2>4, <2>5, <2>6, Zenon DEF TypeOK
  <2>8. Agrees'
    BY <2>1, <2>4, <2>5, <2>6 DEF Agrees, BodyAgrees
  <2> QED BY <1>0, <2>5, <2>7, <2>8, Zenon DEF ParserInv
<1>7. CASE BodyDone(c, p)
  <2> DEFINE incr == Smaller(Eod - p, c.bodysz - (c.body_end - c.body_start))
             g == Grown(c, p)
             q == p + (g.body_end - c.body_end)
  <2>1. c.flags = 0 /\ c.body_end = p /\ c.chunk_start = c.body_start
    BY <1>7, Zenon DEF BodyDone, BodyAgrees
  <2>2. PICK x \in Int : x = p + incr
    BY <1>0, SMTT(60) DEF Smaller
  <2>3. x <= Eod
    BY <1>0, <2>2, SMTT(60) DEF Smaller
  <2> HIDE DEF incr
  <2>4. g = [c EXCEPT !.body_end = x, !.chunk_end = x]
    BY <2>1, <2>2, Zenon DEF Grown, incr
  <2>5. g \in CtxType /\ g.body_end = x /\ g.chunk_end = x /\ g.bodysz = c.bodysz
        /\ g.chunk_start = c.chunk_start /\ g.body_start = c.chunk_start /\ g.flags = 0
    BY <2>1, <2>4, ZenonT(60) DEF CtxType
  <2>6. x - c.chunk_start >= c.bodysz
    BY <1>7, <2>5, Zenon DEF BodyDone
  <2>7. q = x
    BY <2>1, <2>5
  <2> HIDE DEF g, q
  <2> DEFINE body == [ev |-> "body", from |-> base + c.chunk_start,
                      to |-> base + x, sz |-> c.bodysz]
             last == [ev |-> "end", from |-> base + x,
                      to |-> base + x, sz |-> c.bodysz]
             cb == Append(events, body)
  <2>8. base + c.chunk_start \in Int /\ base + x \in Int
        /\ base + x <= rcvd /\ base + x <= rcvd + 2
    BY <1>0, <2>3 DEF Eod
  <2>9. c.bodysz < -1 \/ base + x >= 0
    BY <1>0, <2>6, SMTT(60) DEF BodyAgrees
  <2>10. body \in Event /\ last \in Event
    BY <1>0, <2>8, Zenon DEF Event
  <2>11. body.from = base + c.chunk_start /\ body.to = base + x /\ body.ev = "body"
         /\ last.from = base + x /\ last.to = base + x /\ last.ev = "end"
    BY Zenon
  <2> HIDE DEF body, last
  <2>12. EndsBy(events, body.from)
    BY <2>11, Zenon DEF BodyAgrees
  <2>13. /\ cb \in Seq(Event) /\ Received(cb, rcvd) /\ InOrder(cb)
         /\ \A y \in Int : base + x <= y => EndsBy(cb, y)
    <3>1. rcvd \in Int /\ EndsBy(events, body.from)
          /\ body.to <= IF body.ev = "end" THEN rcvd + 2 ELSE rcvd
      BY <1>0, <2>8, <2>11, <2>12, Zenon
    <3>2. /\ Append(events, body) \in Seq(Event) /\ Received(Append(events, body), rcvd)
          /\ InOrder(Append(events, body))
          /\ \A y \in Int : body.to <= y => EndsBy(Append(events, body), y)
      BY <1>0, <2>10, <3>1, AppendEvent, Zenon
    <3> QED BY <2>11, <3>2, Zenon
  <2> HIDE DEF cb
  <2>14. /\ Append(cb, last) \in Seq(Event) /\ Received(Append(cb, last), rcvd)
         /\ InOrder(Append(cb, last))
         /\ \A y \in Int : base + x <= y => EndsBy(Append(cb, last), y)
    <3>1. rcvd \in Int /\ EndsBy(cb, last.from)
          /\ last.to <= IF last.ev = "end" THEN rcvd + 2 ELSE rcvd
      BY <1>0, <2>8, <2>11, <2>13
    <3>2. /\ Append(cb, last) \in Seq(Event) /\ Received(Append(cb, last), rcvd)
          /\ InOrder(Append(cb, last))
          /\ \A y \in Int : last.to <= y => EndsBy(Append(cb, last), y)
      BY <2>10, <2>13, <3>1, AppendEvent, Zenon
    <3> QED BY <2>11, <3>2, Zenon
  <2>15. CASE events' = cb /\ pc' = "ret" /\ res' = "cb_error"
              /\ ctx' = g /\ spos' = x /\ base' = base
    <3>1. TypeOK'
      BY <1>0, <2>5, <2>13, <2>15, Zenon DEF TypeOK, Results
    <3> QED BY <1>0, <2>13, <2>15, <3>1, Zenon DEF ParserInv
  <2>16. CASE \E r \in Recycled(g.chunk_start) :
               /\ base' = base + r
               /\ spos' = x - r
               /\ ctx' = recycle_stream_buffer(g, r)
               /\ events' = Append(cb, last) /\ pc' = "ret" /\ res' = "ok"
    <3>1. PICK r \in Recycled(g.chunk_start) :
               /\ base' = base + r
               /\ spos' = x - r
               /\ ctx' = recycle_stream_buffer(g, r)
               /\ events' = Append(cb, last) /\ pc' = "ret" /\ res' = "ok"
      BY <2>16, Zenon
    <3>2. r \in Nat /\ r <= Eod /\ r \in Int
      BY DEF Recycled
    <3>3. ctx' \in CtxType /\ ctx'.flags = 0 /\ ctx'.bodysz = c.bodysz
      BY <2>5, <3>1, <3>2, RecycleType, Zenon
    <3>4. base' \in 0 .. rcvd' /\ spos' \in Int /\ base' + spos' = base + x
      BY <1>0, <3>1, <3>2 DEF TypeOK, Eod
    <3>5. TypeOK'
      BY <1>0, <2>14, <3>1, <3>3, <3>4, Zenon DEF TypeOK, Results
    <3>6. EndsBy(events', base' + spos') /\ (Astray' \/ base' + spos' >= 0)
      <4>1. EndsBy(events', base' + spos')
        BY <2>8, <2>14, <3>1, <3>4, SMTT(60)
      <4>2. c.bodysz < -1 => Astray'
        BY <3>1, <3>3, Zenon DEF Astray
      <4> QED BY <2>9, <3>4, <4>1, <4>2, Zenon
    <3>7. SeesOnlyReceivedBytes' /\ CallbacksInOrder'
      BY <1>0, <2>14, <3>1, Zenon
    <3> HIDE DEF SeesOnlyReceivedBytes, CallbacksInOrder
    <3> QED BY <3>1, <3>5, <3>6, <3>7, Zenon DEF ParserInv
  <2>17. /\ Log("body", g.chunk_start, g.chunk_end, g.bodysz) = cb
         /\ [ev |-> "end", from |-> base + q, to |-> base + q, sz |-> g.bodysz] = last
    BY <2>5, <2>7, Zenon DEF Log, cb, body, last
  <2> QED BY <1>7, <2>7, <2>15, <2>16, <2>17, Zenon DEF BodyDone, g, q
<1> QED BY <1>1, <1>2, <1>3, <1>4, <1>5, <1>6, <1>7, Zenon DEF process_body

-----------------------------------------------------------------------------
\* The invariant holds before the first read.
LEMMA ParserStarts == ASSUME ParserInit, wire \in Seq(Byte) PROVE ParserInv
<1>1. events = <<>> /\ rcvd = 0 /\ base = 0 /\ spos = 0
      /\ ctx = CtxInit /\ pc = "loop" /\ res = "none"
  BY Zenon DEF ParserInit
<1>2. CtxInit \in CtxType /\ CtxInit.parser_state = "START"
      /\ CtxInit.chunk_parser_state = "UNDEF"
  BY DEF CtxInit, CtxType
<1>3. TypeOK
  BY <1>1, <1>2 DEF TypeOK, Results
<1>4. Received(events, rcvd) /\ InOrder(events) /\ EndsBy(events, base + Mark)
  BY <1>1 DEF Received, InOrder, EndsBy
<1>5. Agrees
  BY <1>1, <1>2, <1>4 DEF Agrees, Mark
<1> QED BY <1>1, <1>3, <1>4, <1>5, Zenon DEF ParserInv, SeesOnlyReceivedBytes, CallbacksInOrder

LEMMA InvInit == Init => ParserInv
  BY ParserStarts, ParserAssumption, Zenon DEF Init

\* A start line or a header field that was found lies within the data.
LEMMA CrlfBounds ==
    ASSUME TypeOK, NEW from \in Int, NEW e, FirstCrlf(from, e)
    PROVE  e \in Int /\ from <= e /\ e <= Eod - 2 /\ base + e <= rcvd
<1> QED BY DEF TypeOK, FirstCrlf, Eod

\* A callback on the bytes between two offsets, the first of which no callback
\* has reached, keeps the history in order.
LEMMA LogInv ==
    ASSUME TypeOK, SeesOnlyReceivedBytes, CallbacksInOrder,
           NEW ev \in {"line", "header"}, NEW from \in Int, NEW e \in Int,
           EndsBy(events, base + from), base + e <= rcvd
    PROVE  /\ Log(ev, from, e, 0) \in Seq(Event)
           /\ Received(Log(ev, from, e, 0), rcvd)
           /\ InOrder(Log(ev, from, e, 0))
           /\ EndsBy(Log(ev, from, e, 0), base + (e + 2))
<1> DEFINE x == [ev |-> ev, from |-> base + from, to |-> base + e, sz |-> 0]
<1>1. base + from \in Int /\ base + e \in Int /\ base + (e + 2) \in Int
      /\ base + e <= base + (e + 2) /\ rcvd \in Int /\ events \in Seq(Event)
  BY DEF TypeOK
<1>2. x \in Event /\ x.from = base + from /\ x.to = base + e /\ x.ev = ev
  BY <1>1 DEF Event
<1> HIDE DEF x
<1>3. ev # "end"
  BY Zenon
<1>4. /\ Append(events, x) \in Seq(Event) /\ Received(Append(events, x), rcvd)
      /\ InOrder(Append(events, x))
      /\ \A y \in Int : x.to <= y => EndsBy(Append(events, x), y)
  BY <1>1, <1>2, <1>3, AppendEvent, Zenon DEF SeesOnlyReceivedBytes, CallbacksInOrder
<1> QED BY <1>1, <1>2, <1>4, Zenon DEF Log, x

\* Every step of the parser keeps the invariant.
LEMMA InvNext == ParserInv /\ [Next]_vars => ParserInv'
<1> SUFFICES ASSUME ParserInv, [Next]_vars PROVE ParserInv'
  BY Zenon
<1>0. /\ TypeOK /\ SeesOnlyReceivedBytes /\ CallbacksInOrder
      /\ (pc # "ret" => Agrees) /\ (pc = "ret" <=> res # "none")
  BY Zenon DEF ParserInv
<1>a. /\ rcvd \in Int /\ base \in Int /\ spos \in Int /\ Eod \in Int
      /\ ctx \in CtxType /\ events \in Seq(Event)
      /\ ctx.first_line \in Int /\ ctx.header_name \in Int
  BY <1>0 DEF TypeOK, Eod, CtxType
<1>1. CASE Consume
  <2>1. PICK n \in 1 .. (Len(wire) - rcvd) : rcvd' = rcvd + n
    BY <1>1, Zenon DEF Consume
  <2>2. pc # "ret" /\ pc' = "step" /\ UNCHANGED <<wire, base, spos, ctx, res, events>>
    BY <1>1, Zenon DEF Consume
  <2>3. rcvd' \in 0 .. Len(wire) /\ rcvd <= rcvd' /\ rcvd' \in Int /\ base \in 0 .. rcvd'
    BY <1>0, <2>1 DEF TypeOK
  <2>4. TypeOK'
    BY <1>0, <2>2, <2>3, Zenon DEF TypeOK
  <2>5. SeesOnlyReceivedBytes' /\ CallbacksInOrder'
    BY <1>0, <1>a, <2>2, <2>3, ReceivedMonotone, Zenon DEF SeesOnlyReceivedBytes, CallbacksInOrder
  <2>6. Eod' \in Int /\ Eod <= Eod'
    <3>1. Eod' = (rcvd + n) - base /\ Eod = rcvd - base
      BY <2>1, <2>2, Zenon DEF Eod
    <3>2. n \in Int /\ n >= 1
      BY <1>0 DEF TypeOK
    <3> QED BY <1>a, <3>1, <3>2
  <2>7. Mark' = Mark
    BY <2>2, Zenon DEF Mark
  <2>8. Agrees'
    BY <1>0, <1>a, <2>2, <2>6, <2>7 DEF Agrees, BodyAgrees
  <2> QED BY <1>0, <2>2, <2>4, <2>5, <2>8, Zenon DEF ParserInv
<1>2. CASE ConsumeEof \/ ConsumeError
  BY <1>0, <1>2, Zenon DEF ConsumeEof, ConsumeError, ParserInv, TypeOK, Results,
                    SeesOnlyReceivedBytes, CallbacksInOrder
<1>b. ASSUME Ready PROVE pc # "ret" /\ res = "none" /\ Agrees
  BY <1>0, <1>b, Zenon DEF Ready
<1>3. CASE Start
  <2>1. Ready /\ ctx.parser_state = "START" /\ pc' = "loop"
        /\ ctx' = [ctx EXCEPT !.first_line = spos, !.parser_state = "LINE"]
        /\ UNCHANGED <<wire, rcvd, base, spos, res, events>>
    BY <1>3, Zenon DEF Start
  <2>2. ctx' \in CtxType /\ ctx'.parser_state = "LINE" /\ ctx'.first_line = spos
        /\ ctx'.chunk_parser_state = ctx.chunk_parser_state
    BY <1>a, <2>1, Zenon DEF CtxType
  <2>3. Mark = spos /\ Mark' = spos
    BY <2>1, <2>2, Zenon DEF Mark
  <2>4. TypeOK'
    BY <1>0, <2>1, <2>2, Zenon DEF TypeOK
  <2>5. Agrees'
    BY <1>b, <2>1, <2>2, <2>3, Zenon DEF Agrees
  <2> QED BY <1>0, <1>b, <2>1, <2>4, <2>5, Zenon
          DEF ParserInv, SeesOnlyReceivedBytes, CallbacksInOrder
<1>4. CASE LineMore \/ HeaderMore
  <2>1. Ready /\ ctx.parser_state \in {"LINE", "HEADER_OUT"} /\ pc' = "loop"
        /\ spos' = Eod /\ UNCHANGED <<wire, rcvd, base, ctx, res, events>>
    BY <1>4, Zenon DEF LineMore, HeaderMore
  <2>2. Mark' = Mark
    BY <2>1, Zenon DEF Mark
  <2>3. TypeOK'
    BY <1>0, <1>a, <2>1, Zenon DEF TypeOK
  <2>4. Eod' = Eod
    BY <2>1, Zenon DEF Eod
  <2>5. Agrees'
    BY <1>a, <1>b, <2>1, <2>2, <2>4, Zenon DEF Agrees
  <2> QED BY <1>0, <1>b, <2>1, <2>3, <2>5, Zenon
          DEF ParserInv, SeesOnlyReceivedBytes, CallbacksInOrder
<1>5. CASE LineBad \/ HeaderBad
  <2>1. Ready /\ pc' = "ret" /\ res' = "parse_error"
        /\ UNCHANGED <<wire, rcvd, base, spos, ctx, events>>
    BY <1>5, Zenon DEF LineBad, HeaderBad
  <2>2. TypeOK'
    BY <1>0, <2>1, Zenon DEF TypeOK, Results
  <2> QED BY <1>0, <2>1, <2>2, Zenon DEF ParserInv, SeesOnlyReceivedBytes, CallbacksInOrder
<1>6. CASE Line
  <2>1. PICK e \in ctx.first_line .. (Eod - 2) :
          /\ FirstCrlf(ctx.first_line, e)
          /\ spos' = e + 2
          /\ events' = Log("line", ctx.first_line, e, 0)
    BY <1>6, Zenon DEF Line
  <2>a. \/ pc' = "loop" /\ res' = res
        \/ pc' = "ret" /\ res' = "cb_error"
    BY <1>6, Zenon DEF Line
  <2>2. Ready /\ ctx.parser_state = "LINE"
        /\ ctx' = [ctx EXCEPT !.parser_state = "HEADER_IN"]
        /\ UNCHANGED <<wire, rcvd, base>>
    BY <1>6, Zenon DEF Line
  <2>3. Agrees /\ res = "none" /\ Mark = ctx.first_line
    BY <1>b, <2>2, Zenon DEF Mark
  <2>4. EndsBy(events, base + ctx.first_line) /\ base + ctx.first_line >= 0
        /\ ctx.chunk_parser_state # "DATA"
    BY <2>2, <2>3, Zenon DEF Agrees
  <2>5. e \in Int /\ ctx.first_line <= e /\ e <= Eod - 2 /\ base + e <= rcvd
    BY <1>0, <1>a, <2>1, CrlfBounds, Zenon
  <2>6. /\ events' \in Seq(Event) /\ Received(events', rcvd) /\ InOrder(events')
        /\ EndsBy(events', base + (e + 2))
    BY <1>0, <1>a, <2>1, <2>4, <2>5, LogInv, Zenon
  <2>7. ctx' \in CtxType /\ ctx'.parser_state = "HEADER_IN"
        /\ ctx'.chunk_parser_state = ctx.chunk_parser_state
    BY <1>a, <2>2, Zenon DEF CtxType
  <2>8. e + 2 \in Int /\ e + 2 <= Eod /\ base + (e + 2) >= 0
    BY <1>a, <2>4, <2>5
  <2>b. spos' = e + 2 /\ Mark' = e + 2
    BY <2>1, <2>7, Zenon DEF Mark
  <2>9. TypeOK'
    BY <1>0, <2>a, <2>b, <2>2, <2>3, <2>6, <2>7, <2>8, SMTT(60) DEF TypeOK, Results
  <2>10. Eod' = Eod
    BY <2>2, Zenon DEF Eod
  <2>11. Agrees'
    BY <2>b, <2>2, <2>4, <2>6, <2>7, <2>8, <2>10, Zenon DEF Agrees
  <2> QED BY <2>a, <2>2, <2>3, <2>6, <2>9, <2>11, Zenon
          DEF ParserInv, SeesOnlyReceivedBytes, CallbacksInOrder
<1>7. CASE HeaderIn
  <2>1. Ready /\ ctx.parser_state = "HEADER_IN" /\ pc' = "loop"
        /\ ctx' = [ctx EXCEPT !.header_name = spos, !.parser_state = "HEADER_OUT"]
        /\ UNCHANGED <<wire, rcvd, base, spos, res, events>>
    BY <1>7, Zenon DEF HeaderIn
  <2>2. ctx' \in CtxType /\ ctx'.parser_state = "HEADER_OUT" /\ ctx'.header_name = spos
        /\ ctx'.chunk_parser_state = ctx.chunk_parser_state
    BY <1>a, <2>1, Zenon DEF CtxType
  <2>3. Mark = spos /\ Mark' = spos /\ Eod' = Eod
    BY <2>1, <2>2, Zenon DEF Mark, Eod
  <2>4. TypeOK'
    BY <1>0, <2>1, <2>2, Zenon DEF TypeOK
  <2>5. Agrees'
    BY <1>a, <1>b, <2>1, <2>2, <2>3 DEF Agrees
  <2> QED BY <1>0, <1>b, <2>1, <2>4, <2>5, Zenon
          DEF ParserInv, SeesOnlyReceivedBytes, CallbacksInOrder
<1>8. CASE Header
  <2>1. Ready /\ ctx.parser_state = "HEADER_OUT" /\ UNCHANGED <<wire, rcvd, base>>
    BY <1>8, Zenon DEF Header
  <2> DEFINE c == process_header(ctx, At(ctx.header_name))
  <2>2. PICK e \in (ctx.header_name + 1) .. (Eod - 2) :
          /\ FirstCrlf(ctx.header_name, e)
          /\ events' = Log("header", ctx.header_name, e, 0)
          /\ \/ /\ ctx' = [c EXCEPT !.parser_state = "HEADER_IN"]
                /\ spos' = e + 2
                /\ pc' = "loop" /\ res' = res
             \/ /\ ctx' = c
                /\ pc' = "ret" /\ res' = "cb_error" /\ spos' = spos
    BY <1>8, Zenon DEF Header
  <2>3. Agrees /\ res = "none" /\ Mark = ctx.header_name
    BY <1>b, <2>1, Zenon DEF Mark
  <2>4. EndsBy(events, base + ctx.header_name) /\ base + ctx.header_name >= 0
        /\ ctx.chunk_parser_state # "DATA"
    BY <2>1, <2>3, Zenon DEF Agrees
  <2>5. e \in Int /\ ctx.header_name <= e /\ e <= Eod - 2 /\ base + e <= rcvd
    BY <1>0, <1>a, <2>2, CrlfBounds, Zenon
  <2>6. /\ events' \in Seq(Event) /\ Received(events', rcvd) /\ InOrder(events')
        /\ EndsBy(events', base + (e + 2))
    BY <1>0, <1>a, <2>2, <2>4, <2>5, LogInv, SMTT(60)
  <2>7. At(ctx.header_name) \in Byte
    BY <1>0, <1>a, <2>4, <2>5, AtType
  <2>8. c \in CtxType /\ c.chunk_parser_state # "DATA"
    <3>1. At(ctx.header_name).n \in Int
      BY <2>7, Zenon DEF Byte
    <3>2. 0 \in Int
      OBVIOUS
    <3> QED BY <1>a, <2>4, <3>1, <3>2, Zenon DEF process_header, CtxType
  <2> HIDE DEF c
  <2>9. e + 2 \in Int /\ e + 2 <= Eod /\ base + (e + 2) >= 0
    BY <1>a, <2>4, <2>5
  <2>10. CASE /\ ctx' = [c EXCEPT !.parser_state = "HEADER_IN"]
              /\ spos' = e + 2 /\ pc' = "loop" /\ res' = res
    <3>1. ctx' \in CtxType /\ ctx'.parser_state = "HEADER_IN"
          /\ ctx'.chunk_parser_state = c.chunk_parser_state
      BY <2>8, <2>10, Zenon DEF CtxType
    <3>2. Mark' = e + 2 /\ Eod' = Eod
      BY <2>1, <2>10, <3>1, Zenon DEF Mark, Eod
    <3>3. TypeOK'
      BY <1>0, <2>1, <2>6, <2>9, <2>10, <3>1, Zenon DEF TypeOK
    <3>4. Agrees'
      BY <2>1, <2>6, <2>8, <2>9, <2>10, <3>1, <3>2, Zenon DEF Agrees
    <3> QED BY <2>1, <2>3, <2>6, <2>10, <3>3, <3>4, Zenon
            DEF ParserInv, SeesOnlyReceivedBytes, CallbacksInOrder
  <2>11. CASE ctx' = c /\ pc' = "ret" /\ res' = "cb_error" /\ spos' = spos
    <3>1. TypeOK'
      BY <1>0, <2>1, <2>6, <2>8, <2>11, Zenon DEF TypeOK, Results
    <3> QED BY <2>1, <2>6, <2>11, <3>1, Zenon
            DEF ParserInv, SeesOnlyReceivedBytes, CallbacksInOrder
  <2> QED BY <2>2, <2>10, <2>11, Zenon
<1>9. CASE EmptyLine
  <2>1. PICK p \in Int : p = spos + 2
    BY <1>a
  <2>2. PICK c : c = [ctx EXCEPT !.body_start = p, !.body_end = p,
                                 !.chunk_start = p, !.chunk_end = p,
                                 !.parser_state = "BODY"]
    BY Zenon
  <2>3. Ready /\ ctx.parser_state = "HEADER_OUT"
    BY <1>9, Zenon DEF EmptyLine
  <2>4. process_body(c, p)
    BY <1>9, <2>1, <2>2, Zenon DEF EmptyLine
  <2>5. /\ c \in CtxType /\ c.parser_state = "BODY"
        /\ c.chunk_start = p /\ c.body_start = p /\ c.body_end = p
        /\ c.chunk_parser_state = ctx.chunk_parser_state
    BY <1>a, <2>2, Zenon DEF CtxType
  <2>6. Agrees /\ res = "none" /\ Mark = ctx.header_name
    BY <1>b, <2>3, Zenon DEF Mark
  <2>7. EndsBy(events, base + ctx.header_name) /\ base + ctx.header_name >= 0
        /\ ctx.chunk_parser_state # "DATA" /\ ctx.header_name <= spos
    BY <2>3, <2>6, Zenon DEF Agrees
  <2>8. base + ctx.header_name <= base + p /\ base + p >= 1
        /\ base + p \in Int /\ base + ctx.header_name \in Int
    BY <1>a, <2>1, <2>7
  <2>9. EndsBy(events, base + p)
    BY <1>a, <2>7, <2>8, EndsByMonotone, Zenon
  <2>10. BodyAgrees(c, p)
    BY <2>5, <2>7, <2>8, <2>9, Zenon DEF BodyAgrees
  <2> QED BY <1>0, <2>4, <2>5, <2>6, <2>10, ProcessBodyInv, Zenon
<1>10. CASE Body
  <2>1. PICK p \in Int, c \in CtxType : p = spos /\ c = ctx
    BY <1>a, Zenon
  <2>2. Ready /\ c.parser_state = "BODY" /\ process_body(c, p)
    BY <1>10, <2>1, Zenon DEF Body
  <2>3. res = "none" /\ BodyAgrees(c, p)
    BY <1>b, <2>1, <2>2, Zenon DEF Agrees
  <2> QED BY <1>0, <2>2, <2>3, ProcessBodyInv, Zenon
<1>11. CASE NextMessage
  <2>1. pc = "ret" /\ res = "ok" /\ ~ Astray /\ ctx' = CtxInit /\ pc' = "loop" /\ res' = "none"
        /\ UNCHANGED <<wire, rcvd, base, spos, events>>
    BY <1>11, Zenon DEF NextMessage
  <2>2. base + spos >= 0 /\ EndsBy(events, base + spos)
    BY <2>1, Zenon DEF ParserInv
  <2>3. CtxInit \in CtxType /\ CtxInit.parser_state = "START"
        /\ CtxInit.chunk_parser_state = "UNDEF"
    BY DEF CtxInit, CtxType
  <2>4. TypeOK'
    BY <1>0, <2>1, <2>3, Zenon DEF TypeOK, Results
  <2>5. Mark' = spos
    BY <2>1, <2>3, Zenon DEF Mark
  <2>6. Agrees'
    BY <2>1, <2>2, <2>3, <2>5, Zenon DEF Agrees
  <2> QED BY <1>0, <2>1, <2>4, <2>6, Zenon DEF ParserInv, SeesOnlyReceivedBytes, CallbacksInOrder
<1>12. CASE Stop \/ UNCHANGED vars
  <2>1. UNCHANGED vars
    BY <1>12, Zenon DEF Stop
  <2>2. TypeOK' /\ SeesOnlyReceivedBytes' /\ CallbacksInOrder'
    BY <1>0, <2>1, Zenon DEF vars, TypeOK, SeesOnlyReceivedBytes, CallbacksInOrder
  <2>3. Agrees' <=> Agrees
    BY <2>1, Zenon DEF vars, Agrees, BodyAgrees, Mark, Eod
  <2> QED BY <2>1, <2>2, <2>3, Zenon DEF ParserInv, vars, Astray
<1> QED BY <1>1, <1>2, <1>3, <1>4, <1>5, <1>6, <1>7, <1>8, <1>9, <1>10, <1>11, <1>12, Zenon
        DEF Next, Parse

-----------------------------------------------------------------------------
\* The inductive invariant of the parser holds in every reachable state.
THEOREM ParserInvariant == Spec => []ParserInv
<1> QED BY InvInit, InvNext, PTL DEF Spec

\* No callback of _http_parse_message() is given bytes that have not arrived,
\* for any stream of bytes and any way of reading it.
THEOREM SeesOnlyReceived == Spec => []SeesOnlyReceivedBytes
<1>1. ParserInv => SeesOnlyReceivedBytes
  BY Zenon DEF ParserInv
<1> QED BY <1>1, ParserInvariant, PTL

\* The callbacks of _http_parse_message() see the stream front to back without
\* overlap, for any stream of bytes, any way of reading it and any recycling.
THEOREM InStreamOrder == Spec => []CallbacksInOrder
<1>1. ParserInv => CallbacksInOrder
  BY Zenon DEF ParserInv
<1> QED BY <1>1, ParserInvariant, PTL

\* The parser's variables keep their types.
THEOREM ParserTypes == Spec => []TypeOK
<1>1. ParserInv => TypeOK
  BY Zenon DEF ParserInv
<1> QED BY <1>1, ParserInvariant, PTL
-----------------------------------------------------------------------------
(* The stream position and the end of a message.                           *)

\* Where process_body() may stand: past the blank line, and behind the start of a
\* body with a length by no more than the two bytes that blank line has.
BodyCursor(c, p) ==
    /\ p >= 0 /\ p <= Eod + 2
    /\ c.chunk_start >= 0 /\ c.chunk_start <= Eod + 2
    /\ c.flags = 0 => c.chunk_start >= 2

\* The bounds of the stream position that CursorInBuffer needs, state by state.
CursorInv ==
    /\ spos <= Eod + 2
    /\ spos >= 0 \/ BackByLength
    /\ res = "ok" /\ ~ Astray => spos >= -1
    /\ pc # "ret" =>
          /\ ctx.parser_state = "START" => spos >= -1
          /\ ctx.parser_state = "LINE" => ctx.first_line >= -1
          /\ ctx.parser_state = "HEADER_IN" => spos >= 0
          /\ ctx.parser_state = "HEADER_OUT" =>
                spos >= 0 /\ spos <= Eod /\ ctx.header_name >= 0
          /\ ctx.parser_state = "BODY" => BodyCursor(ctx, spos)

\* The stream stands at, or before, the end of the last message.
Between ==
    \/ events = <<>> /\ base + spos <= 0
    \/ /\ events # <<>>
       /\ events[Len(events)].ev = "end" /\ base + spos <= events[Len(events)].to

\* It does before a message starts and after one was read.
BetweenInv ==
    /\ EmptyOnlyBetweenMessages
    /\ pc # "ret" /\ ctx.parser_state = "START" => Between
    /\ res = "ok" => Between

\* What the end of a message leaves as the last callback.
LEMMA LastAppended ==
    ASSUME NEW evs \in Seq(Event), NEW e \in Event
    PROVE  /\ Append(evs, e) # <<>>
           /\ Len(Append(evs, e)) \in 1 .. Len(Append(evs, e))
           /\ Append(evs, e)[Len(Append(evs, e))] = e
<1>1. Len(Append(evs, e)) = Len(evs) + 1 /\ Len(evs) \in Nat
      /\ Append(evs, e)[Len(evs) + 1] = e
  OBVIOUS
<1>2. Append(evs, e) # <<>>
  BY <1>1
<1> QED BY <1>1, <1>2

\* process_body() moves the stream within its bounds; when it ends a message,
\* the end callback is the last and the stream stands there.
LEMMA ProcessBodyCursor ==
    ASSUME TypeOK, res = "none",
           NEW c \in CtxType, NEW p \in Int, c.parser_state = "BODY",
           BodyAgrees(c, p), BodyCursor(c, p), process_body(c, p)
    PROVE  CursorInv' /\ BetweenInv'
<1>0. /\ wire' = wire /\ rcvd' = rcvd
      /\ rcvd \in Int /\ base \in Int /\ Eod \in Int /\ Eod >= 0 /\ base >= 0
      /\ events \in Seq(Event)
      /\ c.chunk_start \in Int /\ c.chunk_end \in Int /\ c.body_start \in Int
      /\ c.body_end \in Int /\ c.bodysz \in Int /\ c.chunk_size \in Nat
  BY DEF process_body, TypeOK, CtxType, Eod
<1>z. /\ p >= 0 /\ p <= Eod + 2 /\ c.chunk_start >= 0 /\ c.chunk_start <= Eod + 2
      /\ c.flags = 0 => c.chunk_start >= 2
  BY Zenon DEF BodyCursor
\* It is enough to bound the stream where the body goes on, and where it ends.
<1>m. ASSUME base' = base, pc' = "loop", res' = res, ctx'.parser_state = "BODY",
             BodyCursor(ctx, spos)'
      PROVE  CursorInv' /\ BetweenInv'
  BY <1>m, Zenon DEF CursorInv, BetweenInv, BodyCursor, EmptyOnlyBetweenMessages
<1>e. ASSUME pc' = "ret", res' \notin {"ok", "empty"}, spos' >= 0, spos' <= Eod' + 2
      PROVE  CursorInv' /\ BetweenInv'
  BY <1>e, Zenon DEF CursorInv, BetweenInv, EmptyOnlyBetweenMessages
<1>1. CASE ChunkSizeMore(c, p)
  <2>1. base' = base /\ pc' = "loop" /\ res' = res /\ ctx' = c /\ spos' = Eod
        /\ c.flags = 1 /\ Eod' = Eod
    BY <1>0, <1>1, Zenon DEF ChunkSizeMore, Eod
  <2>2. BodyCursor(ctx, spos)'
    BY <1>0, <1>z, <2>1 DEF BodyCursor
  <2> QED BY <1>m, <2>1, <2>2, Zenon
<1>2. CASE ChunkSizeBad(c, p)
  <2>1. pc' = "ret" /\ res' = "parse_error" /\ spos' = p /\ Eod' = Eod
    BY <1>0, <1>2, Zenon DEF ChunkSizeBad, Eod
  <2> QED BY <1>e, <1>z, <2>1, Zenon
<1>3. CASE ChunkSize(c, p)
  <2>1. PICK e \in c.chunk_start .. (Eod - 2) : \E n \in Sizes(c.chunk_start, e) :
           /\ spos' = e + 2
           /\ ctx' = [c EXCEPT !.chunk_size = n, !.bodysz = @ + n,
                              !.chunk_start = e + 2, !.chunk_end = e + 2,
                              !.chunk_parser_state = "DATA"]
    BY <1>3, Zenon DEF ChunkSize
  <2>2. base' = base /\ pc' = "loop" /\ res' = res /\ c.flags = 1 /\ Eod' = Eod
    BY <1>0, <1>3, Zenon DEF ChunkSize, Eod
  <2>3. ctx'.parser_state = "BODY" /\ ctx'.flags = 1 /\ ctx'.chunk_start = e + 2
    BY <2>1, <2>2, Zenon DEF CtxType
  <2>4. BodyCursor(ctx, spos)'
    BY <1>0, <1>z, <2>1, <2>2, <2>3, SMTT(60) DEF BodyCursor
  <2> QED BY <1>m, <2>2, <2>3, <2>4, SMTT(60)
<1>4. CASE ChunkDataMore(c, p)
  <2> DEFINE needed == c.chunk_size - (c.chunk_end - c.chunk_start)
             incr == Smaller(needed, Eod - p)
  <2>1. /\ c.flags = 1 /\ c.chunk_parser_state = "DATA" /\ needed > 0
        /\ ctx' = [c EXCEPT !.chunk_end = @ + incr] /\ spos' = p + incr
        /\ base' = base /\ res' = res /\ pc' = "loop" /\ Eod' = Eod
    BY <1>0, <1>4, Zenon DEF ChunkDataMore, Eod
  <2>2. p <= Eod /\ needed \in Int
    BY <1>0, <2>1, SMTT(60) DEF BodyAgrees
  <2>3. incr \in Int /\ 0 <= incr /\ p + incr <= Eod
    BY <1>0, <2>1, <2>2, SMTT(60) DEF Smaller
  <2> HIDE DEF incr, needed
  <2>4. ctx'.parser_state = "BODY" /\ ctx'.flags = 1 /\ ctx'.chunk_start = c.chunk_start
    BY <2>1, Zenon DEF CtxType
  <2>5. BodyCursor(ctx, spos)'
    BY <1>0, <1>z, <2>1, <2>3, <2>4, SMTT(60) DEF BodyCursor
  <2> QED BY <1>m, <2>1, <2>4, <2>5, Zenon
<1>5. CASE ChunkDone(c, p)
  <2> DEFINE last == [ev |-> "end", from |-> base + p + 2,
                      to |-> base + p + 2, sz |-> c.bodysz]
             cb == Log("body", c.chunk_start, c.chunk_end, c.bodysz)
  <2>1. c.flags = 1 /\ p <= Eod /\ c.chunk_end = p
    BY <1>5, Zenon DEF ChunkDone, BodyAgrees
  <2>2. CASE pc' = "ret" /\ res' = "cb_error" /\ spos' = p /\ base' = base
    <3>1. Eod' = Eod
      BY <1>0, <2>2, Zenon DEF Eod
    <3> QED BY <1>e, <1>z, <2>2, <3>1, Zenon
  <2>3. ASSUME NEW r \in Recycled(p + 2), base' = base + r, spos' = p + 2 - r,
               ctx' = recycle_stream_buffer(
                        [c EXCEPT !.chunk_parser_state = "SIZE",
                                  !.chunk_start = p + 2, !.chunk_end = p + 2], r),
               \/ pc' = "loop" /\ res' = res
               \/ events' = Append(cb, last) /\ pc' = "ret" /\ res' = "ok"
        PROVE  CursorInv' /\ BetweenInv'
    <3>1. r \in Nat /\ r <= p + 2 /\ r <= Eod
      BY DEF Recycled
    <3>a. base' = base + r /\ spos' = p + 2 - r
      BY <2>3, Zenon
    <3>2. Eod' = Eod - r
      BY <1>0, <2>3, <3>1, SMTT(60) DEF Eod
    <3>3. spos' >= 0 /\ spos' <= Eod' + 2
      BY <1>0, <1>z, <2>1, <2>3, <3>1, <3>2, SMTT(60)
    <3>4. PICK x \in Int : x = p + 2
      OBVIOUS
    <3> DEFINE d == [c EXCEPT !.chunk_parser_state = "SIZE",
                              !.chunk_start = x, !.chunk_end = x]
    <3>5. d \in CtxType /\ d.chunk_start = x /\ d.parser_state = "BODY" /\ d.flags = 1
      BY <2>1, Zenon DEF CtxType
    <3>6. ctx' = recycle_stream_buffer(d, r) /\ r \in Int
      BY <2>3, <3>1, <3>4
    <3> HIDE DEF d
    <3>7. ctx'.parser_state = "BODY" /\ ctx'.flags = 1 /\ ctx'.chunk_start = x - r
      BY <3>5, <3>6, RecycleType, Zenon
    <3>8. BodyCursor(ctx, spos)'
      <4>1. ctx'.chunk_start = spos'
        BY <3>1, <3>a, <3>4, <3>7
      <4> QED BY <3>3, <3>7, <4>1, Zenon DEF BodyCursor
    <3>9. CASE pc' = "loop" /\ res' = res
      BY <3>3, <3>7, <3>8, <3>9, Zenon DEF CursorInv, BetweenInv, EmptyOnlyBetweenMessages
    <3>10. CASE events' = Append(cb, last) /\ pc' = "ret" /\ res' = "ok"
      <4>1. base + c.chunk_start \in Int /\ base + c.chunk_end \in Int
            /\ base + p + 2 \in Int /\ base' + spos' = base + p + 2
        BY <1>0, <3>1, <3>a, SMTT(60)
      <4>2. cb \in Seq(Event) /\ last \in Event /\ last.ev = "end" /\ last.to = base + p + 2
        BY <1>0, <4>1 DEF Event, Log
      <4> HIDE DEF cb, last
      <4>3. events' # <<>> /\ events'[Len(events')] = last
        BY <3>10, <4>2, LastAppended, Zenon
      <4>4. Between'
        BY <4>1, <4>2, <4>3 DEF Between
      <4>5. spos' >= -1
        BY <3>1, <3>3, <3>a
      <4> QED BY <3>3, <3>10, <4>4, <4>5, Zenon DEF CursorInv, BetweenInv, EmptyOnlyBetweenMessages
    <3> QED BY <2>3, <3>9, <3>10, Zenon
  <2> QED BY <1>5, <2>2, <2>3, Zenon DEF ChunkDone, cb, last
<1>6. CASE BodyMore(c, p)
  <2> DEFINE incr == Smaller(Eod - p, c.bodysz - (c.body_end - c.body_start))
  <2>1. c.flags = 0 /\ c.body_end = p /\ c.chunk_start = c.body_start
    BY <1>6, Zenon DEF BodyMore, BodyAgrees
  <2>2. PICK x \in Int : x = p + incr
    BY <1>0, SMTT(60) DEF Smaller
  <2>b. PICK y \in Int : y = c.body_end - c.body_start
    BY <1>0
  <2>c. incr = Smaller(Eod - p, c.bodysz - y) /\ y = p - c.chunk_start
    BY <2>b, <2>1, Zenon
  <2> HIDE DEF incr
  <2>3. Grown(c, p) = [c EXCEPT !.body_end = x, !.chunk_end = x]
    BY <2>1, <2>2, Zenon DEF Grown, incr
  <2>4. Grown(c, p).body_end = x /\ Grown(c, p).body_start = c.body_start
        /\ Grown(c, p).flags = 0 /\ Grown(c, p).parser_state = "BODY"
        /\ Grown(c, p).chunk_start = c.chunk_start
    BY <2>1, <2>3, Zenon DEF CtxType
  \* A body that is not complete reaches the end of the data.
  <2>d. x - c.chunk_start < c.bodysz
    BY <1>6, <2>1, <2>4, Zenon DEF BodyMore
  <2>a. x = Eod
    BY <1>0, <2>2, <2>c, <2>d, SMTT(60) DEF Smaller
  <2>5. ctx' = Grown(c, p) /\ spos' = p + (Grown(c, p).body_end - c.body_end)
        /\ base' = base /\ res' = res /\ pc' = "loop" /\ Eod' = Eod
    BY <1>0, <1>6, Zenon DEF BodyMore, Eod
  <2>6. spos' = x
    BY <2>1, <2>4, <2>5
  <2>7. BodyCursor(ctx, spos)'
    BY <1>0, <1>z, <2>a, <2>1, <2>4, <2>5, <2>6, SMTT(60) DEF BodyCursor
  <2> QED BY <1>m, <2>4, <2>5, <2>7, Zenon
<1>7. CASE BodyDone(c, p)
  <2> DEFINE incr == Smaller(Eod - p, c.bodysz - (c.body_end - c.body_start))
             g == Grown(c, p)
             q == p + (g.body_end - c.body_end)
  <2>1. c.flags = 0 /\ c.body_end = p /\ c.chunk_start = c.body_start
    BY <1>7, Zenon DEF BodyDone, BodyAgrees
  <2>2. PICK x \in Int : x = p + incr
    BY <1>0, SMTT(60) DEF Smaller
  <2>3. x <= Eod
    BY <1>0, <2>1, <2>2, SMTT(60) DEF Smaller
  <2> HIDE DEF incr
  <2>4. g = [c EXCEPT !.body_end = x, !.chunk_end = x]
    BY <2>1, <2>2, Zenon DEF Grown, incr
  <2>5. g.body_end = x /\ g.chunk_end = x /\ g.bodysz = c.bodysz /\ g.flags = 0
        /\ g.chunk_start = c.chunk_start /\ g.body_start = c.chunk_start /\ g \in CtxType
    BY <2>1, <2>4, ZenonT(60) DEF CtxType
  <2>6. x - c.chunk_start >= c.bodysz
    BY <1>7, <2>5, Zenon DEF BodyDone
  <2>7. q = x
    BY <2>1, <2>5
  <2> HIDE DEF g, q
  <2> DEFINE last == [ev |-> "end", from |-> base + x, to |-> base + x, sz |-> c.bodysz]
             cb == Log("body", c.chunk_start, x, c.bodysz)
  <2>a. cb \in Seq(Event) /\ cb # <<>> /\ cb[Len(cb)].sz = c.bodysz
    <3> DEFINE e == [ev |-> "body", from |-> base + c.chunk_start, to |-> base + x, sz |-> c.bodysz]
    <3>1. base + c.chunk_start \in Int /\ base + x \in Int
      BY <1>0
    <3>2. e \in Event /\ e.sz = c.bodysz
      BY <1>0, <3>1 DEF Event
    <3>3. cb = Append(events, e)
      BY Zenon DEF Log
    <3> HIDE DEF e, cb
    <3> QED BY <1>0, <3>2, <3>3, LastAppended
  <2>8. CASE events' = cb /\ pc' = "ret" /\ res' = "cb_error" /\ spos' = x /\ base' = base
    <3>1. Eod' = Eod
      BY <1>0, <2>8, Zenon DEF Eod
    <3>2. x >= c.bodysz /\ x <= Eod + 2
      BY <1>0, <1>z, <2>3, <2>6
    <3> HIDE DEF cb
    <3>3. BackByLength'
      BY <2>a, <2>8, <3>2, Zenon DEF BackByLength
    <3> QED BY <2>8, <3>1, <3>2, <3>3, Zenon DEF CursorInv, BetweenInv, EmptyOnlyBetweenMessages
  <2>9. ASSUME NEW r \in Recycled(c.chunk_start), base' = base + r, spos' = x - r,
               ctx' = recycle_stream_buffer(g, r),
               events' = Append(cb, last), pc' = "ret", res' = "ok"
        PROVE  CursorInv' /\ BetweenInv'
    <3>1. r \in Nat /\ r <= c.chunk_start
      BY DEF Recycled
    <3>2. Eod' = Eod - r /\ spos' <= Eod' + 2 /\ spos' >= c.bodysz /\ spos' \in Int
      BY <1>0, <2>3, <2>6, <2>9, <3>1, SMTT(60) DEF Eod
    <3>3. base + c.chunk_start \in Int /\ base + x \in Int /\ base' + spos' = base + x
      BY <1>0, <2>9, <3>1
    <3>4. cb \in Seq(Event) /\ last \in Event /\ last.ev = "end" /\ last.to = base + x
          /\ last.sz = c.bodysz
      BY <1>0, <3>3, SMTT(60) DEF Event, Log
    <3> HIDE DEF cb, last
    <3>5. events' # <<>> /\ events'[Len(events')] = last
          /\ Len(events') \in 1 .. Len(events')
      BY <2>9, <3>4, LastAppended, Zenon
    <3>6. Between'
      BY <3>3, <3>4, <3>5 DEF Between
    <3>7. BackByLength'
      BY <3>2, <3>4, <3>5, Zenon DEF BackByLength
    <3>8. Astray' \/ spos' >= -1
      <4>1. ctx'.flags = 0 /\ ctx'.bodysz = c.bodysz /\ r \in Int
        <5>1. r \in Int
          BY <3>1
        <5> QED BY <2>5, <2>9, <5>1, RecycleType, Zenon
      <4>2. c.bodysz < -1 => Astray'
        BY <2>9, <4>1, Zenon DEF Astray
      <4>3. c.bodysz < -1 \/ spos' >= -1
        BY <1>0, <3>2
      <4> QED BY <4>2, <4>3, Zenon
    <3> QED BY <2>9, <3>2, <3>6, <3>7, <3>8, Zenon DEF CursorInv, BetweenInv, EmptyOnlyBetweenMessages
  <2>10. /\ Log("body", g.chunk_start, g.chunk_end, g.bodysz) = cb
         /\ [ev |-> "end", from |-> base + q, to |-> base + q, sz |-> g.bodysz] = last
    BY <2>5, <2>7, Zenon DEF Log, cb, last
  <2> QED BY <1>7, <2>5, <2>7, <2>8, <2>9, <2>10, Zenon DEF BodyDone, g, q
<1> QED BY <1>1, <1>2, <1>3, <1>4, <1>5, <1>6, <1>7, Zenon DEF process_body

\* Both invariants hold before the first read.
LEMMA CursorInit == Init => CursorInv /\ BetweenInv
<1> SUFFICES ASSUME Init PROVE CursorInv /\ BetweenInv
  BY Zenon
<1>1. events = <<>> /\ rcvd = 0 /\ base = 0 /\ spos = 0 /\ pc = "loop" /\ res = "none"
      /\ ctx.parser_state = "START"
  BY Zenon DEF Init, ParserInit, CtxInit
<1> QED BY <1>1 DEF CursorInv, BetweenInv, Between, EmptyOnlyBetweenMessages, Eod

\* Every step of the parser keeps them.
LEMMA CursorNext ==
    ParserInv /\ CursorInv /\ BetweenInv /\ [Next]_vars => CursorInv' /\ BetweenInv'
<1> SUFFICES ASSUME ParserInv, CursorInv, BetweenInv, [Next]_vars
             PROVE  CursorInv' /\ BetweenInv'
  BY Zenon
<1>0. TypeOK /\ (pc # "ret" => Agrees) /\ (pc = "ret" <=> res # "none")
  BY Zenon DEF ParserInv
<1>a. /\ rcvd \in Int /\ base \in Int /\ spos \in Int /\ Eod \in Int /\ Eod >= 0
      /\ rcvd >= 0 /\ base >= 0 /\ ctx \in CtxType /\ events \in Seq(Event)
      /\ ctx.first_line \in Int /\ ctx.header_name \in Int
  BY <1>0 DEF TypeOK, Eod, CtxType
<1>b. ASSUME Ready PROVE pc # "ret" /\ res = "none" /\ Agrees
  BY <1>0, <1>b, Zenon DEF Ready
<1>1. CASE Consume
  <2>2. pc # "ret" /\ pc' = "step" /\ UNCHANGED <<wire, base, spos, ctx, res, events>>
    BY <1>1, Zenon DEF Consume
  <2>3. Eod' \in Int /\ Eod <= Eod'
    <3>0. PICK n \in 1 .. (Len(wire) - rcvd) : rcvd' = rcvd + n
      BY <1>1, Zenon DEF Consume
    <3>1. Eod' = (rcvd + n) - base /\ Eod = rcvd - base
      BY <2>2, <3>0, Zenon DEF Eod
    <3>2. n \in Int /\ n >= 1
      BY <1>0 DEF TypeOK
    <3> QED BY <1>a, <3>1, <3>2
  <2>4. CursorInv'
    <3>1. BackByLength => BackByLength'
      BY <2>2, Zenon DEF BackByLength
    <3>2. ctx.chunk_start \in Int /\ spos \in Int /\ Eod \in Int
      BY <1>a, Zenon DEF CtxType
    <3>a. PICK d \in Int : d = Eod' /\ Eod <= d
      BY <2>3, Zenon
    <3>c. Eod <= d
      BY <3>a, Zenon
    <3>b. spos' = spos /\ ctx' = ctx /\ pc # "ret"
      BY <2>2, Zenon
    <3>3. BodyCursor(ctx, spos) => BodyCursor(ctx, spos)'
      <4> SUFFICES ASSUME BodyCursor(ctx, spos) PROVE BodyCursor(ctx, spos)'
        BY Zenon
      <4>1. spos <= d + 2 /\ ctx.chunk_start <= d + 2
        BY <3>c, <3>2 DEF BodyCursor
      <4> QED BY <3>a, <3>b, <4>1, Zenon DEF BodyCursor
    <3>4. spos <= d + 2 /\ (ctx.parser_state = "HEADER_OUT" => spos <= d)
      BY <3>2, <3>c, <2>2 DEF CursorInv
    <3>5. res' # "ok"
      BY <1>0, <2>2, Zenon
    <3> QED BY <3>a, <3>b, <3>1, <3>3, <3>4, <3>5, Zenon DEF CursorInv
  <2>5. BetweenInv'
    BY <1>0, <2>2, Zenon DEF BetweenInv, Between, EmptyOnlyBetweenMessages
  <2> QED BY <2>4, <2>5, Zenon
<1>2. CASE ConsumeEof
  <2>1. pc # "ret" /\ NeedMore /\ pc' = "ret"
        /\ UNCHANGED <<wire, rcvd, base, spos, ctx, events>>
        /\ res' = IF ctx.parser_state = "START" THEN "empty" ELSE "consume_error"
    BY <1>2, Zenon DEF ConsumeEof
  <2>2. rcvd <= base + spos
    BY <1>a, <2>1 DEF NeedMore, Eod
  <2>3. ctx.parser_state = "START" =>
           \/ events = <<>> /\ rcvd = 0
           \/ /\ events # <<>>
              /\ events[Len(events)].ev = "end" /\ rcvd <= events[Len(events)].to
    <3> SUFFICES ASSUME ctx.parser_state = "START"
                 PROVE  \/ events = <<>> /\ rcvd = 0
                        \/ /\ events # <<>> /\ events[Len(events)].ev = "end"
                           /\ rcvd <= events[Len(events)].to
      BY Zenon
    <3>1. Between
      BY <2>1, Zenon DEF BetweenInv
    <3>2. events # <<>> => events[Len(events)].to \in Int
      <4>1. events # <<>> => Len(events) \in 1 .. Len(events)
        BY <1>a
      <4>2. events # <<>> => events[Len(events)] \in Event
        BY <1>a, <4>1
      <4> QED BY <4>2, Zenon DEF Event
    <3> QED BY <1>a, <2>2, <3>1, <3>2 DEF Between
  <2>4. BetweenInv'
    BY <2>1, <2>3, Zenon DEF BetweenInv, EmptyOnlyBetweenMessages
  <2>5. CursorInv'
    BY <2>1, Zenon DEF CursorInv, BackByLength, Eod
  <2> QED BY <2>4, <2>5, Zenon
\* A step that ends the call with an error leaves the stream where it is.
<1>3. CASE ConsumeError \/ LineBad \/ HeaderBad
  <2>1. pc' = "ret" /\ res' \in {"read_error", "parse_error"}
        /\ UNCHANGED <<wire, rcvd, base, spos, ctx, events>>
    BY <1>3, Zenon DEF ConsumeError, LineBad, HeaderBad
  <2> QED BY <2>1, Zenon DEF CursorInv, BackByLength, Eod, BetweenInv, EmptyOnlyBetweenMessages
<1>4. CASE Start
  <2>1. Ready /\ ctx.parser_state = "START" /\ pc' = "loop"
        /\ UNCHANGED <<wire, rcvd, base, spos, res, events>>
        /\ ctx' = [ctx EXCEPT !.first_line = spos, !.parser_state = "LINE"]
    BY <1>4, Zenon DEF Start
  <2>2. ctx'.parser_state = "LINE" /\ ctx'.first_line = spos
    BY <1>a, <2>1, Zenon DEF CtxType
  <2>3. spos >= -1
    BY <1>b, <2>1, Zenon DEF CursorInv
  <2>4. res' = "none"
    BY <1>b, <2>1, Zenon
  <2>5. Eod' = Eod /\ (BackByLength => BackByLength')
    BY <2>1, Zenon DEF Eod, BackByLength
  <2> QED BY <2>1, <2>2, <2>3, <2>4, <2>5, Zenon
          DEF CursorInv, BetweenInv, EmptyOnlyBetweenMessages
<1>5. CASE LineMore \/ HeaderMore
  <2>1. Ready /\ ctx.parser_state \in {"LINE", "HEADER_OUT"} /\ pc' = "loop"
        /\ spos' = Eod /\ UNCHANGED <<wire, rcvd, base, ctx, res, events>>
    BY <1>5, Zenon DEF LineMore, HeaderMore
  <2>2. Eod' = Eod /\ res' = "none" /\ pc # "ret"
    BY <1>b, <2>1, Zenon DEF Eod
  <2> QED BY <1>a, <2>1, <2>2, SMTT(60) DEF CursorInv, BetweenInv, EmptyOnlyBetweenMessages
<1>6. CASE Line
  <2>1. PICK e \in ctx.first_line .. (Eod - 2) :
          FirstCrlf(ctx.first_line, e) /\ spos' = e + 2
    BY <1>6, Zenon DEF Line
  <2>2. Ready /\ ctx.parser_state = "LINE" /\ UNCHANGED <<wire, rcvd, base>>
        /\ ctx' = [ctx EXCEPT !.parser_state = "HEADER_IN"]
        /\ ((pc' = "loop" /\ res' = res) \/ (pc' = "ret" /\ res' = "cb_error"))
    BY <1>6, Zenon DEF Line
  <2>3. ctx.first_line >= -1 /\ res = "none"
    BY <1>b, <2>2, Zenon DEF CursorInv
  <2>4. ctx'.parser_state = "HEADER_IN"
    BY <1>a, <2>2, Zenon DEF CtxType
  <2>5. Eod' = Eod
    BY <2>2, Zenon DEF Eod
  <2>6. spos' >= 0 /\ spos' <= Eod + 2
    BY <1>a, <2>1, <2>3
  <2> QED BY <2>2, <2>3, <2>4, <2>5, <2>6, Zenon DEF CursorInv, BetweenInv, EmptyOnlyBetweenMessages
<1>7. CASE HeaderIn
  <2>1. Ready /\ ctx.parser_state = "HEADER_IN" /\ pc' = "loop"
        /\ ctx' = [ctx EXCEPT !.header_name = spos, !.parser_state = "HEADER_OUT"]
        /\ UNCHANGED <<wire, rcvd, base, spos, res, events>>
    BY <1>7, Zenon DEF HeaderIn
  <2>2. ctx'.parser_state = "HEADER_OUT" /\ ctx'.header_name = spos
    BY <1>a, <2>1, Zenon DEF CtxType
  <2>3. res' = "none" /\ spos >= 0 /\ spos <= Eod
    BY <1>b, <2>1, Zenon DEF CursorInv, Agrees
  <2>4. Eod' = Eod
    BY <2>1, Zenon DEF Eod
  <2> QED BY <1>a, <2>1, <2>2, <2>3, <2>4, Zenon DEF CursorInv, BetweenInv, EmptyOnlyBetweenMessages
<1>8. CASE Header
  <2>1. Ready /\ ctx.parser_state = "HEADER_OUT" /\ UNCHANGED <<wire, rcvd, base>>
    BY <1>8, Zenon DEF Header
  <2> DEFINE c == process_header(ctx, At(ctx.header_name))
  <2>2. PICK e \in (ctx.header_name + 1) .. (Eod - 2) :
          \/ /\ ctx' = [c EXCEPT !.parser_state = "HEADER_IN"]
             /\ spos' = e + 2 /\ pc' = "loop" /\ res' = res
          \/ pc' = "ret" /\ res' = "cb_error" /\ spos' = spos
    BY <1>8, Zenon DEF Header
  <2>3. ctx.header_name >= 0 /\ spos >= 0 /\ spos <= Eod /\ res = "none"
    BY <1>b, <2>1, Zenon DEF CursorInv
  <2>4. Eod' = Eod
    BY <2>1, Zenon DEF Eod
  <2>5. CASE pc' = "ret" /\ res' = "cb_error" /\ spos' = spos
    BY <1>a, <2>3, <2>4, <2>5, Zenon DEF CursorInv, BetweenInv, EmptyOnlyBetweenMessages
  <2>6. CASE ctx' = [c EXCEPT !.parser_state = "HEADER_IN"]
             /\ spos' = e + 2 /\ pc' = "loop" /\ res' = res
    <3>1. ctx'.parser_state = "HEADER_IN"
      BY <1>a, <2>6, Zenon DEF process_header, CtxType
    <3>2. spos' >= 0 /\ spos' <= Eod + 2
      BY <1>a, <2>3, <2>6, SMTT(60)
    <3> QED BY <2>3, <2>4, <2>6, <3>1, <3>2, Zenon DEF CursorInv, BetweenInv, EmptyOnlyBetweenMessages
  <2> QED BY <2>2, <2>5, <2>6, Zenon
<1>9. CASE EmptyLine
  <2>1. PICK p \in Int : p = spos + 2
    BY <1>a
  <2>2. PICK c : c = [ctx EXCEPT !.body_start = p, !.body_end = p,
                                 !.chunk_start = p, !.chunk_end = p,
                                 !.parser_state = "BODY"]
    BY Zenon
  <2>3. Ready /\ ctx.parser_state = "HEADER_OUT" /\ process_body(c, p)
    BY <1>9, <2>1, <2>2, Zenon DEF EmptyLine
  <2>4. /\ c \in CtxType /\ c.parser_state = "BODY"
        /\ c.chunk_start = p /\ c.body_start = p /\ c.body_end = p
        /\ c.chunk_parser_state = ctx.chunk_parser_state
    BY <1>a, <2>2, Zenon DEF CtxType
  <2>5. Agrees /\ res = "none" /\ Mark = ctx.header_name
        /\ spos >= 0 /\ spos <= Eod /\ ctx.header_name >= 0
    BY <1>b, <2>3, Zenon DEF Mark, CursorInv
  <2>6. EndsBy(events, base + ctx.header_name) /\ ctx.chunk_parser_state # "DATA"
        /\ ctx.header_name <= spos
    BY <2>3, <2>5, Zenon DEF Agrees
  <2>7. base + ctx.header_name <= base + p /\ base + p >= 1
        /\ base + p \in Int /\ base + ctx.header_name \in Int
    BY <1>a, <2>1, <2>5, <2>6
  <2>8. EndsBy(events, base + p)
    BY <1>a, <2>6, <2>7, EndsByMonotone, Zenon
  <2>9. BodyAgrees(c, p)
    BY <2>4, <2>6, <2>7, <2>8, Zenon DEF BodyAgrees
  <2>10. BodyCursor(c, p)
    BY <1>a, <2>1, <2>4, <2>5 DEF BodyCursor
  <2> QED BY <1>0, <2>3, <2>4, <2>5, <2>9, <2>10, ProcessBodyCursor, Zenon
<1>10. CASE Body
  <2>1. PICK p \in Int, c \in CtxType : p = spos /\ c = ctx
    BY <1>a, Zenon
  <2>2. Ready /\ c.parser_state = "BODY" /\ process_body(c, p)
    BY <1>10, <2>1, Zenon DEF Body
  <2>3. res = "none" /\ BodyAgrees(c, p) /\ BodyCursor(c, p)
    BY <1>b, <2>1, <2>2, SMTT(60) DEF Agrees, CursorInv
  <2> QED BY <1>0, <2>2, <2>3, ProcessBodyCursor, Zenon
<1>11. CASE NextMessage
  <2>1. pc = "ret" /\ res = "ok" /\ ~ Astray /\ ctx' = CtxInit /\ pc' = "loop" /\ res' = "none"
        /\ UNCHANGED <<wire, rcvd, base, spos, events>>
    BY <1>11, Zenon DEF NextMessage
  <2>2. ctx'.parser_state = "START"
    BY <2>1, Zenon DEF CtxInit
  <2>3. Between' = Between /\ (BackByLength => BackByLength') /\ Eod' = Eod
    <3>1. Between' = Between
      BY <2>1, SMTT(60) DEF Between
    <3> QED BY <2>1, <3>1, Zenon DEF BackByLength, Eod
  <2> QED BY <2>1, <2>2, <2>3, Zenon DEF CursorInv, BetweenInv, EmptyOnlyBetweenMessages
<1>12. CASE Stop \/ UNCHANGED vars
  <2>1. UNCHANGED <<rcvd, base, spos, ctx, pc, res, events>>
    BY <1>12, Zenon DEF Stop, vars
  <2> QED BY <2>1, Zenon DEF CursorInv, BodyCursor, BetweenInv, Between, BackByLength, Eod,
                      EmptyOnlyBetweenMessages, Astray
<1> QED BY <1>1, <1>2, <1>3, <1>4, <1>5, <1>6, <1>7, <1>8, <1>9, <1>10, <1>11, <1>12, Zenon
        DEF Next, Parse

\* The three inductive invariants hold together.
THEOREM StreamInvariant == Spec => [](ParserInv /\ CursorInv /\ BetweenInv)
<1>1. ParserInv /\ CursorInv /\ BetweenInv /\ [Next]_vars
          => (ParserInv /\ CursorInv /\ BetweenInv)'
  BY InvNext, CursorNext, Zenon
<1>2. Init => ParserInv /\ CursorInv /\ BetweenInv
  BY InvInit, CursorInit, Zenon
<1> QED BY <1>1, <1>2, PTL DEF Spec

\* The stream position of _http_parse_message() stays within the buffer and the
\* two bytes behind it, and falls in front of it only by a negative body size, and
\* by no more than that; process_body() never goes on inside the recycled prefix.
\* For any stream of bytes, any way of reading it and any block size.
THEOREM CursorStaysInBuffer == Spec => []CursorInBuffer
<1>1. ParserInv /\ CursorInv => CursorInBuffer
  <2> SUFFICES ASSUME ParserInv, CursorInv PROVE CursorInBuffer
    BY Zenon
  <2>1. rcvd \in Int /\ base \in Int /\ Eod \in Int /\ ctx.chunk_start \in Int
    BY DEF ParserInv, TypeOK, CtxType, Eod
  <2> QED BY <2>1 DEF CursorInBuffer, CursorInv, BodyCursor
<1> QED BY <1>1, StreamInvariant, PTL

\* MNHTTP_PARSE_EMPTY is returned only when no byte of an unfinished message was
\* read, for any stream of bytes and any way of reading it.
THEOREM EmptyMeansBetween == Spec => []EmptyOnlyBetweenMessages
<1>1. BetweenInv => EmptyOnlyBetweenMessages
  BY Zenon DEF BetweenInv
<1> QED BY <1>1, StreamInvariant, PTL
=============================================================================
