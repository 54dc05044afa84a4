------------------------------ MODULE HttpParser ------------------------------
(***************************************************************************)
(* The incremental HTTP message parser of mnhttp.c: _http_parse_message()  *)
(* and the functions it calls, reading one connection's byte stream.       *)
(*                                                                         *)
(* The peer's stream is the sequence wire; its first rcvd bytes have been  *)
(* read into the bytestream and the first base of those were recycled.  An *)
(* offset of the code (in->pos, ctx->body.start, ...) is relative to base, *)
(* so byte  off  of the buffer is  wire[base + off + 1].                   *)
(*                                                                         *)
(* A text whose characters no decision depends on is one byte: "line" is a *)
(* start line that parses, "badline" one that does not, "cl", "te" and     *)
(* "hdr" are the header fields Content-Length: n, Transfer-Encoding:       *)
(* chunked and any other one, "nocolon" a field without a colon, "size" a  *)
(* chunk size, "data" a byte of the body.  The number n of a length or a   *)
(* size is the int that strtol() makes of it, negative ones included.  CR  *)
(* and LF are bytes of their own, so a read may end anywhere, between a CR *)
(* and its LF included.                                                    *)
(***************************************************************************)
EXTENDS Integers, Sequences

CONSTANTS Wires,            \* the byte streams a peer may send
          Block,            \* granularity of bytestream_recycle() (512)
          BlankLineSplit    \* may a read end inside the CR LF of a blank line?

Kinds == {"cr", "lf", "line", "badline", "cl", "te", "hdr", "nocolon",
          "size", "data"}
Byte == [k : Kinds, n : Int]

ASSUME ParserAssumption ==
    /\ Wires \subseteq Seq(Byte)
    /\ Block \in Nat \ {0}
    /\ BlankLineSplit \in BOOLEAN

VARIABLES wire,     \* what the peer sends, before it closes the connection
          rcvd,     \* bytes of wire read into the buffer so far
          base,     \* bytes of wire recycled from the front of the buffer
          spos,     \* SPOS(in)
          ctx,      \* the mnhttp_ctx_t
          pc,       \* "loop": head of the while loop; "step": after a read
          res,      \* result of the call, "none" while it runs
          events    \* the callbacks made, with the absolute range they see

vars == <<wire, rcvd, base, spos, ctx, pc, res, events>>

CtxType == [parser_state : {"START", "LINE", "HEADER_IN", "HEADER_OUT", "BODY"},
            chunk_parser_state : {"UNDEF", "SIZE", "DATA"},
            flags : {0, 1},             \* PS_FLAG_CHUNKED
            bodysz : Int,
            first_line : Int,           \* first_line.start
            header_name : Int,          \* current_header_name.start
            body_start : Int, body_end : Int,
            chunk_size : Nat,           \* current_chunk_size
            chunk_start : Int, chunk_end : Int]

Event == [ev : {"line", "header", "body", "end"}, from : Int, to : Int, sz : Int]

\* MNHTTP_PARSE_CONSUME_DATA_ERROR is "consume_error" at the end of the stream,
\* "read_error" after a read that failed.
Results == {"none", "ok", "empty", "consume_error", "read_error", "parse_error", "cb_error"}

CtxInit ==
    [parser_state |-> "START", chunk_parser_state |-> "UNDEF",
     flags |-> 0, bodysz |-> -1, first_line |-> 0, header_name |-> 0,
     body_start |-> 0, body_end |-> 0,
     chunk_size |-> 0, chunk_start |-> 0, chunk_end |-> 0]

-----------------------------------------------------------------------------
(* The bytestream.                                                         *)

Eod == rcvd - base                      \* SEOD(in)
At(off) == wire[base + off + 1]         \* *SDATA(in, off); never a CR at off = -1
NeedMore == Eod <= spos                 \* SNEEDMORE(in)

\* findcrlf(SDATA(in, from), SEOD(in) - from) is SDATA(in, e), or NULL.
IsCrlf(e) == At(e).k = "cr" /\ At(e + 1).k = "lf"
FirstCrlf(from, e) ==
    /\ e \in from .. (Eod - 2)
    /\ IsCrlf(e)
    /\ \A i \in from .. (e - 1) : ~ IsCrlf(i)
NoCrlf(from) == \A i \in from .. (Eod - 2) : ~ IsCrlf(i)

\* The loop body runs when there is unread data or after one read.
Ready == pc = "step" \/ (pc = "loop" /\ ~ NeedMore)

\* Mutant: the amount that is available is not looked at.
SmallerIsNeeded(a, b) == a

Smaller(a, b) == IF a < b THEN a ELSE b         \* MIN(a, b)

Log(ev, from, to, sz) ==
    Append(events, [ev |-> ev, from |-> base + from, to |-> base + to, sz |-> sz])

\* Would reading n more bytes end between the CR and the LF of the blank line that
\* follows a start line or a field?
SplitsBlankLine(n) ==
    LET i == rcvd + n
    IN  /\ i \in 4 .. (Len(wire) - 1)
        /\ wire[i - 3].k \in {"line", "cl", "te", "hdr"}
        /\ wire[i - 2].k = "cr" /\ wire[i - 1].k = "lf"
        /\ wire[i].k = "cr" /\ wire[i + 1].k = "lf"

\* bytestream_consume_data(): blocks, then at least one byte was read.
Consume ==
    /\ pc = "loop" /\ NeedMore
    /\ \E n \in 1 .. (Len(wire) - rcvd) :
          /\ BlankLineSplit \/ ~ SplitsBlankLine(n)
          /\ rcvd' = rcvd + n
    /\ pc' = "step"
    /\ UNCHANGED <<wire, base, spos, ctx, res, events>>

\* Mutant: an incomplete start line passes for the end of the stream.
ConsumeEofInLine ==
    /\ pc = "loop" /\ NeedMore
    /\ rcvd = Len(wire)
    /\ pc' = "ret"
    /\ res' = IF ctx.parser_state \in {"START", "LINE"} THEN "empty" ELSE "consume_error"
    /\ UNCHANGED <<wire, rcvd, base, spos, ctx, events>>

\* The peer closed the connection: bytestream_consume_data() reports EOF.
ConsumeEof ==
    /\ pc = "loop" /\ NeedMore
    /\ rcvd = Len(wire)
    /\ pc' = "ret"
    /\ res' = IF ctx.parser_state = "START" THEN "empty" ELSE "consume_error"
    /\ UNCHANGED <<wire, rcvd, base, spos, ctx, events>>

\* Reading failed: a socket error, or the thread was interrupted.
ConsumeError ==
    /\ pc = "loop" /\ NeedMore
    /\ pc' = "ret"
    /\ res' = "read_error"
    /\ UNCHANGED <<wire, rcvd, base, spos, ctx, events>>

-----------------------------------------------------------------------------
(* The start line and the header.                                          *)

\* Mutant: every message starts where the buffer does.
StartAtZero ==
    /\ Ready /\ ctx.parser_state = "START"
    /\ ctx' = [ctx EXCEPT !.first_line = 0, !.parser_state = "LINE"]
    /\ pc' = "loop"
    /\ UNCHANGED <<wire, rcvd, base, spos, res, events>>

Start ==
    /\ Ready /\ ctx.parser_state = "START"
    /\ ctx' = [ctx EXCEPT !.first_line = spos, !.parser_state = "LINE"]
    /\ pc' = "loop"
    /\ UNCHANGED <<wire, rcvd, base, spos, res, events>>

\* Mutant: the part of the line that has arrived is forgotten.
LineMoreForgets ==
    /\ Ready /\ ctx.parser_state = "LINE"
    /\ NoCrlf(ctx.first_line)
    /\ spos' = Eod
    /\ ctx' = [ctx EXCEPT !.first_line = Eod]
    /\ pc' = "loop"
    /\ UNCHANGED <<wire, rcvd, base, res, events>>

\* parse_request_line() and parse_status_line() before the line is complete.
LineMore ==
    /\ Ready /\ ctx.parser_state = "LINE"
    /\ NoCrlf(ctx.first_line)
    /\ spos' = Eod
    /\ pc' = "loop"
    /\ UNCHANGED <<wire, rcvd, base, ctx, res, events>>

\* A start line.  Of one with other bytes in front parse_request_line() takes those
\* for part of the method, parse_status_line() refuses it.
LineParses(from, e) == from < e /\ At(from).k = "line"
LineMayParse(from, e) == \E i \in from .. (e - 1) : At(i).k = "line"

LineBad ==
    /\ Ready /\ ctx.parser_state = "LINE"
    /\ \E e \in ctx.first_line .. (Eod - 2) :
          FirstCrlf(ctx.first_line, e) /\ ~ LineParses(ctx.first_line, e)
    /\ pc' = "ret" /\ res' = "parse_error"
    /\ UNCHANGED <<wire, rcvd, base, spos, ctx, events>>

\* A good line; line_cb may accept it or fail.
Line ==
    /\ Ready /\ ctx.parser_state = "LINE"
    /\ \E e \in ctx.first_line .. (Eod - 2) :
          /\ FirstCrlf(ctx.first_line, e) /\ LineMayParse(ctx.first_line, e)
          /\ spos' = e + 2
          /\ events' = Log("line", ctx.first_line, e, 0)
    /\ ctx' = [ctx EXCEPT !.parser_state = "HEADER_IN"]
    /\ \/ pc' = "loop" /\ UNCHANGED res
       \/ pc' = "ret" /\ res' = "cb_error"
    /\ UNCHANGED <<wire, rcvd, base>>

HeaderIn ==
    /\ Ready /\ ctx.parser_state = "HEADER_IN"
    /\ ctx' = [ctx EXCEPT !.header_name = spos, !.parser_state = "HEADER_OUT"]
    /\ pc' = "loop"
    /\ UNCHANGED <<wire, rcvd, base, spos, res, events>>

HeaderMore ==
    /\ Ready /\ ctx.parser_state = "HEADER_OUT"
    /\ NoCrlf(ctx.header_name)
    /\ spos' = Eod
    /\ pc' = "loop"
    /\ UNCHANGED <<wire, rcvd, base, ctx, res, events>>

HasColon(from, e) == \E i \in from .. (e - 1) : At(i).k \in {"cl", "te", "hdr"}

HeaderBad ==
    /\ Ready /\ ctx.parser_state = "HEADER_OUT"
    /\ \E e \in (ctx.header_name + 1) .. (Eod - 2) :
          FirstCrlf(ctx.header_name, e) /\ ~ HasColon(ctx.header_name, e)
    /\ pc' = "ret" /\ res' = "parse_error"
    /\ UNCHANGED <<wire, rcvd, base, spos, ctx, events>>

\* Mutant: Transfer-Encoding leaves the body size at -1.
process_header_keeps_bodysz(c, b) ==
    CASE b.k = "cl" -> [c EXCEPT !.bodysz = b.n]
      [] b.k = "te" -> [c EXCEPT !.flags = 1, !.chunk_parser_state = "SIZE"]
      [] OTHER -> c

\* process_header(): the two fields that decide how the body is framed.
process_header(c, b) ==
    CASE b.k = "cl" -> [c EXCEPT !.bodysz = b.n]
      [] b.k = "te" -> [c EXCEPT !.flags = 1, !.bodysz = 0,
                                 !.chunk_parser_state = "SIZE"]
      [] OTHER -> c

\* A field; header_cb may accept it or fail (before the stream advances).
Header ==
    /\ Ready /\ ctx.parser_state = "HEADER_OUT"
    /\ \E e \in (ctx.header_name + 1) .. (Eod - 2) :
          /\ FirstCrlf(ctx.header_name, e) /\ HasColon(ctx.header_name, e)
          /\ events' = Log("header", ctx.header_name, e, 0)
          /\ LET c == process_header(ctx, At(ctx.header_name))
             IN  \/ /\ ctx' = [c EXCEPT !.parser_state = "HEADER_IN"]
                    /\ spos' = e + 2
                    /\ pc' = "loop" /\ UNCHANGED res
                 \/ /\ ctx' = c
                    /\ pc' = "ret" /\ res' = "cb_error" /\ UNCHANGED spos
    /\ UNCHANGED <<wire, rcvd, base>>

-----------------------------------------------------------------------------
(* process_body() on context c with the stream at offset p.                *)

\* Chunk size: the line is not complete.
ChunkSizeMore(c, p) ==
    /\ c.flags = 1 /\ c.chunk_parser_state = "SIZE"
    /\ NoCrlf(c.chunk_start)
    /\ spos' = Eod
    /\ ctx' = c
    /\ pc' = "loop"
    /\ UNCHANGED <<base, res, events>>

\* strtol(.., &tmp, 16) from offset from yields n and stops at tmp = end.  It
\* skips leading white space; without digits it stops where it started.  A negative
\* size is refused.
SizeParses(from, e, n) ==
    LET Digits(j) == /\ At(j).k = "size"
                     /\ \A i \in from .. (j - 1) : At(i).k \in {"cr", "lf"}
    IN  \/ \E j \in from .. (e - 1) : Digits(j) /\ j + 1 = e /\ n = At(j).n
        \/ from = e /\ n = 0 /\ ~ \E j \in (e + 2) .. (Eod - 1) : Digits(j)

Sizes(from, e) ==
    {n \in {0} \cup {At(j).n : j \in from .. (e - 1)} : n >= 0 /\ SizeParses(from, e, n)}

\* An extension after the size, no size at all, or a negative one.  What strtol()
\* left in the size is not read again.
ChunkSizeBad(c, p) ==
    /\ c.flags = 1 /\ c.chunk_parser_state = "SIZE"
    /\ \E e \in c.chunk_start .. (Eod - 2) :
          FirstCrlf(c.chunk_start, e) /\ Sizes(c.chunk_start, e) = {}
    /\ ctx' = c
    /\ spos' = p
    /\ pc' = "ret" /\ res' = "parse_error"
    /\ UNCHANGED <<base, events>>

ChunkSize(c, p) ==
    /\ c.flags = 1 /\ c.chunk_parser_state = "SIZE"
    /\ \E e \in c.chunk_start .. (Eod - 2) : \E n \in Sizes(c.chunk_start, e) :
          /\ FirstCrlf(c.chunk_start, e)
          /\ spos' = e + 2
          /\ ctx' = [c EXCEPT !.chunk_size = n, !.bodysz = @ + n,
                              !.chunk_start = e + 2, !.chunk_end = e + 2,
                              !.chunk_parser_state = "DATA"]
    /\ pc' = "loop"
    /\ UNCHANGED <<base, res, events>>

\* Chunk data: take what there is of what the chunk still lacks.
ChunkDataMore(c, p) ==
    /\ c.flags = 1 /\ c.chunk_parser_state = "DATA"
    /\ LET needed == c.chunk_size - (c.chunk_end - c.chunk_start)
           incr == Smaller(needed, Eod - p)
       IN  /\ needed > 0
           /\ ctx' = [c EXCEPT !.chunk_end = @ + incr]
           /\ spos' = p + incr
    /\ pc' = "loop"
    /\ UNCHANGED <<base, res, events>>

\* bytestream_recycle(in, 512, off): drops whole blocks up to offset off.
Recycled(off) == {r \in 0 .. off : r % Block = 0 /\ r <= Eod}

\* Mutant: the offsets of the current chunk are not moved with the data.
recycle_keeps_chunk(c, r) ==
    [c EXCEPT !.first_line = 0, !.header_name = 0, !.body_start = 0, !.body_end = 0]

\* recycle_stream_buffer(): r bytes are gone, all offsets into them are reset.
recycle_stream_buffer(c, r) ==
    [c EXCEPT !.first_line = 0, !.header_name = 0,
              !.body_start = 0, !.body_end = 0,
              !.chunk_start = @ - r, !.chunk_end = @ - r]

\* A complete chunk: the callback, then skip its CR LF whether or not it has
\* arrived, recycle, and finish after the empty chunk.
ChunkDone(c, p) ==
    /\ c.flags = 1 /\ c.chunk_parser_state = "DATA"
    /\ c.chunk_end - c.chunk_start >= c.chunk_size
    /\ \/ /\ events' = Log("body", c.chunk_start, c.chunk_end, c.bodysz)
          /\ pc' = "ret" /\ res' = "cb_error"
          /\ ctx' = c /\ spos' = p /\ UNCHANGED base
       \/ \E r \in Recycled(p + 2) :
          /\ base' = base + r
          /\ spos' = p + 2 - r
          /\ ctx' = recycle_stream_buffer(
                        [c EXCEPT !.chunk_parser_state = "SIZE",
                                  !.chunk_start = p + 2, !.chunk_end = p + 2], r)
          /\ LET cb == Log("body", c.chunk_start, c.chunk_end, c.bodysz)
             IN  \/ /\ c.chunk_size > 0
                    /\ events' = cb
                    /\ pc' = "loop" /\ UNCHANGED res
                 \/ /\ c.chunk_size <= 0
                    /\ events' = Append(cb, [ev |-> "end", from |-> base + p + 2,
                                             to |-> base + p + 2, sz |-> c.bodysz])
                    /\ pc' = "ret" /\ res' = "ok"

\* Content-Length: add what is available; incr is negative without a length (-1)
\* and for a negative one, and the position goes back.
Grown(c, p) ==
    LET incr == Smaller(Eod - p, c.bodysz - (c.body_end - c.body_start))
    IN  [c EXCEPT !.body_end = @ + incr, !.chunk_end = c.body_end + incr]

BodyMore(c, p) ==
    LET g == Grown(c, p)
    IN  /\ c.flags = 0
        /\ g.body_end - g.body_start < c.bodysz
        /\ ctx' = g
        /\ spos' = p + (g.body_end - c.body_end)
        /\ pc' = "loop"
        /\ UNCHANGED <<base, res, events>>

BodyDone(c, p) ==
    LET g == Grown(c, p)
        q == p + (g.body_end - c.body_end)
        cb == Log("body", g.chunk_start, g.chunk_end, g.bodysz)
    IN  /\ c.flags = 0
        /\ g.body_end - g.body_start >= c.bodysz
        /\ pc' = "ret"
        /\ \/ /\ events' = cb /\ res' = "cb_error"
              /\ ctx' = g /\ spos' = q /\ UNCHANGED base
           \/ \E r \in Recycled(g.chunk_start) :
              /\ base' = base + r
              /\ spos' = q - r
              /\ ctx' = recycle_stream_buffer(g, r)
              /\ events' = Append(cb, [ev |-> "end", from |-> base + q,
                                       to |-> base + q, sz |-> g.bodysz])
              /\ res' = "ok"

process_body(c, p) ==
    /\ \/ ChunkSizeMore(c, p) \/ ChunkSizeBad(c, p) \/ ChunkSize(c, p)
       \/ ChunkDataMore(c, p) \/ ChunkDone(c, p)
       \/ BodyMore(c, p) \/ BodyDone(c, p)
    /\ UNCHANGED <<wire, rcvd>>

\* Mutant: process_body() follows only when more has been read.
EmptyLineWaits ==
    /\ Ready /\ ctx.parser_state = "HEADER_OUT"
    /\ FirstCrlf(ctx.header_name, ctx.header_name)
    /\ spos' = spos + 2
    /\ ctx' = [ctx EXCEPT !.body_start = spos + 2, !.body_end = spos + 2,
                          !.chunk_start = spos + 2, !.chunk_end = spos + 2,
                          !.parser_state = "BODY"]
    /\ pc' = "loop"
    /\ UNCHANGED <<wire, rcvd, base, res, events>>

\* The empty line ends the header; process_body() follows at once.
EmptyLine ==
    /\ Ready /\ ctx.parser_state = "HEADER_OUT"
    /\ FirstCrlf(ctx.header_name, ctx.header_name)
    /\ LET p == spos + 2
       IN  process_body([ctx EXCEPT !.body_start = p, !.body_end = p,
                                    !.chunk_start = p, !.chunk_end = p,
                                    !.parser_state = "BODY"], p)

Body ==
    /\ Ready /\ ctx.parser_state = "BODY"
    /\ process_body(ctx, spos)

-----------------------------------------------------------------------------
\* A message had a negative Content-Length (other than -1, which is no length): the
\* position went back into its header, whose bytes the parser has overwritten, or in
\* front of the buffer.  What a further call reads there is not modelled.
Astray == res = "ok" /\ ctx.flags = 0 /\ ctx.bodysz < -1

\* The caller has handled the message and parses the next one on the same
\* stream, with the context initialised again.
NextMessage ==
    /\ pc = "ret" /\ res = "ok" /\ ~ Astray
    /\ ctx' = CtxInit
    /\ pc' = "loop" /\ res' = "none"
    /\ UNCHANGED <<wire, rcvd, base, spos, events>>

\* After any other result the caller gives the connection up.
GivenUp == pc = "ret" /\ (res # "ok" \/ Astray)
Stop == GivenUp /\ UNCHANGED vars

ParserInit ==
    /\ rcvd = 0 /\ base = 0 /\ spos = 0
    /\ ctx = CtxInit
    /\ pc = "loop" /\ res = "none"
    /\ events = <<>>

Init == wire \in Wires /\ ParserInit

Parse == \/ Start \/ LineMore \/ LineBad \/ Line
         \/ HeaderIn \/ HeaderMore \/ HeaderBad \/ Header
         \/ EmptyLine \/ Body
         \/ NextMessage

Next == Consume \/ ConsumeEof \/ ConsumeError \/ Parse \/ Stop

Spec == Init /\ [][Next]_vars

-----------------------------------------------------------------------------
\* The types of the stream, the context and the callbacks of the parser.
TypeOK ==
    /\ wire \in Seq(Byte)
    /\ rcvd \in 0 .. Len(wire)
    /\ base \in 0 .. rcvd
    /\ spos \in Int
    /\ ctx \in CtxType
    /\ pc \in {"loop", "step", "ret"}
    /\ res \in Results
    /\ events \in Seq(Event)

Received(evs, n) ==
    \A i \in 1 .. Len(evs) :
        evs[i].to <= IF evs[i].ev = "end" THEN n + 2 ELSE n
InOrder(evs) == \A i \in 1 .. (Len(evs) - 1) : evs[i].to <= evs[i + 1].from
EndsBy(evs, x) == evs # <<>> => evs[Len(evs)].to <= x

\* No callback is made on bytes that have not arrived (process_body may step
\* over a CR LF that is still to come, so only the end may lie beyond).
SeesOnlyReceivedBytes == Received(events, rcvd)

\* The callbacks go through the stream from front to back: none starts before
\* the bytes of the one before it end, whatever the peer sends, however it is
\* cut into reads and whichever blocks process_body() recycles.
CallbacksInOrder == InOrder(events)

\* MNHTTP_PARSE_EMPTY means that the peer closed between two messages: every
\* byte that arrived belongs to a message that was delivered completely.
EmptyOnlyBetweenMessages ==
    res = "empty" =>
        \/ events = <<>> /\ rcvd = 0
        \/ /\ events # <<>>
           /\ events[Len(events)].ev = "end" /\ rcvd <= events[Len(events)].to

\* The last callback was on a body of negative size, which the position has gone
\* back by, and by no more.
BackByLength == events # <<>> /\ spos >= events[Len(events)].sz

\* Message boundaries survive recycling: the offset that the next step of the
\* body parser starts from is never inside the recycled prefix, the stream
\* position is at most the two bytes of a CR LF ahead of the data, and it is in
\* front of the buffer only where process_body() steps back over a negative body
\* size (-1 when a message has no length), by at most that size.
CursorInBuffer ==
    /\ spos <= Eod + 2
    /\ spos >= 0 \/ BackByLength
    /\ ctx.parser_state = "BODY" /\ pc # "ret" =>
          ctx.chunk_start \in 0 .. (Eod + 2)

\* Where the bytes of the next line or field start.
Mark ==
    CASE ctx.parser_state = "LINE" -> ctx.first_line
      [] ctx.parser_state = "HEADER_OUT" -> ctx.header_name
      [] OTHER -> spos

\* What process_body() relies on: what was gathered of a body ends at the stream
\* position, and the data of a chunk that is being read has arrived.
BodyAgrees(c, p) ==
    /\ c.flags = 1 /\ c.chunk_parser_state = "DATA" =>
          c.chunk_end = p /\ c.chunk_start <= p /\ p <= Eod
    /\ c.flags = 0 => c.body_end = p /\ c.chunk_start = c.body_start
    /\ base + c.chunk_start >= 1
    /\ EndsBy(events, base + c.chunk_start)

\* While a call runs, the context's offsets agree with the stream and all
\* callbacks so far lie before the place from which the parser goes on.
Agrees ==
    /\ ctx.parser_state = "HEADER_IN" => spos <= Eod
    /\ ctx.parser_state = "HEADER_OUT" =>
          ctx.header_name <= spos /\ ctx.header_name <= Eod
    /\ ctx.parser_state # "BODY" =>
          /\ ctx.chunk_parser_state # "DATA"
          /\ base + Mark >= 0
          /\ EndsBy(events, base + Mark)
    /\ ctx.parser_state = "BODY" => BodyAgrees(ctx, spos)

\* The inductive invariant behind the two properties above.
ParserInv ==
    /\ TypeOK
    /\ SeesOnlyReceivedBytes
    /\ CallbacksInOrder
    /\ pc # "ret" => Agrees
    /\ res = "ok" /\ ~ Astray => base + spos >= 0 /\ EndsBy(events, base + spos)
    /\ pc = "ret" <=> res # "none"
=============================================================================
