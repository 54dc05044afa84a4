------------------------------ MODULE HttpStream ------------------------------
(***************************************************************************)
(* A peer that sends a stream of HTTP messages, and the parser that reads  *)
(* it.  A stream comes with the callbacks that a correct parser makes for  *)
(* it and the byte ranges they must be given; IsStream says what makes it  *)
(* one, and the properties compare the parser's callbacks with those.      *)
(***************************************************************************)
EXTENDS HttpParser

CONSTANTS Streams,      \* what the peer may send
          Truncate      \* may the peer close before the end of its stream?

\* A stream has bytes, and parts: the callbacks it calls for.  A part "reject" is
\* where it is malformed.  framing[i] is how the fields up to part i frame the body.
\* A body of negative size ends before it starts.
Part == [ev : {"line", "header", "reject"}, from : Nat, to : Nat, sz : {0}]
            \cup [ev : {"body", "end"}, from : Int, to : Int, sz : Int]
Framing == [chunked : BOOLEAN, len : Int]

Kind(s, x) == s.bytes[x + 1].k
CrLfAt(s, x) == x + 2 <= Len(s.bytes) /\ Kind(s, x) = "cr" /\ Kind(s, x + 1) = "lf"

\* f is the start line or the field at offset x.
TextAt(s, f, x, ev, good, bad) ==
    /\ CrLfAt(s, x + 1)
    /\ \/ Kind(s, x) \in good /\ f = [ev |-> ev, from |-> x, to |-> x + 1, sz |-> 0]
       \/ Kind(s, x) \in bad /\ f.ev = "reject"

LineAt(s, f, x) == TextAt(s, f, x, "line", {"line"}, {"badline"})
FieldAt(s, f, x) == TextAt(s, f, x, "header", {"cl", "te", "hdr"}, {"nocolon"})

\* f is the chunk whose size is at offset x; sz bytes of the body precede it.  A
\* size with an extension is malformed.
ChunkAt(s, f, x, sz) ==
    /\ Kind(s, x) = "size"
    /\ \/ /\ CrLfAt(s, x + 1)
          /\ s.bytes[x + 1].n >= 0
          /\ LET n == s.bytes[x + 1].n
             IN  f = [ev |-> "body", from |-> x + 3, to |-> x + 3 + n, sz |-> sz + n]
          /\ CrLfAt(s, f.to)
       \/ Kind(s, x + 1) = "data" /\ CrLfAt(s, x + 2) /\ f.ev = "reject"

\* f is the body, or its first chunk, behind the blank line at offset x.
BodyAt(s, f, x, g) ==
    /\ CrLfAt(s, x)
    /\ \/ g.chunked /\ ChunkAt(s, f, x + 2, 0)
       \/ /\ ~ g.chunked
          /\ f = [ev |-> "body", from |-> x + 2, to |-> x + 2 + g.len, sz |-> g.len]
          /\ f.to <= Len(s.bytes)

\* The offset behind part i and the CR LF that belongs to it.
Behind(s, i) ==
    IF i = 0 THEN 0
    ELSE LET e == s.parts[i]
             bare == e.ev = "end" \/ (e.ev = "body" /\ ~ s.framing[i].chunked)
         IN  e.to + IF bare THEN 0 ELSE 2

\* A message starts here: the stream begins, or a message has ended.
Starts(s, i) == i = 0 \/ (s.parts[i].ev = "end" /\ s.parts[i].sz >= 0)

\* A message without a length, or with a negative one, has ended: the parser goes
\* back into its header.  Such a message is the last of a stream.
Strays(s, i) == i > 0 /\ s.parts[i].ev = "end" /\ s.parts[i].sz < 0

LastChunk(s, i) == s.parts[i].from = s.parts[i].to

\* Part i + 1 is what follows part i.
Follows(s, i) ==
    LET x == Behind(s, i)
        f == s.parts[i + 1]
    IN  IF Starts(s, i) THEN LineAt(s, f, x)
        ELSE LET e == s.parts[i]
                 g == s.framing[i]
             IN  \/ e.ev \in {"line", "header"} /\ (FieldAt(s, f, x) \/ BodyAt(s, f, x, g))
                 \/ /\ e.ev = "body" /\ g.chunked /\ ~ LastChunk(s, i)
                    /\ ChunkAt(s, f, x, e.sz)
                 \/ /\ e.ev = "body" /\ (g.chunked => LastChunk(s, i))
                    /\ f = [ev |-> "end", from |-> x, to |-> x, sz |-> e.sz]

\* Chunks overrule a length in front of them; one behind them is excluded.
Frames(s, i) ==
    LET e == s.parts[i]
        b == s.bytes[e.from + 1]
    IN  /\ e.ev = "line" => s.framing[i] = [chunked |-> FALSE, len |-> -1]
        /\ e.ev = "header" =>
              /\ b.k = "cl" => /\ ~ s.framing[i - 1].chunked
                               /\ s.framing[i] = [chunked |-> FALSE, len |-> b.n]
              /\ b.k = "te" => s.framing[i] = [chunked |-> TRUE, len |-> 0]
              /\ b.k = "hdr" => s.framing[i] = s.framing[i - 1]
        /\ e.ev = "body" => s.framing[i] = s.framing[i - 1]

Malformed(s) == s.parts # <<>> /\ s.parts[Len(s.parts)].ev = "reject"

IsStream(s) ==
    /\ s.bytes \in Seq(Byte) /\ s.parts \in Seq(Part) /\ s.framing \in Seq(Framing)
    /\ Len(s.framing) = Len(s.parts)
    /\ \A i \in 0 .. (Len(s.parts) - 1) : Follows(s, i)
    /\ \A i \in 1 .. Len(s.parts) : Frames(s, i)
    /\ LET last == Len(s.parts)
       IN  \/ Malformed(s)
           \/ Starts(s, last) /\ Behind(s, last) = Len(s.bytes)
           \/ Strays(s, last) /\ Behind(s, last) - s.parts[last].sz = Len(s.bytes)

ASSUME StreamAssumption == \A s \in Streams : IsStream(s)

\* The callbacks of a stream: none for what the parser has to reject.
Callbacks(s) == SubSeq(s.parts, 1, IF Malformed(s) THEN Len(s.parts) - 1 ELSE Len(s.parts))

VARIABLE stream         \* the stream being sent, of which wire may be cut short

StreamVars == <<vars, stream>>

StreamInit ==
    /\ stream \in Streams
    /\ \E cut \in 0 .. Len(stream.bytes) :
          /\ ~ Truncate => cut = Len(stream.bytes)
          /\ wire = SubSeq(stream.bytes, 1, cut)
    /\ ParserInit

StreamNext == Next /\ UNCHANGED stream

StreamSpec == StreamInit /\ [][StreamNext]_StreamVars

\* The thread running the parser is scheduled, and its reads return: the peer
\* sends its bytes or closes.
FairStreamSpec ==
    StreamSpec /\ WF_StreamVars((Consume \/ ConsumeEof \/ Parse) /\ UNCHANGED stream)

-----------------------------------------------------------------------------
\* However the stream is cut into reads, and wherever blocks are recycled, the
\* callbacks made so far are the first of those the messages call for, each on
\* exactly its bytes: no body byte is lost, repeated or taken from the framing,
\* and each message starts where the one before it ended (_http_parse_message).
DeliversMessages ==
    /\ Len(events) <= Len(Callbacks(stream))
    /\ \A i \in 1 .. Len(events) : events[i] = Callbacks(stream)[i]

\* A message is rejected only if it is malformed, and then all that precedes
\* the malformed part was delivered: fragmentation never causes an error.
RejectsOnlyMalformed ==
    res = "parse_error" => Malformed(stream) /\ events = Callbacks(stream)

\* What a caller relies on: see MessageDelivery.
Delivery == INSTANCE MessageDelivery
                WITH messages <- Callbacks(stream), delivered <- events, over <- GivenUp

\* The parser implements MessageDelivery: as long as neither a read nor a
\* callback fails, all callbacks of all messages are made, once and in order, and
\* the connection is given up at last: the loop of _http_parse_message() never
\* spins without reading.
ImplementsDelivery == Delivery!FairSpec

\* A stream sent completely is delivered completely, unless a read or a callback
\* fails: no sequence of reads makes _http_parse_message() wait for bytes that it
\* already has, and so meet the end of the stream in a message it holds entirely.
EventuallyDelivers ==
    wire = stream.bytes =>
        <>(res \in {"read_error", "cb_error"} \/ events = Callbacks(stream))
=============================================================================
