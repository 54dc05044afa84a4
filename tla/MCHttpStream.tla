----------------------------- MODULE MCHttpStream -----------------------------
(* Small streams for HttpStream, laid out from messages.  *)
EXTENDS HttpStream, SequencesExt

B(kind) == [k |-> kind, n |-> 0]
Num(kind, num) == [k |-> kind, n |-> num]
CrLf == <<B("cr"), B("lf")>>
Te == B("te")
D == B("data")

\* A message: its start line, its header fields and its body, which is the
\* sequence of its chunks (one piece when its length is given in the header).
\* badsize: the first chunk size is followed by an extension.
Msg(hdrs, body) == [line |-> B("line"), hdrs |-> hdrs, body |-> body, badsize |-> FALSE]

Piece(ev, bytes, sz) == [ev |-> ev, bytes |-> bytes, sz |-> sz]
Skip(bytes) == Piece("skip", bytes, 0)

Total(body) == FoldLeft(LAMBDA acc, chunk : acc + Len(chunk), 0, body)
Has(m, kind) == \E i \in DOMAIN m.hdrs : m.hdrs[i].k = kind

HeaderLayout(m) ==
    FlattenSeq([i \in DOMAIN m.hdrs |->
        <<Piece(IF m.hdrs[i].k = "nocolon" THEN "reject" ELSE "header", <<m.hdrs[i]>>, 0),
          Skip(CrLf)>>])

\* What the header says of the length: -1 without a Content-Length.
Length(m) == FoldLeft(LAMBDA acc, h : IF h.k = "cl" THEN h.n ELSE acc, -1, m.hdrs)

\* Chunks carry their size; the last one is empty.
ChunkLayout(m) ==
    LET all == Append(m.body, <<>>)
        Size(i) == <<Num("size", Len(all[i]))>>
    IN  FlattenSeq([i \in DOMAIN all |->
            <<IF m.badsize /\ i = 1 THEN Piece("reject", Size(i) \o <<D>> \o CrLf, 0)
                                    ELSE Skip(Size(i) \o CrLf),
              Piece("body", all[i], Total(SubSeq(all, 1, i))),
              Skip(CrLf)>>])

Layout(m) ==
    <<Piece(IF m.line.k = "line" THEN "line" ELSE "reject", <<m.line>>, 0), Skip(CrLf)>>
        \o HeaderLayout(m) \o <<Skip(CrLf)>>
        \o (IF Has(m, "te") THEN ChunkLayout(m)
                            ELSE <<Piece("body", FlattenSeq(m.body), Length(m))>>)
        \o <<Piece("end", <<>>, IF Has(m, "te") THEN Total(m.body) ELSE Length(m))>>

\* How the fields of m up to and including the one of piece p frame its body.
FramedBy(g, p) ==
    CASE p.ev = "line" -> [chunked |-> FALSE, len |-> -1]
      [] p.ev = "header" /\ p.bytes[1].k = "cl" -> [g EXCEPT !.len = p.bytes[1].n]
      [] p.ev = "header" /\ p.bytes[1].k = "te" -> [chunked |-> TRUE, len |-> 0]
      [] OTHER -> g

StreamOf(script) ==
    LET pieces == FlattenSeq([i \in DOMAIN script |-> Layout(script[i])])
        Add(acc, p) ==
            LET to == acc.off + IF p.ev = "body" /\ p.sz < 0 THEN p.sz ELSE Len(p.bytes)
                g == FramedBy(acc.g, p)
                over == acc.over \/ p.ev = "skip"
            IN  [off |-> to, g |-> g, over |-> acc.over \/ p.ev = "reject",
                 parts |-> IF over THEN acc.parts
                           ELSE Append(acc.parts, [ev |-> p.ev, from |-> acc.off, to |-> to, sz |-> p.sz]),
                 framing |-> IF over THEN acc.framing ELSE Append(acc.framing, g)]
        all == FoldLeft(Add, [off |-> 0, over |-> FALSE, parts |-> <<>>, framing |-> <<>>,
                              g |-> [chunked |-> FALSE, len |-> -1]], pieces)
    IN  [bytes |-> FlattenSeq([i \in DOMAIN pieces |-> pieces[i].bytes]),
         parts |-> all.parts, framing |-> all.framing]

\* Body bytes that look like framing are part of the streams.
Chunked == Msg(<<Te>>, << <<D>>, CrLf \o <<D>> >>)

GoodMessages ==
    {Msg(<<Num("cl", 0)>>, << >>),
     Msg(<<B("hdr"), Num("cl", 3)>>, << <<D, B("cr"), B("lf")>> >>),
     Msg(<<Te>>, << >>),
     Chunked}

BadMessages ==
    {[Msg(<<Num("cl", 0)>>, << >>) EXCEPT !.line = B("badline")],
     Msg(<<Num("cl", 1), B("nocolon")>>, << <<D>> >>),
     [Msg(<<Te>>, << <<D>> >>) EXCEPT !.badsize = TRUE]}

\* Messages without a length, and with a negative one.
Lengthless == Msg(<<B("hdr")>>, << >>)
Negative == Msg(<<Num("cl", -7)>>, << >>)

\* A message with both fields: the chunks decide.
Both == Msg(<<Num("cl", 3), Te>>, << <<D, D, D>>, <<D>> >>)

MCGoodStreams ==
    {StreamOf(script) : script \in {<<m>> : m \in GoodMessages} \cup (GoodMessages \X GoodMessages)}

\* Every message alone, and good ones behind one of their kind or behind chunks.
MCStreams ==
    {StreamOf(script) : script \in
        {<<m>> : m \in GoodMessages \cup BadMessages \cup {Both, Lengthless, Negative}}
            \cup {<<m, m>> : m \in GoodMessages}
            \cup {<<Chunked, m>> : m \in GoodMessages}}
=============================================================================
