-------------------------------- MODULE HttpUri --------------------------------
(***************************************************************************)
(* The URIs of mnhttp.c: the parser, the query terms, the request line     *)
(* that is written from them, and the memory that the writers reserve.     *)
(*                                                                         *)
(* A text is a sequence of characters; only delimiters, and the port 443,  *)
(* are told apart.  An escaped character is one character, "%=" for "=".   *)
(***************************************************************************)
EXTENDS Naturals, Sequences, FiniteSets, Traversal

CONSTANTS Null,         \* the pointer NULL
          Reserve       \* what http_add_header_field() rounds to: 4096

Schemes == {"http", "https", "ws", "wss", "tcp", "udp", "serial"}

Text == Seq(STRING)

\* The last is a fact about STRING that no prover has built in.
ASSUME UriAssumption ==
    /\ Reserve \in Nat \ {0}
    /\ Null \notin Schemes /\ Null \notin Text
    /\ {":", "@", "/", "?", "#", "=", "&", "%=", "%&", "%#", "80", "443"} \subseteq STRING

\* strchr(s, c): where c is first found, or 0 for NULL.
strchr(s, c) == FirstWhere(s, LAMBDA x : x = c)

Before(s, i) == SubSeq(s, 1, i - 1)
After(s, i) == SubSeq(s, i + 1, Len(s))

-----------------------------------------------------------------------------
(* mnhttp_uri_parse().                                                     *)

\* The part from the first '/' on.  A '#' is looked for behind the first '?'.
Target(t) ==
    LET q == strchr(t, "?")
        tail == IF q = 0 THEN t ELSE After(t, q)
        f == strchr(tail, "#")
        body == IF f = 0 THEN tail ELSE Before(tail, f)
    IN  [path |-> IF q = 0 THEN body ELSE Before(t, q),
         qstring |-> IF q = 0 THEN Null ELSE body,
         fragment |-> IF f = 0 THEN Null ELSE SubSeq(tail, f, Len(tail))]

\* Mutant: a ':' in front of the '@' is taken for the one of the port.
AuthorityFirstColon(a) ==
    LET at == strchr(a, "@")
        p == strchr(a, ":")
    IN  [user |-> IF at = 0 THEN Null ELSE Before(a, at),
         password |-> Null,
         host |-> IF p = 0 THEN After(a, at) ELSE SubSeq(a, at + 1, p - 1),
         port |-> IF p = 0 THEN Null ELSE After(a, p)]

\* The part in front of it, or all of the text: user, password, host and port.
Authority(a) ==
    LET at == strchr(a, "@")
        cred == Before(a, at)
        c == strchr(cred, ":")
        hp == After(a, at)
        p == strchr(hp, ":")
    IN  [user |-> IF at = 0 THEN Null ELSE IF c = 0 THEN cred ELSE Before(cred, c),
         password |-> IF at = 0 \/ c = 0 THEN Null ELSE After(cred, c),
         host |-> IF p = 0 THEN hp ELSE Before(hp, p),
         port |-> IF p = 0 THEN Null ELSE After(hp, p)]

\* Mutant: the default is that of http, whatever the scheme.
DefaultPortHttp(scheme, port) == IF port \notin {Null, <<>>} THEN port ELSE <<"80">>

\* A port that is missing or empty is derived from the scheme, ...
DefaultPort(scheme, port) ==
    IF port \notin {Null, <<>>} THEN port
    ELSE IF scheme \in {"https", "wss"} THEN <<"443">>
    ELSE IF scheme \in {"http", "ws"} THEN <<"80">>
    ELSE Null

\* ... and after that a missing scheme from the port.
DefaultScheme(scheme, port) ==
    IF scheme # Null THEN scheme ELSE IF port = <<"443">> THEN "https" ELSE "http"

\* The authority of a text: up to the first '/', if there is one.
AuthorityText(text) ==
    LET slash == strchr(text.rest, "/")
    IN  IF slash = 0 THEN text.rest ELSE Before(text.rest, slash)

\* text.scheme is the scheme that the text starts with, or Null, and text.rest
\* what is behind it.
mnhttp_uri_parse(text) ==
    LET slash == strchr(text.rest, "/")
        t == SubSeq(text.rest, slash, Len(text.rest))
        none == [path |-> Null, qstring |-> Null, fragment |-> Null]
        tgt == IF slash = 0 THEN none
               ELSE IF text.scheme = "serial" THEN [none EXCEPT !.path = t]
               ELSE Target(t)
        auth == Authority(AuthorityText(text))
        port == DefaultPort(text.scheme, auth.port)
    IN  [scheme |-> DefaultScheme(text.scheme, port),
         user |-> auth.user, password |-> auth.password,
         host |-> auth.host, port |-> port,
         relative |-> IF slash = 0 \/ text.scheme = "serial" THEN Null ELSE t,
         path |-> tgt.path, qstring |-> tgt.qstring, fragment |-> tgt.fragment]

-----------------------------------------------------------------------------
(* Query terms.                                                            *)

\* MNHTTP_PARSE_QTERMS_FIND_PAIR: a key, and what is behind the first fdelim;
\* nothing for an empty key.
FindPair(s, fdelim) ==
    LET j == strchr(s, fdelim)
        key == IF j = 0 THEN s ELSE Before(s, j)
    IN  IF key = <<>> THEN <<>>
        ELSE << <<key, IF j = 0 THEN <<>> ELSE After(s, j)>> >>

\* A text without escaped characters.
PlainText == {s \in Text : \A i \in DOMAIN s : s[i] \notin {"%=", "%&", "%#"}}

\* bytes_urldecode() and bytes_str_urlencode2() of the bytes library.
Escaped(c) == CASE c = "=" -> "%=" [] c = "&" -> "%&" [] c = "#" -> "%#" [] OTHER -> c
Unescaped(c) == CASE c = "%=" -> "=" [] c = "%&" -> "&" [] c = "%#" -> "#" [] OTHER -> c

Encoded(s) == [i \in DOMAIN s |-> Escaped(s[i])]
Decoded(s) == [i \in DOMAIN s |-> Unescaped(s[i])]

\* The items that mnhttp_parse_qterms() puts into the hash, in their order.
mnhttp_parse_qterms(s, fdelim, rdelim) ==
    LET Step(acc, i) ==
            IF s[i] = rdelim
              THEN [i0 |-> i + 1,
                    items |-> acc.items \o FindPair(SubSeq(s, acc.i0, i - 1), fdelim)]
              ELSE acc
        loop == Loop(Step, [i0 |-> 1, items |-> <<>>], s)
        items == loop.items \o FindPair(SubSeq(s, loop.i0, Len(s)), fdelim)
    IN  [i \in DOMAIN items |-> <<Decoded(items[i][1]), Decoded(items[i][2])>>]

-----------------------------------------------------------------------------
(* What mnhttp_uri_start_request() and http_add_header_field() write.      *)

\* Mutant: the terms are not joined, and the last is not told from the next.
TermsUnjoined(terms) ==
    LET Step(acc, i) == acc \o Encoded(terms[i][1]) \o <<"=">> \o Encoded(terms[i][2])
    IN  Loop(Step, <<>>, terms)

Terms(terms) ==
    LET Step(acc, i) == acc \o (IF i = 1 THEN <<>> ELSE <<"&">>)
                            \o Encoded(terms[i][1]) \o <<"=">> \o Encoded(terms[i][2])
    IN  Loop(Step, <<>>, terms)

\* The second word of the request line.  The last byte of uri->relative is its
\* NUL, so that a '?' depends on uri->qstring alone.
RequestTarget(uri, terms) ==
    uri.relative \o (IF terms # <<>> /\ uri.qstring = Null THEN <<"?">> ELSE <<>>)
                 \o Terms(terms)

\* The bytes of a text, with its NUL.
BSZ(s) == Len(s) + 2 * Cardinality({i \in DOMAIN s : s[i] \in {"%=", "%&", "%#"}}) + 1

\* uri->qtermsz.
qtermsz(terms) ==
    Loop(LAMBDA sz, i : sz + BSZ(terms[i][1]) + BSZ(terms[i][2]), 0, terms)

\* The size of keyenc and of valueenc.
encsz(terms) == qtermsz(terms) * 3 + 1

\* Mutant: a length that is a multiple is left as it is.
FieldRoomRounded(sz) == sz + ((Reserve - (sz % Reserve)) % Reserve)

\* What is reserved for a header field of sz bytes.
FieldRoom(sz) == sz + (Reserve - (sz % Reserve))

-----------------------------------------------------------------------------
(* http_urlencode_reserved() and http_urldecode(), on byte values.         *)

\* charflags[c] & RFC3986_UNRESERVED: letters, '-', '.', '_' and '~'; a digit is
\* not among them.
Unreserved == (65 .. 90) \cup (97 .. 122) \cup {45, 46, 95, 126}

HexDigit(n) == IF n < 10 THEN 48 + n ELSE 55 + n

HexValue(c) == CASE c \in 48 .. 57 -> c - 48
                 [] c \in 97 .. 102 -> c - 87
                 [] c \in 65 .. 70 -> c - 55
                 [] OTHER -> 16

http_urlencode_reserved(s) ==
    LET Step(acc, i) ==
            acc \o (IF s[i] \in Unreserved THEN <<s[i]>>
                    ELSE <<37, HexDigit(s[i] \div 16), HexDigit(s[i] % 16)>>)
    IN  Loop(Step, <<>>, s)

\* One of the two characters behind '%'.
HexPair(acc, c) ==
    [acc EXCEPT !.need = @ - 1, !.bad = acc.bad \/ HexValue(c) = 16,
                !.out = IF acc.need = 2 THEN Append(@, 16 * HexValue(c))
                        ELSE [@ EXCEPT ![Len(@)] = @ + HexValue(c)]]

\* The text is decoded in its place.  Returned is where it ends: nothing is
\* written there.  A '%' without two digits, the NUL not being one, is refused.
http_urldecode(s) ==
    LET Step(acc, i) ==
            IF acc.bad THEN acc
            ELSE IF acc.need > 0 THEN HexPair(acc, s[i])
            ELSE IF s[i] = 37 THEN [acc EXCEPT !.need = 2]
            ELSE [acc EXCEPT !.out = Append(@, s[i])]
        loop == Loop(Step, [out |-> <<>>, need |-> 0, bad |-> FALSE], s)
    IN  IF loop.bad \/ loop.need > 0 THEN Null
        ELSE [buf |-> loop.out \o SubSeq(s, Len(loop.out) + 1, Len(s)),
              dst |-> Len(loop.out)]
=============================================================================
