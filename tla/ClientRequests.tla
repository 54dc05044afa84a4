---------------------------- MODULE ClientRequests ----------------------------
(***************************************************************************)
(* The requests of the HTTP client and its pool of connections: what       *)
(* mnhttpc.c does with a request from mnhttpc_new() to                     *)
(* mnhttpc_request_destroy(), and what a peer reads of it.                 *)
(*                                                                         *)
(* A user is a thread with one request at a time.  What happens inside     *)
(* mnhttpc_request_finalize() between the semaphore and the response is    *)
(* modelled in HttpClient; here it is one step, which writes the request.  *)
(***************************************************************************)
EXTENDS HttpUri

CONSTANTS Users,
          Texts,        \* the URIs that each user may ask for: a set of functions
          Proxies,      \* pairs of a host and a port, Null for none
          Names, Values,\* of query terms
          Bodies,       \* what the body callback of a request has to send
          MaxTerms      \* bound: query terms, and header fields, of each user

ASSUME RequestAssumption ==
    /\ \A t \in Texts :
          t \in [Users -> {Null} \cup [scheme : Schemes \cup {Null}, rest : Text]]
    /\ Names \subseteq PlainText /\ Values \subseteq PlainText
    /\ Bodies \subseteq Seq(0 .. 255)

VARIABLES text,         \* the URI that each user asks for
          req,          \* the request that each user holds, or Null
          pool,         \* cli->connections, in the order they were made
          wire          \* what finalize wrote for each request, or Null

vars == <<text, req, pool, wire>>

\* Mutant: the hash leaves out the port.
KeyNoPort(proxy, uri) == <<proxy, uri.host, Null>>

\* mnhttpc_connection_hash() of a connection, by which alone it is compared.
Key(proxy, uri) == <<proxy, uri.host, uri.port>>

\* mnhttpc_connection_new(): the streams are those of OpenSSL for https alone.
mnhttpc_connection_new(proxy, uri) ==
    [proxy |-> proxy, host |-> uri.host, port |-> uri.port,
     ssl |-> uri.scheme = "https", key |-> Key(proxy, uri)]

Init ==
    /\ text \in Texts
    /\ req = [u \in Users |-> Null]
    /\ pool = <<>>
    /\ wire = [u \in Users |-> Null]

Usable(uri) == \A f \in {"host", "port", "relative", "path"} : uri[f] \notin {Null, <<>>}

\* mnhttpc_new().  A URI that is not usable makes no request.
New(u, proxy) ==
    LET uri == mnhttp_uri_parse(text[u])
        conn == FirstWhere(pool, LAMBDA c : c.key = Key(proxy, uri))
    IN  /\ text[u] # Null /\ req[u] = Null
        /\ Usable(uri)
        /\ pool' = IF conn = 0 THEN Append(pool, mnhttpc_connection_new(proxy, uri)) ELSE pool
        /\ req' = [req EXCEPT ![u] =
                     [uri |-> uri, proxy |-> proxy, terms |-> <<>>, fields |-> <<>>,
                      conn |-> IF conn = 0 THEN Len(pool) + 1 ELSE conn]]
        /\ UNCHANGED <<text, wire>>

Open(u) == req[u] # Null /\ wire[u] = Null

\* mnhttpc_request_out_qterm_addb().
AddTerm(u, name, value) ==
    /\ Open(u) /\ Len(req[u].terms) < MaxTerms[u]
    /\ req' = [req EXCEPT ![u].terms = Append(@, <<name, value>>)]
    /\ UNCHANGED <<text, pool, wire>>

\* mnhttpc_request_out_field_addb(), _addt() and _addf(): the length of a name and
\* its value.
AddField(u, sz) ==
    /\ Open(u) /\ Len(req[u].fields) < MaxTerms[u]
    /\ req' = [req EXCEPT ![u].fields = Append(@, sz)]
    /\ UNCHANGED <<text, pool, wire>>

\* What is reserved for a piece of text, and what it needs with its NUL.
Piece(room, need) == [room |-> room, need |-> need]

Pieces(terms, fields) ==
    {Piece(encsz(terms), BSZ(Encoded(terms[i][j]))) : i \in DOMAIN terms, j \in {1, 2}}
    \cup {Piece(FieldRoom(sz + 4), sz + 5) : sz \in Range(fields)}

\* mnhttpc_request_finalize(), with a body callback that sends body encoded.
\* The hash gives its items in any order.
Finalize(u, body) ==
    /\ Open(u)
    /\ \E order \in Bijection(DOMAIN req[u].terms, DOMAIN req[u].terms) :
         LET terms == [i \in DOMAIN order |-> req[u].terms[order[i]]]
         IN  wire' = [wire EXCEPT ![u] =
                        [target |-> RequestTarget(req[u].uri, terms),
                         data |-> body, body |-> http_urlencode_reserved(body),
                         pieces |-> Pieces(terms, req[u].fields)]]
    /\ UNCHANGED <<text, req, pool>>

\* mnhttpc_request_destroy().
Destroy(u) ==
    /\ req[u] # Null
    /\ req' = [req EXCEPT ![u] = Null]
    /\ wire' = [wire EXCEPT ![u] = Null]
    /\ UNCHANGED <<text, pool>>

Next ==
    \E u \in Users :
        \/ \E proxy \in Proxies : New(u, proxy)
        \/ \E name \in Names, value \in Values : AddTerm(u, name, value)
        \/ \E sz \in 1 .. Reserve : AddField(u, sz)
        \/ \E body \in Bodies : Finalize(u, body)
        \/ Destroy(u)

Spec == Init /\ [][Next]_vars

-----------------------------------------------------------------------------
(* Properties.                                                             *)

Uris == {<<text[u], mnhttp_uri_parse(text[u])>> : u \in {v \in Users : text[v] # Null}}

Part(before, s, after) == IF s = Null THEN <<>> ELSE before \o s \o after

\* A text of these components.
Composed(c) ==
    Part(<<>>, c.user, Part(<<":">>, c.password, <<>>) \o <<"@">>)
    \o c.host \o Part(<<":">>, c.port, <<>>)
    \o Part(<<>>, c.path, <<>>) \o Part(<<"?">>, c.qstring, <<>>)
    \o Part(<<>>, c.fragment, <<>>)

Free(s, delims) == s = Null \/ Range(s) \cap delims = {}

\* mnhttp_uri_parse() takes any text apart without losing a character: its
\* components, with the port as it was given, make up the text again, and each
\* ends at the first delimiter that can end it, so that the delimiters of one
\* component are never taken for those of another.
UriTakenApart ==
    \A p \in Uris :
        LET uri == p[2]
        IN  /\ \E port \in {uri.port, Null, <<>>} :
                 Composed([uri EXCEPT !.port = port]) = p[1].rest
            /\ Free(uri.user, {":", "@", "/"}) /\ Free(uri.password, {"@", "/"})
            /\ Free(uri.host, {":", "/"}) /\ Free(uri.port, {"/"})
            /\ uri.user = Null => Free(uri.host, {"@"}) /\ Free(uri.port, {"@"})
            /\ uri.fragment # Null => Free(uri.qstring, {"#"})
            /\ uri.path # Null /\ p[1].scheme # "serial" =>
                 /\ Free(uri.path, {"?"})
                 /\ uri.qstring = Null => Free(uri.path, {"#"})

Live == {u \in Users : req[u] # Null}

\* Requests share a connection just when their peer is the same, proxy, host and
\* port, and it is a connection to that peer: what the assertions of
\* mnhttpc_new() say, which compare connections by their hash alone.
PoolByPeer ==
    /\ \A u, v \in Live :
         req[u].conn = req[v].conn
             <=> /\ req[u].proxy = req[v].proxy
                 /\ req[u].uri.host = req[v].uri.host /\ req[u].uri.port = req[v].uri.port
    /\ \A u \in Live :
         LET conn == pool[req[u].conn]
         IN  /\ conn.proxy = req[u].proxy
             /\ conn.host = req[u].uri.host /\ conn.port = req[u].uri.port

\* When no URI names a port of its own, a request for https goes over TLS and one
\* for http does not, whoever opened the connection: the pool does not look at the
\* scheme, and the default ports keep them apart.  (With a port of their own, even
\* one that is no scheme's default, requests for both schemes share a connection.)
TlsByScheme ==
    (\A p \in Uris : /\ p[1].scheme \in {"http", "https"}
                     /\ Authority(AuthorityText(p[1])).port = Null)
        => \A u \in Live : pool[req[u].conn].ssl = (req[u].uri.scheme = "https")

\* The query terms that the peer's mnhttp_uri_parse() and mnhttp_parse_qterms()
\* find in a request line.
ReadsTerms(target, path, terms) ==
    LET uri == mnhttp_uri_parse([scheme |-> Null, rest |-> target])
        items == IF uri.qstring = Null THEN <<>>
                 ELSE mnhttp_parse_qterms(uri.qstring, "=", "&")
    IN  /\ uri.path = path
        /\ \E perm \in Bijection(DOMAIN items, DOMAIN items) :
             [i \in DOMAIN items |-> items[perm[i]]] = terms

\* A peer that uses this library reads what was asked for.  Its http_urldecode()
\* finds in the body what http_urlencode_reserved() was given, in front of the end
\* that it returns.  In the request line it finds the path and the query terms,
\* delimiters in a name or a value included, unless the URI brings a query or a
\* fragment: terms are put behind that as they are.
PeerReadsRequest ==
    \A u \in Live : wire[u] # Null =>
        LET d == http_urldecode(wire[u].body)
            uri == req[u].uri
        IN  /\ d # Null /\ d.dst = Len(wire[u].data) /\ SubSeq(d.buf, 1, d.dst) = wire[u].data
            /\ uri.qstring \in {Null, <<>>} /\ uri.fragment = Null
                 => ReadsTerms(wire[u].target, uri.path, req[u].terms)

\* What is reserved for an encoded term and for a header field holds it with its
\* NUL, at every length.
RoomForPieces ==
    \A u \in Live : wire[u] # Null => \A p \in wire[u].pieces : p.need <= p.room

\* The ports that test/testhttpuri.c expects of URIs without scheme and port.
PortAsTested ==
    \A p \in Uris : p[1].scheme = Null /\ Authority(AuthorityText(p[1])).port = Null
                    => p[2].port = <<"80">>
=============================================================================
