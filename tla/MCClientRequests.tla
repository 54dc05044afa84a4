--------------------------- MODULE MCClientRequests ---------------------------
(* Small URIs for ClientRequests.  *)
EXTENDS ClientRequests, SequencesExt

CONSTANTS u1, u2, u3, u4, WildLen

Chars == {"a", "443", ":", "@", "/", "?", "#"}

\* Any text of at most WildLen characters, ...
Wild == [scheme : Schemes \cup {Null}, rest : SeqOf(Chars, WildLen)]

\* ... and URIs of every component.
Full ==
    LET a == <<"a">>
        c == [user : {Null, a, <<>>}, password : {Null, a, <<":">>}, host : {a, <<>>},
              port : {Null, a, <<"@">>}, path : {<<"/">>, <<"/", "@", ":", "#">>},
              qstring : {Null, a}, fragment : {Null, <<"#", "a", "?">>}]
    IN  [scheme : {"https", Null}, rest : {Composed(x) : x \in c}]

\* URIs for two users that may share a connection, ...
Shared ==
    [scheme : {"http", "https"}, rest : {<<"a", "/">>, <<"b", "/">>}]
        \cup {[scheme |-> "http", rest |-> <<"a", ":", "443", "/">>]}

\* ... and for one that adds terms.
Plain == [scheme : {"http"}, rest : {<<"a", "/">>, <<"a", "/", "?">>, <<"a", "/", "?", "a">>}]

Alone(u, t) == [v \in Users |-> IF v = u THEN t ELSE Null]

MCTexts ==
    {Alone(u3, t) : t \in Wild \cup Full} \cup {Alone(u4, t) : t \in Plain}
        \cup {[Alone(u1, s) EXCEPT ![u2] = t] : s, t \in Shared}

MCMaxTerms == [u \in Users |-> IF u = u4 THEN 2 ELSE 0]

Proxy == << <<"p">>, <<"443">> >>
MCProxies == {Null, Proxy}
MCNames == {<<"a">>, <<"=", "&">>}
MCValues == {<<>>, <<"#", "=">>}

\* '%', a digit, '/' and a letter.
MCBodies == {<<>>, <<37, 50>>, <<122, 47, 255>>}
=============================================================================
