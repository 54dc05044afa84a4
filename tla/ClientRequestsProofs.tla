------------------------- MODULE ClientRequestsProofs -------------------------
(***************************************************************************)
(* Proofs about HttpUri and ClientRequests, for every text of a URI, any   *)
(* number of users and of connections.                                     *)
(***************************************************************************)
EXTENDS ClientRequests, WellFoundedInduction, TLAPS

-----------------------------------------------------------------------------
(* Texts.                                                                  *)

LEMMA Appended ==
    ASSUME NEW S, NEW s \in Seq(S), NEW x \in S
    PROVE  /\ Append(s, x) \in Seq(S) /\ Len(Append(s, x)) = Len(s) + 1
           /\ \A i \in 1 .. Len(s) : Append(s, x)[i] = s[i]
           /\ Append(s, x)[Len(s) + 1] = x
  OBVIOUS

LEMMA Smallest ==
    ASSUME NEW S \in SUBSET Nat, S # {}
    PROVE  Min(S) \in S /\ \A y \in S : Min(S) <= y
<1> DEFINE R == OpToRel(<, Nat)
<1>1. IsWellFoundedOn(R, Nat)
  BY NatLessThanWellFounded, Zenon
<1>2. \A x, y \in Nat : x < y => <<x, y>> \in R
  BY Zenon DEF OpToRel
<1> HIDE DEF R
<1>3. PICK x \in S : \A y \in S : ~(<<y, x>> \in R)
  BY <1>1, WFMin, Zenon
<1>4. \A y \in S : ~(y < x)
  BY <1>2, <1>3, Zenon
<1>5. \A y \in S : x <= y
  BY <1>4
<1> QED
  BY <1>5, Zenon DEF Min

\* strchr() finds the first occurrence, or there is none.
LEMMA StrchrFinds ==
    ASSUME NEW s \in Text, NEW c
    PROVE  /\ strchr(s, c) \in 0 .. Len(s)
           /\ strchr(s, c) = 0 => \A i \in 1 .. Len(s) : s[i] # c
           /\ strchr(s, c) # 0 =>
                 /\ s[strchr(s, c)] = c
                 /\ \A i \in 1 .. (strchr(s, c) - 1) : s[i] # c
<1> DEFINE I == {i \in 1 .. Len(s) : s[i] = c}
           k == strchr(s, c)
<1>0. Len(s) \in Nat
  BY DEF Text
<1>1. k = IF I # {} THEN Min(I) ELSE 0
  BY Zenon DEF strchr, FirstWhere, Where
<1> HIDE DEF k
<1> DEFINE Found == /\ k \in 0 .. Len(s)
                    /\ k = 0 => \A i \in 1 .. Len(s) : s[i] # c
                    /\ k # 0 => s[k] = c /\ \A i \in 1 .. (k - 1) : s[i] # c
<1>2. ASSUME I = {} PROVE Found
  BY <1>0, <1>1, <1>2
<1>3. ASSUME I # {} PROVE Found
  <2>1. I \in SUBSET Nat
    BY <1>0
  <2>2. k \in I /\ \A y \in I : k <= y
    BY <1>1, <1>3, <2>1, Smallest, Zenon
  <2> QED BY <1>0, <2>2
<1> QED BY <1>2, <1>3, Zenon DEF k

\* A text is what is in front of a character, the character, and what is behind.
LEMMA SplitText ==
    ASSUME NEW s \in Text, NEW i \in 1 .. Len(s)
    PROVE  /\ Before(s, i) \in Text /\ After(s, i) \in Text
           /\ SubSeq(s, i, Len(s)) \in Text
           /\ Before(s, i) \o (<<s[i]>> \o After(s, i)) = s
           /\ Before(s, i) \o SubSeq(s, i, Len(s)) = s
<1>0. s \in Seq(STRING) /\ Len(s) \in Nat
  BY DEF Text
<1>1. SubSeq(s, 1, i - 1) \in Seq(STRING) /\ SubSeq(s, i + 1, Len(s)) \in Seq(STRING)
      /\ SubSeq(s, i, Len(s)) \in Seq(STRING)
  BY <1>0
<1>2. SubSeq(s, i, Len(s)) = <<s[i]>> \o SubSeq(s, i + 1, Len(s))
  <2>1. Len(s) \in i .. Len(s)
    BY <1>0
  <2> QED BY <1>0, <2>1
<1>3. SubSeq(s, 1, i - 1) \o SubSeq(s, i, Len(s)) = SubSeq(s, 1, Len(s))
  <2>1. 1 \in 1 .. (Len(s) + 1) /\ i - 1 \in (1 - 1) .. Len(s) /\ Len(s) \in (i - 1) .. Len(s)
        /\ (i - 1) + 1 = i
    BY <1>0
  <2>2. SubSeq(s, 1, i - 1) \o SubSeq(s, (i - 1) + 1, Len(s)) = SubSeq(s, 1, Len(s))
    BY <1>0, <2>1
  <2> QED BY <2>1, <2>2, Zenon
<1>4. SubSeq(s, 1, Len(s)) = s
  BY <1>0
<1> QED BY <1>1, <1>2, <1>3, <1>4, Zenon DEF Before, After, Text

\* Splitting at 0, what strchr() gives for a character that is not there: nothing
\* in front, all behind.
LEMMA SplitAtNull ==
    ASSUME NEW s \in Text
    PROVE  Before(s, 0) = <<>> /\ After(s, 0) = s
<1>1. Len(s) \in Nat /\ SubSeq(s, 1, Len(s)) = s
  BY DEF Text
<1>2. SubSeq(s, 1, 0 - 1) = <<>>
  BY DEF Text
<1> QED BY <1>1, <1>2 DEF Before, After

-----------------------------------------------------------------------------
(* Which characters a part of a text is free of.                           *)

\* A part of a text has no characters that the text has not.
LEMMA FreeSub ==
    ASSUME NEW s \in Text, NEW D, Free(s, D), NEW i \in 1 .. Len(s)
    PROVE  Free(Before(s, i), D) /\ Free(After(s, i), D) /\ Free(SubSeq(s, i, Len(s)), D)
<1>0. Len(s) \in Nat /\ s \in Seq(STRING) /\ DOMAIN s = 1 .. Len(s) /\ s # Null
  BY UriAssumption DEF Text
<1>1. \A j \in 1 .. Len(s) : s[j] \notin D
  BY <1>0, Zenon DEF Free, Range
<1>2. \A m, n \in 1 .. Len(s) + 1 : n <= Len(s) => Free(SubSeq(s, m, n), D)
  <2> SUFFICES ASSUME NEW m \in 1 .. Len(s) + 1, NEW n \in 1 .. Len(s) + 1, n <= Len(s)
               PROVE  Free(SubSeq(s, m, n), D)
    BY Zenon
  <2> DEFINE t == SubSeq(s, m, n)
  <2>1. t \in Seq(STRING) /\ DOMAIN t = 1 .. Len(t)
        /\ \A k \in 1 .. Len(t) : m + k - 1 \in 1 .. Len(s) /\ t[k] = s[m + k - 1]
    BY <1>0
  <2> HIDE DEF t
  <2> QED BY <1>1, <2>1, Zenon DEF Free, Range, t
<1>3. Free(<<>>, D)
  BY DEF Free, Range
<1>4. Free(Before(s, i), D)
  <2>1. CASE i = 1
    <3>1. SubSeq(s, 1, 1 - 1) = <<>>
      BY <1>0
    <3> QED BY <1>3, <2>1, <3>1, Zenon DEF Before
  <2>2. CASE i # 1
    BY <1>0, <1>2, <2>2 DEF Before
  <2> QED BY <2>1, <2>2, Zenon
<1>5. Free(After(s, i), D)
  BY <1>0, <1>2 DEF After
<1>6. Free(SubSeq(s, i, Len(s)), D)
  BY <1>0, <1>2
<1> QED BY <1>4, <1>5, <1>6, Zenon

\* In front of the first c there is no c; a text in which strchr() finds no c has
\* none.
LEMMA FreeFront ==
    ASSUME NEW s \in Text, NEW c
    PROVE  /\ strchr(s, c) = 0 => Free(s, {c})
           /\ strchr(s, c) # 0 => Free(Before(s, strchr(s, c)), {c})
<1> DEFINE k == strchr(s, c)
<1>0. Len(s) \in Nat /\ s \in Seq(STRING) /\ DOMAIN s = 1 .. Len(s)
  BY DEF Text
<1>1. /\ k \in 0 .. Len(s)
      /\ k = 0 => \A i \in 1 .. Len(s) : s[i] # c
      /\ k # 0 => \A i \in 1 .. (k - 1) : s[i] # c
  BY StrchrFinds, Zenon
<1> HIDE DEF k
<1>2. k = 0 => Free(s, {c})
  BY <1>0, <1>1, Zenon DEF Free, Range
<1>3. k # 0 => Free(Before(s, k), {c})
  <2> SUFFICES ASSUME k # 0 PROVE Free(Before(s, k), {c})
    BY Zenon
  <2> DEFINE t == SubSeq(s, 1, k - 1)
  <2>1. DOMAIN t = 1 .. (k - 1) /\ \A j \in 1 .. (k - 1) : t[j] = s[j]
    BY <1>0, <1>1
  <2> HIDE DEF t
  <2>2. Free(t, {c})
    BY <1>1, <2>1, Zenon DEF Free, Range
  <2> QED BY <2>2, Zenon DEF Before, t
<1> QED BY <1>2, <1>3, Zenon DEF k

-----------------------------------------------------------------------------
(* The components of a URI.                                                *)

Opt == Text \cup {Null}

\* Concatenation of texts.
LEMMA TextConcat ==
    /\ <<>> \in Text /\ \A x \in STRING : <<x>> \in Text
    /\ \A a \in Text : a \o <<>> = a /\ <<>> \o a = a
    /\ \A a, b \in Text : a \o b \in Text
    /\ \A a, b, c \in Text : (a \o b) \o c = a \o (b \o c)
<1>1. <<>> \in Seq(STRING) /\ \A x \in STRING : <<x>> \in Seq(STRING)
  <2>1. ASSUME NEW S, NEW x \in S PROVE <<x>> \in Seq(S)
    OBVIOUS
  <2>2. ASSUME NEW S PROVE <<>> \in Seq(S)
    OBVIOUS
  <2> QED BY <2>1, <2>2, Zenon
<1>2. \A a \in Seq(STRING) : a \o <<>> = a /\ <<>> \o a = a
  OBVIOUS
<1>3. \A a, b \in Seq(STRING) : a \o b \in Seq(STRING)
  OBVIOUS
<1>4. \A a, b, c \in Seq(STRING) : (a \o b) \o c = a \o (b \o c)
  OBVIOUS
<1> QED BY <1>1, <1>2, <1>3, <1>4, Zenon DEF Text

\* What a component contributes to the text.
LEMMA Parts ==
    /\ \A a, b : Part(a, Null, b) = <<>>
    /\ \A s \in Text : Part(<<>>, s, <<>>) = s
    /\ \A s, a \in Text : Part(a, s, <<>>) = a \o s
    /\ \A s, b \in Text : Part(<<>>, s, b) = s \o b
    /\ \A s \in Opt, a, b \in Text : Part(a, s, b) \in Text
<1>1. \A s \in Text : s # Null
  BY UriAssumption, Zenon
<1>2. \A s \in Text, a, b \in Text : Part(a, s, b) = (a \o s) \o b
  BY <1>1, Zenon DEF Part
<1>3. \A a, b : Part(a, Null, b) = <<>>
  BY Zenon DEF Part
<1>4. \A s \in Text : (<<>> \o s) \o <<>> = s
  BY TextConcat, Zenon
<1>5. \A s, a \in Text : (a \o s) \o <<>> = a \o s /\ (<<>> \o s) \o a = s \o a
  BY TextConcat, Zenon
<1>6. \A s, a, b \in Text : (a \o s) \o b \in Text
  BY TextConcat, Zenon
<1>7. \A s, a, b \in Text : Part(a, s, b) \in Text
  BY <1>2, <1>6, ZenonT(60)
<1>8. \A a, b \in Text : Part(a, Null, b) \in Text
  BY <1>3, TextConcat
<1>9. <<>> \in Text
  BY TextConcat, Zenon
<1>10. \A s, a \in Text : Part(a, s, <<>>) = a \o s /\ Part(<<>>, s, a) = s \o a
  <2>1. ASSUME NEW s \in Text, NEW a \in Text
        PROVE  Part(a, s, <<>>) = a \o s /\ Part(<<>>, s, a) = s \o a
    <3>1. Part(a, s, <<>>) = (a \o s) \o <<>> /\ Part(<<>>, s, a) = (<<>> \o s) \o a
      BY <1>2, <1>9, Zenon
    <3>2. (a \o s) \o <<>> = a \o s /\ (<<>> \o s) \o a = s \o a
      BY <1>5, Zenon
    <3> QED BY <3>1, <3>2, Zenon
  <2> QED BY <2>1, Zenon
<1>11. \A s \in Text : Part(<<>>, s, <<>>) = s
  BY <1>2, <1>4, <1>9, Zenon
<1>12. \A s \in Opt, a, b \in Text : Part(a, s, b) \in Text
  BY <1>7, <1>8, Zenon DEF Opt
<1> QED BY <1>3, <1>10, <1>11, <1>12, Zenon

\* The text up to the first c, if there is one, and what follows it.
LEMMA Cut ==
    ASSUME NEW s \in Text, NEW c \in STRING
    PROVE  /\ strchr(s, c) = 0 => Free(s, {c})
           /\ strchr(s, c) # 0 =>
                 /\ Before(s, strchr(s, c)) \in Text /\ After(s, strchr(s, c)) \in Text
                 /\ SubSeq(s, strchr(s, c), Len(s)) \in Text
                 /\ Free(Before(s, strchr(s, c)), {c})
                 /\ Before(s, strchr(s, c)) \o (<<c>> \o After(s, strchr(s, c))) = s
                 /\ Before(s, strchr(s, c)) \o SubSeq(s, strchr(s, c), Len(s)) = s
<1> DEFINE k == strchr(s, c)
<1>1. k \in 0 .. Len(s) /\ (k # 0 => s[k] = c)
  BY StrchrFinds, Zenon
<1>2. (k = 0 => Free(s, {c})) /\ (k # 0 => Free(Before(s, k), {c}))
  BY FreeFront, Zenon
<1> HIDE DEF k
<1>3. ASSUME k # 0
      PROVE  /\ Before(s, k) \in Text /\ After(s, k) \in Text
             /\ SubSeq(s, k, Len(s)) \in Text
             /\ Before(s, k) \o (<<s[k]>> \o After(s, k)) = s
             /\ Before(s, k) \o SubSeq(s, k, Len(s)) = s
  <2>1. Len(s) \in Nat
    BY DEF Text
  <2>2. k \in 1 .. Len(s)
    BY <1>1, <1>3, <2>1
  <2> QED BY <2>2, SplitText, Zenon
<1> QED BY <1>1, <1>2, <1>3, Zenon DEF k

\* A part of a text has no characters that the text has not, for the parts that
\* mnhttp_uri_parse() takes.
LEMMA FreeCut ==
    ASSUME NEW s \in Text, NEW c \in STRING, NEW D, Free(s, D), strchr(s, c) # 0
    PROVE  Free(Before(s, strchr(s, c)), D) /\ Free(After(s, strchr(s, c)), D)
<1> DEFINE k == strchr(s, c)
<1>1. k \in 0 .. Len(s)
  BY StrchrFinds, Zenon
<1>2. Len(s) \in Nat
  BY DEF Text
<1> HIDE DEF k
<1>3. k # 0
  BY Zenon DEF k
<1>4. k \in 1 .. Len(s)
  BY <1>1, <1>2, <1>3
<1>5. Free(Before(s, k), D) /\ Free(After(s, k), D)
  BY <1>4, FreeSub, Zenon
<1> QED BY <1>5, Zenon DEF k

\* The path, the query and the fragment make up the text from the first '/' on.
LEMMA TargetParts ==
    ASSUME NEW t \in Text
    PROVE  /\ Target(t).path \in Text
           /\ Target(t).qstring \in Opt /\ Target(t).fragment \in Opt
           /\ (Target(t).path \o Part(<<"?">>, Target(t).qstring, <<>>))
                 \o Part(<<>>, Target(t).fragment, <<>>) = t
           /\ Free(Target(t).path, {"?"})
           /\ Target(t).qstring = Null => Free(Target(t).path, {"#"})
           /\ Target(t).fragment # Null => Free(Target(t).qstring, {"#"})
<1> DEFINE q == strchr(t, "?")
           tail == IF q = 0 THEN t ELSE After(t, q)
           f == strchr(tail, "#")
           body == IF f = 0 THEN tail ELSE Before(tail, f)
           path == IF q = 0 THEN body ELSE Before(t, q)
           qstring == IF q = 0 THEN Null ELSE body
           fragment == IF f = 0 THEN Null ELSE SubSeq(tail, f, Len(tail))
           F == Part(<<>>, fragment, <<>>)
<1>0. "?" \in STRING /\ "#" \in STRING
  BY UriAssumption, Zenon
<1>1. Target(t).path = path /\ Target(t).qstring = qstring /\ Target(t).fragment = fragment
  BY Zenon DEF Target
<1>2. /\ q = 0 => Free(t, {"?"})
      /\ q # 0 => /\ Before(t, q) \in Text /\ After(t, q) \in Text /\ Free(Before(t, q), {"?"})
                  /\ Before(t, q) \o (<<"?">> \o After(t, q)) = t
  BY <1>0, Cut, Zenon
<1> HIDE DEF q
<1>4. tail \in Text
  BY <1>2, Zenon
<1>t. (q = 0 => tail = t) /\ (q # 0 => tail = After(t, q))
  BY Zenon
<1> HIDE DEF tail
<1>5. /\ f = 0 => Free(tail, {"#"})
      /\ f # 0 => /\ Before(tail, f) \in Text /\ SubSeq(tail, f, Len(tail)) \in Text
                  /\ Free(Before(tail, f), {"#"})
                  /\ Before(tail, f) \o SubSeq(tail, f, Len(tail)) = tail
  BY <1>0, <1>4, Cut, Zenon
<1>3. q = 0 => (f # 0 => Free(Before(tail, f), {"?"}))
  <2> SUFFICES ASSUME q = 0, f # 0 PROVE Free(Before(tail, f), {"?"})
    BY Zenon
  <2>1. Free(tail, {"?"})
    BY <1>2, <1>t, Zenon
  <2> QED BY <1>0, <1>4, <2>1, FreeCut, Zenon
<1> HIDE DEF f
<1>6. body \in Text /\ fragment \in Opt /\ Free(body, {"#"})
  BY <1>4, <1>5, Zenon DEF Opt
<1>7. body \o F = tail /\ F \in Text
  <2>1. CASE f = 0
    <3>1. F = <<>> /\ body = tail
      BY <2>1, Parts, Zenon
    <3> QED BY <1>4, <3>1, TextConcat, Zenon
  <2>2. CASE f # 0
    <3>1. F = SubSeq(tail, f, Len(tail)) /\ body = Before(tail, f)
      BY <1>5, <2>2, Parts, Zenon
    <3> QED BY <1>5, <2>2, <3>1, Zenon
  <2> QED BY <2>1, <2>2, Zenon
<1>8. q = 0 => Free(body, {"?"})
  BY <1>2, <1>3, <1>t, Zenon
<1> HIDE DEF body, F
<1>9. (path \o Part(<<"?">>, qstring, <<>>)) \o F = t
  <2>1. CASE q = 0
    <3>1. Part(<<"?">>, qstring, <<>>) = <<>> /\ path = body /\ tail = t
      BY <1>t, <2>1, Parts, Zenon
    <3>2. body \o <<>> = body
      BY <1>6, TextConcat, Zenon
    <3> QED BY <1>7, <3>1, <3>2, Zenon
  <2>2. CASE q # 0
    <3>0. <<"?">> \in Text
      BY <1>0, TextConcat, Zenon
    <3>1. Part(<<"?">>, qstring, <<>>) = <<"?">> \o body /\ path = Before(t, q)
      BY <1>6, <2>2, <3>0, Parts, Zenon
    <3>2. <<"?">> \o body \in Text /\ (<<"?">> \o body) \o F = <<"?">> \o tail
      BY <1>6, <1>7, <3>0, TextConcat, ZenonT(60)
    <3>3. (path \o (<<"?">> \o body)) \o F = path \o ((<<"?">> \o body) \o F)
      <4>1. path \in Text
        BY <1>2, <2>2, <3>1, Zenon
      <4> QED BY <1>7, <3>2, <4>1, TextConcat, ZenonT(60)
    <3> QED BY <1>2, <1>t, <2>2, <3>1, <3>2, <3>3, Zenon
  <2> QED BY <2>1, <2>2, Zenon
<1>10. path \in Text /\ qstring \in Opt /\ Free(path, {"?"})
       /\ (qstring = Null => Free(path, {"#"})) /\ (fragment # Null => Free(qstring, {"#"}))
  <2>1. body # Null
    BY <1>6, UriAssumption, Zenon
  <2>2. Free(Null, {"#"})
    BY Zenon DEF Free
  <2> QED BY <1>2, <1>6, <1>8, <2>1, <2>2, Zenon DEF Opt
<1> QED BY <1>1, <1>6, <1>9, <1>10, Zenon DEF F

\* What mnhttp_uri_parse() takes in front of the first ':', and behind it.
UpToColon(s) == IF strchr(s, ":") = 0 THEN s ELSE Before(s, strchr(s, ":"))
PastColon(s) == IF strchr(s, ":") = 0 THEN Null ELSE After(s, strchr(s, ":"))

LEMMA AtColon ==
    ASSUME NEW s \in Text
    PROVE  /\ UpToColon(s) \in Text /\ PastColon(s) \in Opt
           /\ UpToColon(s) \o Part(<<":">>, PastColon(s), <<>>) = s
           /\ Free(UpToColon(s), {":"})
           /\ \A D : Free(s, D) => Free(UpToColon(s), D) /\ Free(PastColon(s), D)
<1> DEFINE k == strchr(s, ":")
<1>0. ":" \in STRING /\ <<":">> \in Text
  BY UriAssumption, TextConcat, Zenon
<1>1. /\ k = 0 => Free(s, {":"})
      /\ k # 0 => /\ Before(s, k) \in Text /\ After(s, k) \in Text /\ Free(Before(s, k), {":"})
                  /\ Before(s, k) \o (<<":">> \o After(s, k)) = s
  BY <1>0, Cut, Zenon
<1>2. ASSUME NEW D, Free(s, D), k # 0 PROVE Free(Before(s, k), D) /\ Free(After(s, k), D)
  BY <1>0, <1>2, FreeCut, Zenon
<1>3. Free(Null, {}) /\ \A D : Free(Null, D)
  BY Zenon DEF Free
<1>4. /\ k = 0 => UpToColon(s) = s /\ PastColon(s) = Null
      /\ k # 0 => UpToColon(s) = Before(s, k) /\ PastColon(s) = After(s, k)
  BY Zenon DEF UpToColon, PastColon
<1> HIDE DEF k
<1>5. CASE k = 0
  <2>1. Part(<<":">>, Null, <<>>) = <<>> /\ s \o <<>> = s
    BY Parts, TextConcat, Zenon
  <2> QED BY <1>1, <1>3, <1>4, <1>5, <2>1, Zenon DEF Opt
<1>6. CASE k # 0
  <2>1. Part(<<":">>, After(s, k), <<>>) = <<":">> \o After(s, k)
    BY <1>0, <1>1, <1>6, Parts, Zenon
  <2>2. \A D : Free(s, D) => Free(Before(s, k), D) /\ Free(After(s, k), D)
    BY <1>2, <1>6, Zenon
  <2> QED BY <1>1, <1>4, <1>6, <2>1, <2>2, Zenon DEF Opt
<1> QED BY <1>5, <1>6, Zenon

\* User, password, host and port make up the part in front of the first '/', and
\* none of them holds the delimiter that ends it.
LEMMA AuthorityParts ==
    ASSUME NEW a \in Text, Free(a, {"/"}), NEW A, A = Authority(a)
    PROVE  /\ A.user \in Opt /\ A.password \in Opt /\ A.host \in Text /\ A.port \in Opt
           /\ Part(<<>>, A.user, Part(<<":">>, A.password, <<>>) \o <<"@">>) \in Text
           /\ Part(<<":">>, A.port, <<>>) \in Text
           /\ (Part(<<>>, A.user, Part(<<":">>, A.password, <<>>) \o <<"@">>) \o A.host)
                 \o Part(<<":">>, A.port, <<>>) = a
           /\ Free(A.user, {":", "@", "/"}) /\ Free(A.password, {"@", "/"})
           /\ Free(A.host, {":", "/"}) /\ Free(A.port, {"/"})
           /\ A.user = Null => Free(A.host, {"@"}) /\ Free(A.port, {"@"})
<1> DEFINE at == strchr(a, "@")
           cred == Before(a, at)
           hp == After(a, at)
           U == Part(<<>>, A.user, Part(<<":">>, A.password, <<>>) \o <<"@">>)
           P == Part(<<":">>, A.port, <<>>)
<1>0. "@" \in STRING /\ <<":">> \in Text /\ <<"@">> \in Text
  BY UriAssumption, TextConcat, Zenon
<1>1. /\ A.user = IF at = 0 THEN Null ELSE UpToColon(cred)
      /\ A.password = IF at = 0 THEN Null ELSE PastColon(cred)
      /\ A.host = UpToColon(hp) /\ A.port = PastColon(hp)
  BY Zenon DEF Authority, UpToColon, PastColon
<1>2. /\ at = 0 => Free(a, {"@"})
      /\ at # 0 => /\ cred \in Text /\ hp \in Text /\ Free(cred, {"@"})
                   /\ cred \o (<<"@">> \o hp) = a
  BY <1>0, Cut, Zenon
<1>3. at = 0 => hp = a
  BY SplitAtNull, Zenon
<1>4. at # 0 => Free(cred, {"/"}) /\ Free(hp, {"/"})
  BY <1>0, FreeCut, Zenon
<1> HIDE DEF at, cred, hp
<1>5. hp \in Text /\ Free(hp, {"/"})
  BY <1>2, <1>3, <1>4, Zenon
<1>6. /\ A.host \in Text /\ A.port \in Opt /\ A.host \o P = hp
      /\ Free(A.host, {":"}) /\ Free(A.host, {"/"}) /\ Free(A.port, {"/"})
      /\ Free(hp, {"@"}) => Free(A.host, {"@"}) /\ Free(A.port, {"@"})
  BY <1>1, <1>5, AtColon
<1>7. Free(A.host, {":", "/"})
  BY <1>6, Zenon DEF Free
<1>8. P \in Text
  BY <1>0, <1>6, Parts, TextConcat, Zenon
<1> HIDE DEF P
<1>9. CASE at = 0
  <2>1. A.user = Null /\ A.password = Null
    BY <1>1, <1>9, Zenon
  <2>2. U = <<>> /\ <<>> \in Text
    BY <2>1, Parts, TextConcat
  <2>3. (U \o A.host) \o P = a
    <3>1. <<>> \o A.host = A.host
      BY <1>6, TextConcat, Zenon
    <3> QED BY <1>3, <1>6, <1>9, <2>2, <3>1, Zenon
  <2>4. Free(A.user, {":", "@", "/"}) /\ Free(A.password, {"@", "/"})
    BY <2>1, Zenon DEF Free
  <2>5. Free(A.host, {"@"}) /\ Free(A.port, {"@"})
    BY <1>2, <1>3, <1>6, <1>9, Zenon
  <2>6. A.user \in Opt /\ A.password \in Opt
    BY <2>1, Zenon DEF Opt
  <2> HIDE DEF U
  <2>7. U \in Text
    BY <2>2, Zenon
  <2> QED BY <1>6, <1>7, <1>8, <2>3, <2>4, <2>5, <2>6, <2>7, Zenon DEF U, P
<1>10. CASE at # 0
  <2> DEFINE W == Part(<<":">>, A.password, <<>>)
  <2>1. A.user = UpToColon(cred) /\ A.password = PastColon(cred) /\ cred \in Text
        /\ Free(cred, {"@"}) /\ Free(cred, {"/"})
    BY <1>1, <1>2, <1>4, <1>10, Zenon
  <2>2. /\ A.user \in Text /\ A.password \in Opt /\ A.user \o W = cred
        /\ Free(A.user, {":"}) /\ Free(A.user, {"@"}) /\ Free(A.user, {"/"})
        /\ Free(A.password, {"@"}) /\ Free(A.password, {"/"})
    BY <2>1, AtColon
  <2>3. Free(A.user, {":", "@", "/"}) /\ Free(A.password, {"@", "/"})
    BY <2>2, Zenon DEF Free
  <2>4. A.user # Null /\ A.user \in Opt
    BY <2>2, UriAssumption, Zenon DEF Opt
  <2>5. W \in Text
    BY <1>0, <2>2, Parts, TextConcat, Zenon
  <2> HIDE DEF W
  <2>6. W \o <<"@">> \in Text
    BY <1>0, <2>5, TextConcat, Zenon
  <2>7. U = A.user \o (W \o <<"@">>)
    BY <2>2, <2>6, Parts, Zenon DEF W
  <2> HIDE DEF U
  <2>8. (A.user \o W) \o <<"@">> = A.user \o (W \o <<"@">>)
    BY <1>0, <2>2, <2>5, TextConcat, ZenonT(60)
  <2>9. U = cred \o <<"@">>
    BY <2>2, <2>7, <2>8, Zenon
  <2>10. U \in Text
    BY <1>0, <2>1, <2>9, TextConcat, Zenon
  <2>11. (U \o A.host) \o P = U \o (A.host \o P)
    BY <1>6, <1>8, <2>10, TextConcat, ZenonT(60)
  <2>12. (cred \o <<"@">>) \o hp = cred \o (<<"@">> \o hp)
    BY <1>0, <1>5, <2>1, TextConcat, ZenonT(60)
  <2>13. (U \o A.host) \o P = a
    BY <1>2, <1>6, <1>10, <2>9, <2>11, <2>12, Zenon
  <2> QED BY <1>6, <1>7, <1>8, <2>2, <2>3, <2>4, <2>10, <2>13, Zenon DEF U, P
<1> QED BY <1>9, <1>10, Zenon

UriText == [scheme : Schemes \cup {Null}, rest : Text]
UriRecord == [scheme : Schemes, user : Opt, password : Opt, host : Text, port : Opt,
              relative : Opt, path : Opt, qstring : Opt, fragment : Opt]

\* The part of a text from the first '/' on, component by component.
LEMMA TailParts ==
    ASSUME NEW t \in UriText, NEW uri, uri = mnhttp_uri_parse(t),
           NEW slash, slash = strchr(t.rest, "/")
    PROVE  /\ uri.path \in Opt /\ uri.qstring \in Opt /\ uri.fragment \in Opt
           /\ uri.relative \in Opt
           /\ slash = 0 => uri.path = Null /\ uri.qstring = Null /\ uri.fragment = Null
           /\ slash # 0 =>
                 /\ uri.path \in Text
                 /\ (uri.path \o Part(<<"?">>, uri.qstring, <<>>))
                       \o Part(<<>>, uri.fragment, <<>>)
                       = SubSeq(t.rest, slash, Len(t.rest))
           /\ uri.fragment # Null => Free(uri.qstring, {"#"})
           /\ uri.path # Null /\ t.scheme # "serial" =>
                 /\ Free(uri.path, {"?"})
                 /\ uri.qstring = Null => Free(uri.path, {"#"})
<1> DEFINE w == SubSeq(t.rest, slash, Len(t.rest))
           none == [path |-> Null, qstring |-> Null, fragment |-> Null]
           tgt == IF slash = 0 THEN none
                  ELSE IF t.scheme = "serial" THEN [none EXCEPT !.path = w]
                  ELSE Target(w)
<1>1. /\ uri.path = tgt.path /\ uri.qstring = tgt.qstring /\ uri.fragment = tgt.fragment
      /\ uri.relative = IF slash = 0 \/ t.scheme = "serial" THEN Null ELSE w
  BY Zenon DEF mnhttp_uri_parse
<1>0. t.rest \in Text /\ "/" \in STRING
  BY UriAssumption, Zenon DEF UriText
<1>2. slash # 0 => w \in Text
  BY <1>0, Cut, Zenon
<1> HIDE DEF w
<1>3. CASE slash = 0
  <2>1. uri.path = Null /\ uri.qstring = Null /\ uri.fragment = Null /\ uri.relative = Null
    BY <1>1, <1>3, Zenon
  <2> QED BY <1>3, <2>1, Zenon DEF Opt
<1>4. CASE slash # 0 /\ t.scheme = "serial"
  <2>1. uri.path = w /\ uri.qstring = Null /\ uri.fragment = Null /\ uri.relative = Null
    BY <1>1, <1>4, Zenon
  <2>2. Part(<<"?">>, Null, <<>>) = <<>> /\ Part(<<>>, Null, <<>>) = <<>>
    BY Parts, Zenon
  <2>3. (w \o <<>>) \o <<>> = w
    BY <1>2, <1>4, TextConcat, Zenon
  <2> QED BY <1>2, <1>4, <2>1, <2>2, <2>3, Zenon DEF Opt, w
<1>5. CASE slash # 0 /\ t.scheme # "serial"
  <2>1. uri.path = Target(w).path /\ uri.qstring = Target(w).qstring
        /\ uri.fragment = Target(w).fragment /\ uri.relative = w
    BY <1>1, <1>5, Zenon
  <2>2. /\ uri.path \in Text /\ uri.qstring \in Opt /\ uri.fragment \in Opt
        /\ (uri.path \o Part(<<"?">>, uri.qstring, <<>>)) \o Part(<<>>, uri.fragment, <<>>) = w
        /\ Free(uri.path, {"?"})
        /\ uri.qstring = Null => Free(uri.path, {"#"})
        /\ uri.fragment # Null => Free(uri.qstring, {"#"})
    <3>1. w \in Text
      BY <1>2, <1>5, Zenon
    <3>2. /\ Target(w).path \in Text
          /\ Target(w).qstring \in Opt /\ Target(w).fragment \in Opt
          /\ (Target(w).path \o Part(<<"?">>, Target(w).qstring, <<>>))
                \o Part(<<>>, Target(w).fragment, <<>>) = w
          /\ Free(Target(w).path, {"?"})
          /\ Target(w).qstring = Null => Free(Target(w).path, {"#"})
          /\ Target(w).fragment # Null => Free(Target(w).qstring, {"#"})
      BY <3>1, TargetParts, Zenon
    <3> QED BY <2>1, <3>2, Zenon
  <2> QED BY <1>2, <1>5, <2>1, <2>2, Zenon DEF Opt, w
<1> QED BY <1>3, <1>4, <1>5, Zenon

\* What mnhttp_uri_parse() returns: the types, the default port and scheme, and the
\* authority.
LEMMA HeadParts ==
    ASSUME NEW t \in UriText, NEW uri, uri = mnhttp_uri_parse(t),
           NEW A, A = Authority(AuthorityText(t))
    PROVE  /\ uri \in UriRecord
           /\ uri.user = A.user /\ uri.password = A.password /\ uri.host = A.host
           /\ uri.port = DefaultPort(t.scheme, A.port)
           /\ uri.scheme = DefaultScheme(t.scheme, uri.port)
           /\ uri.port \notin {A.port} => A.port \in {Null, <<>>}
           /\ Free(A.port, {"@"}) => Free(uri.port, {"@"})
           /\ Free(uri.port, {"/"})
           /\ AuthorityText(t) \in Text /\ Free(AuthorityText(t), {"/"})
<1> DEFINE slash == strchr(t.rest, "/")
<1>0. t.rest \in Text /\ "/" \in STRING /\ t.scheme \in Schemes \cup {Null}
      /\ <<"80">> \in Text /\ <<"443">> \in Text
  BY UriAssumption, TextConcat, Zenon DEF UriText
<1>1. AuthorityText(t) = IF slash = 0 THEN t.rest ELSE Before(t.rest, slash)
  BY Zenon DEF AuthorityText
<1>2. AuthorityText(t) \in Text /\ Free(AuthorityText(t), {"/"})
  BY <1>0, <1>1, Cut, Zenon
<1>3. /\ A.user \in Opt /\ A.password \in Opt /\ A.host \in Text /\ A.port \in Opt
      /\ Free(A.port, {"/"})
  BY <1>2, AuthorityParts, Zenon
<1>4. /\ uri.user = A.user /\ uri.password = A.password /\ uri.host = A.host
      /\ uri.port = DefaultPort(t.scheme, A.port)
      /\ uri.scheme = DefaultScheme(t.scheme, uri.port)
  BY Zenon DEF mnhttp_uri_parse
<1>5. \/ uri.port = A.port
      \/ uri.port \in {<<"80">>, <<"443">>, Null} /\ A.port \in {Null, <<>>}
  BY <1>4, Zenon DEF DefaultPort
<1>6. \A D \in {{"@"}, {"/"}} :
         Free(<<"80">>, D) /\ Free(<<"443">>, D) /\ Free(Null, D)
  <2>1. Range(<<"80">>) = {"80"} /\ Range(<<"443">>) = {"443"}
    BY DEF Range
  <2> QED BY <2>1, Zenon DEF Free
<1>7. uri.port \in Opt
  BY <1>0, <1>3, <1>5, Zenon DEF Opt
<1>8. uri.scheme \in Schemes
  BY <1>0, <1>4, Zenon DEF DefaultScheme, Schemes
<1>9. uri.path \in Opt /\ uri.qstring \in Opt /\ uri.fragment \in Opt /\ uri.relative \in Opt
  BY TailParts, Zenon
<1>10. uri = [scheme |-> uri.scheme, user |-> uri.user, password |-> uri.password,
              host |-> uri.host, port |-> uri.port, relative |-> uri.relative,
              path |-> uri.path, qstring |-> uri.qstring, fragment |-> uri.fragment]
  BY Zenon DEF mnhttp_uri_parse
<1>11. uri \in UriRecord
  BY <1>3, <1>4, <1>7, <1>8, <1>9, <1>10, Zenon DEF UriRecord
<1>12. Free(uri.port, {"/"}) /\ (Free(A.port, {"@"}) => Free(uri.port, {"@"}))
  BY <1>3, <1>5, <1>6, Zenon
<1> QED BY <1>2, <1>4, <1>5, <1>11, <1>12, Zenon

\* The components, with the port as it was given, make up the text again.
LEMMA ComposedAgain ==
    ASSUME NEW t \in UriText, NEW uri, uri = mnhttp_uri_parse(t),
           NEW A, A = Authority(AuthorityText(t))
    PROVE  Composed([uri EXCEPT !.port = A.port]) = t.rest
<1> DEFINE slash == strchr(t.rest, "/")
           a == AuthorityText(t)
           c == [uri EXCEPT !.port = A.port]
           U == Part(<<>>, A.user, Part(<<":">>, A.password, <<>>) \o <<"@">>)
           P == Part(<<":">>, A.port, <<>>)
           H == Part(<<>>, uri.path, <<>>)
           Q == Part(<<"?">>, uri.qstring, <<>>)
           F == Part(<<>>, uri.fragment, <<>>)
<1>0. t.rest \in Text /\ "/" \in STRING /\ <<"?">> \in Text /\ <<>> \in Text
  BY UriAssumption, TextConcat, Zenon DEF UriText
<1>1. /\ uri \in UriRecord /\ a \in Text /\ Free(a, {"/"})
      /\ uri.user = A.user /\ uri.password = A.password /\ uri.host = A.host
  BY HeadParts
<1>2. U \in Text /\ P \in Text /\ A.host \in Text /\ (U \o A.host) \o P = a
  BY <1>1, AuthorityParts, Zenon
<1>3. /\ uri.path \in Opt /\ uri.qstring \in Opt /\ uri.fragment \in Opt
      /\ slash = 0 => uri.path = Null /\ uri.qstring = Null /\ uri.fragment = Null
      /\ slash # 0 => /\ uri.path \in Text
                      /\ (uri.path \o Q) \o F = SubSeq(t.rest, slash, Len(t.rest))
  BY TailParts, Zenon
<1>4. H \in Text /\ Q \in Text /\ F \in Text
  BY <1>0, <1>3, Parts, Zenon
<1>5. a \o ((H \o Q) \o F) = t.rest
  <2>1. CASE slash = 0
    <3>1. H = <<>> /\ Q = <<>> /\ F = <<>> /\ a = t.rest
      BY <1>3, <2>1, Parts DEF AuthorityText
    <3>2. (<<>> \o <<>>) \o <<>> = <<>> /\ t.rest \o <<>> = t.rest
      BY <1>0, TextConcat, Zenon
    <3> QED BY <3>1, <3>2, Zenon
  <2>2. CASE slash # 0
    <3>1. H = uri.path /\ a = Before(t.rest, slash)
      BY <1>3, <2>2, Parts, Zenon DEF AuthorityText
    <3>2. Before(t.rest, slash) \o SubSeq(t.rest, slash, Len(t.rest)) = t.rest
      BY <1>0, <2>2, Cut, Zenon
    <3> QED BY <1>3, <2>2, <3>1, <3>2, Zenon
  <2> QED BY <2>1, <2>2, Zenon
<1>6. /\ c.user = A.user /\ c.password = A.password /\ c.host = A.host /\ c.port = A.port
      /\ c.path = uri.path /\ c.qstring = uri.qstring /\ c.fragment = uri.fragment
  BY <1>1, Zenon DEF UriRecord
<1>7. Composed(c) = ((((U \o A.host) \o P) \o H) \o Q) \o F
  BY <1>6, Zenon DEF Composed
<1> HIDE DEF U, P, H, Q, F, a, c
<1>8. ((a \o H) \o Q) \o F = a \o ((H \o Q) \o F)
  <2>1. (a \o H) \o Q = a \o (H \o Q)
    BY <1>1, <1>4, TextConcat, ZenonT(60)
  <2>2. H \o Q \in Text
    BY <1>4, TextConcat, ZenonT(60)
  <2>3. ASSUME NEW K \in Text PROVE (a \o K) \o F = a \o (K \o F)
    BY <1>1, <1>4, TextConcat, ZenonT(60)
  <2> QED BY <2>1, <2>2, <2>3, ZenonT(60)
<1>9. Composed(c) = t.rest
  BY <1>2, <1>5, <1>7, <1>8, Zenon
<1> QED BY <1>9, Zenon DEF c

-----------------------------------------------------------------------------
(* The pool of connections.                                                *)

Connections == [proxy : Proxies, host : Text, port : Opt, ssl : BOOLEAN,
                key : Proxies \X Text \X Opt]
Requests == [uri : UriRecord, proxy : Proxies, terms : Seq(Names \X Values),
             fields : Seq(Nat), conn : Nat]

RequestTypes ==
    /\ text \in Texts
    /\ req \in [Users -> {Null} \cup Requests]
    /\ pool \in Seq(Connections)

\* A connection has the peer of its key, and no other connection has that key.
KeysTell ==
    /\ \A i \in 1 .. Len(pool) : pool[i].key = <<pool[i].proxy, pool[i].host, pool[i].port>>
    /\ \A i, j \in 1 .. Len(pool) : pool[i].key = pool[j].key => i = j

\* A request is for the URI of its user and has a connection with its key.
Connected(u) ==
    /\ text[u] # Null /\ req[u].uri = mnhttp_uri_parse(text[u])
    /\ req[u].conn \in 1 .. Len(pool)
    /\ pool[req[u].conn].key = Key(req[u].proxy, req[u].uri)

\* A connection was made for the URI of some user.
MadeFor(c, v) ==
    /\ text[v] # Null
    /\ c.port = mnhttp_uri_parse(text[v]).port
    /\ c.ssl = (mnhttp_uri_parse(text[v]).scheme = "https")

\* The inductive invariant of the pool.
PoolInv ==
    /\ RequestTypes
    /\ KeysTell
    /\ \A u \in Live : Connected(u)
    /\ \A i \in 1 .. Len(pool) : \E v \in Users : MadeFor(pool[i], v)

LEMMA Triples ==
    ASSUME NEW a, NEW b, NEW c, NEW d, NEW e, NEW f
    PROVE  <<a, b, c>> = <<d, e, f>> <=> a = d /\ b = e /\ c = f
  BY Zenon

\* The pool is empty at first.
LEMMA PoolInit == Init => PoolInv
<1> SUFFICES ASSUME Init PROVE PoolInv
  BY Zenon
<1>1. text \in Texts /\ req = [u \in Users |-> Null] /\ pool = <<>>
  BY Zenon DEF Init
<1>2. pool \in Seq(Connections) /\ Len(pool) = 0
  BY <1>1
<1>3. \A i \in 1 .. Len(pool) : FALSE
  BY <1>2
<1>4. Live = {}
  BY <1>1, Zenon DEF Live
<1>5. RequestTypes
  BY <1>1, <1>2, Zenon DEF RequestTypes
<1> QED BY <1>3, <1>4, <1>5, Zenon DEF PoolInv, KeysTell

\* The text that a user asks for is one that mnhttp_uri_parse() is given.
LEMMA TextType ==
    ASSUME text \in Texts, NEW u \in Users, text[u] # Null
    PROVE  text[u] \in UriText
<1>1. text \in [Users -> {Null} \cup UriText]
  BY RequestAssumption, Zenon DEF UriText
<1> QED BY <1>1, Zenon

\* mnhttpc_new() finds the connection of the request's key if there is one.
LEMMA PoolLookup ==
    ASSUME pool \in Seq(Connections), NEW K, NEW k,
           k = FirstWhere(pool, LAMBDA c : c.key = K)
    PROVE  /\ k \in 0 .. Len(pool)
           /\ k = 0 => \A i \in 1 .. Len(pool) : pool[i].key # K
           /\ k # 0 => pool[k].key = K
<1> DEFINE I == {i \in 1 .. Len(pool) : pool[i].key = K}
<1>0. Len(pool) \in Nat
  OBVIOUS
<1>1. k = IF I # {} THEN Min(I) ELSE 0
  BY Zenon DEF FirstWhere, Where
<1>2. CASE I = {}
  BY <1>0, <1>1, <1>2
<1>3. CASE I # {}
  <2>1. I \in SUBSET Nat
    BY <1>0
  <2>2. k \in I
    BY <1>1, <1>3, <2>1, Smallest, Zenon
  <2> QED BY <1>0, <2>2
<1> QED BY <1>2, <1>3, Zenon

\* Making a request keeps the invariant, with a connection of the pool or a new one.
LEMMA NewKeepsPool ==
    ASSUME PoolInv, NEW u \in Users, NEW proxy \in Proxies, New(u, proxy)
    PROVE  PoolInv'
<1>0. /\ text \in Texts /\ req \in [Users -> {Null} \cup Requests]
      /\ pool \in Seq(Connections) /\ Len(pool) \in Nat
  BY DEF PoolInv, RequestTypes
<1> DEFINE uri == mnhttp_uri_parse(text[u])
           K == Key(proxy, uri)
           k == FirstWhere(pool, LAMBDA c : c.key = K)
           new == mnhttpc_connection_new(proxy, uri)
           n == IF k = 0 THEN Len(pool) + 1 ELSE k
           r == [uri |-> uri, proxy |-> proxy, terms |-> <<>>, fields |-> <<>>, conn |-> n]
<1>1. /\ text[u] # Null /\ text' = text
      /\ pool' = IF k = 0 THEN Append(pool, new) ELSE pool
      /\ req' = [req EXCEPT ![u] = r]
  BY Zenon DEF New
<1>2. uri \in UriRecord
  BY <1>0, <1>1, TextType, HeadParts, Zenon
<1>3. /\ k \in 0 .. Len(pool)
      /\ k = 0 => \A i \in 1 .. Len(pool) : pool[i].key # K
      /\ k # 0 => pool[k].key = K
  BY <1>0, PoolLookup, Zenon
<1> HIDE DEF k
<1>4. n \in Nat /\ n >= 1
  BY <1>0, <1>3
<1>5. K = <<proxy, uri.host, uri.port>> /\ uri.host \in Text /\ uri.port \in Opt
  BY <1>2, Zenon DEF Key, UriRecord
<1>6. /\ new.proxy = proxy /\ new.host = uri.host /\ new.port = uri.port /\ new.key = K
      /\ new.ssl = (uri.scheme = "https")
      /\ new = [proxy |-> proxy, host |-> uri.host, port |-> uri.port,
                ssl |-> (uri.scheme = "https"), key |-> K]
  BY Zenon DEF mnhttpc_connection_new
<1>a. uri = mnhttp_uri_parse(text[u])
  BY Zenon
<1> HIDE DEF uri, new
<1>7. new \in Connections
  <2>1. K \in Proxies \X Text \X Opt
    BY <1>5
  <2>2. (uri.scheme = "https") \in BOOLEAN
    BY Zenon
  <2> HIDE DEF K
  <2> QED BY <1>5, <1>6, <2>1, <2>2, Zenon DEF Connections
<1>8. r \in Requests /\ r.conn = n /\ r.uri = uri /\ r.proxy = proxy
  <2>1. <<>> \in Seq(Names \X Values) /\ <<>> \in Seq(Nat)
    OBVIOUS
  <2> HIDE DEF n
  <2> QED BY <1>2, <1>4, <2>1, Zenon DEF Requests
<1> HIDE DEF r, K
<1>9. /\ pool' \in Seq(Connections) /\ Len(pool') \in Nat
      /\ n \in 1 .. Len(pool') /\ pool'[n].key = K
      /\ Len(pool) <= Len(pool') /\ \A i \in 1 .. Len(pool) : pool'[i] = pool[i]
      /\ \A i \in 1 .. Len(pool') : i \in 1 .. Len(pool) \/ (k = 0 /\ pool'[i] = new)
  <2>1. CASE k = 0
    <3>1. pool' = Append(pool, new) /\ n = Len(pool) + 1
      BY <1>1, <2>1, Zenon
    <3>2. /\ pool' \in Seq(Connections) /\ Len(pool') = Len(pool) + 1
          /\ pool'[Len(pool) + 1] = new /\ \A i \in 1 .. Len(pool) : pool'[i] = pool[i]
      BY <1>0, <1>7, <3>1, Appended
    <3> QED BY <1>0, <1>6, <2>1, <3>1, <3>2
  <2>2. CASE k # 0
    BY <1>0, <1>1, <1>3, <2>2
  <2> QED BY <2>1, <2>2, Zenon
<1>10. RequestTypes'
  <2>1. req' \in [Users -> {Null} \cup Requests]
    BY <1>0, <1>1, <1>8, Zenon
  <2> QED BY <1>0, <1>1, <1>9, <2>1, Zenon DEF RequestTypes
<1>11. KeysTell'
  <2>1. \A i \in 1 .. Len(pool') :
           pool'[i].key = <<pool'[i].proxy, pool'[i].host, pool'[i].port>>
    BY <1>5, <1>6, <1>9, Zenon DEF PoolInv, KeysTell
  <2>2. ASSUME NEW i \in 1 .. Len(pool'), NEW j \in 1 .. Len(pool'),
               pool'[i].key = pool'[j].key
        PROVE  i = j
    <3>1. CASE i \in 1 .. Len(pool) /\ j \in 1 .. Len(pool)
      BY <1>9, <2>2, <3>1, Zenon DEF PoolInv, KeysTell
    <3>2. CASE k = 0 /\ (i \notin 1 .. Len(pool) \/ j \notin 1 .. Len(pool))
      <4>1. Len(pool') = Len(pool) + 1
        BY <1>0, <1>1, <1>7, <3>2, Appended
      <4>2. \A m \in 1 .. Len(pool) : pool'[m].key # K
        BY <1>3, <1>9, <3>2, Zenon
      <4>3. pool'[Len(pool) + 1].key = K
        BY <1>9, <3>2, Zenon
      <4> QED BY <1>0, <2>2, <3>2, <4>1, <4>2, <4>3
    <3> QED BY <1>9, <3>1, <3>2, Zenon
  <2> QED BY <2>1, <2>2, Zenon DEF KeysTell
<1>12. \A v \in Live' : Connected(v)'
  <2> SUFFICES ASSUME NEW v \in Live' PROVE Connected(v)'
    BY Zenon
  <2>1. CASE v = u
    <3>1. req'[u] = r
      BY <1>0, <1>1, Zenon
    <3> QED BY <1>1, <1>8, <1>9, <1>a, <2>1, <3>1, Zenon DEF Connected, K
  <2>2. CASE v # u
    <3>1. v \in Users /\ req'[v] = req[v] /\ req[v] # Null
      BY <1>0, <1>1, <2>2, Zenon DEF Live
    <3>2. Connected(v)
      BY <3>1, Zenon DEF PoolInv, Live
    <3>3. req[v].conn \in 1 .. Len(pool') /\ pool'[req[v].conn] = pool[req[v].conn]
      BY <1>0, <1>9, <3>2 DEF Connected
    <3> QED BY <1>1, <3>1, <3>2, <3>3, Zenon DEF Connected
  <2> QED BY <2>1, <2>2, Zenon
<1>13. \A i \in 1 .. Len(pool') : (\E v \in Users : MadeFor(pool[i], v))'
  <2> SUFFICES ASSUME NEW i \in 1 .. Len(pool') PROVE \E v \in Users : MadeFor(pool[i], v)'
    BY Zenon
  <2>1. CASE i \in 1 .. Len(pool)
    <3>1. PICK v \in Users : MadeFor(pool[i], v)
      BY <2>1, Zenon DEF PoolInv
    <3>2. MadeFor(pool[i], v)'
      BY <1>1, <1>9, <2>1, <3>1, Zenon DEF MadeFor
    <3> QED BY <3>2, Zenon
  <2>2. CASE pool'[i] = new
    <3>1. MadeFor(pool[i], u)'
      BY <1>1, <1>6, <1>a, <2>2, Zenon DEF MadeFor
    <3> QED BY <3>1, Zenon
  <2> QED BY <1>9, <2>1, <2>2, Zenon
<1> QED BY <1>10, <1>11, <1>12, <1>13, Zenon DEF PoolInv

\* Every other operation on a request leaves the pool, and what a request was made
\* for, alone.
LEMMA OthersKeepPool ==
    ASSUME PoolInv, UNCHANGED <<text, pool>>, NEW u \in Users, NEW r \in {Null} \cup Requests,
           req' = [req EXCEPT ![u] = r],
           r # Null => /\ req[u] # Null /\ r.uri = req[u].uri
                       /\ r.proxy = req[u].proxy /\ r.conn = req[u].conn
    PROVE  PoolInv'
<1>0. /\ text \in Texts /\ req \in [Users -> {Null} \cup Requests]
      /\ pool \in Seq(Connections) /\ text' = text /\ pool' = pool
  BY Zenon DEF PoolInv, RequestTypes
<1>1. RequestTypes'
  BY <1>0, Zenon DEF RequestTypes
<1>2. KeysTell'
  BY <1>0, Zenon DEF PoolInv, KeysTell
<1>3. \A i \in 1 .. Len(pool') : (\E v \in Users : MadeFor(pool[i], v))'
  BY <1>0 DEF PoolInv, MadeFor
<1>4. \A v \in Live' : Connected(v)'
  <2> SUFFICES ASSUME NEW v \in Live' PROVE Connected(v)'
    BY Zenon
  <2>1. v \in Users /\ req'[v] # Null
    BY Zenon DEF Live
  <2>2. /\ req[v] # Null /\ req'[v].uri = req[v].uri
        /\ req'[v].proxy = req[v].proxy /\ req'[v].conn = req[v].conn
    <3>1. CASE v = u
      <4>1. req'[v] = r
        BY <1>0, <3>1, Zenon
      <4> QED BY <2>1, <3>1, <4>1, Zenon
    <3>2. CASE v # u
      BY <1>0, <2>1, <3>2, Zenon
    <3> QED BY <3>1, <3>2, Zenon
  <2>3. Connected(v)
    BY <2>1, <2>2, Zenon DEF PoolInv, Live
  <2> QED BY <1>0, <2>2, <2>3, Zenon DEF Connected
<1> QED BY <1>1, <1>2, <1>3, <1>4, Zenon DEF PoolInv

\* Every step of a user keeps the invariant.
LEMMA PoolNext == PoolInv /\ [Next]_vars => PoolInv'
<1> SUFFICES ASSUME PoolInv, [Next]_vars PROVE PoolInv'
  BY Zenon
<1>0. req \in [Users -> {Null} \cup Requests]
  BY Zenon DEF PoolInv, RequestTypes
<1>1. ASSUME NEW u \in Users, NEW proxy \in Proxies, New(u, proxy) PROVE PoolInv'
  BY <1>1, NewKeepsPool, Zenon
<1>2. ASSUME NEW u \in Users, NEW name \in Names, NEW value \in Values,
             AddTerm(u, name, value)
      PROVE  PoolInv'
  <2>1. req[u] # Null /\ UNCHANGED <<text, pool>>
        /\ req' = [req EXCEPT ![u].terms = Append(@, <<name, value>>)]
    BY <1>2, Zenon DEF AddTerm, Open
  <2>2. req[u] \in Requests
    BY <1>0, <2>1, Zenon
  <2>3. PICK s \in Seq(Names \X Values) : s = Append(req[u].terms, <<name, value>>)
    <3>1. req[u].terms \in Seq(Names \X Values) /\ <<name, value>> \in Names \X Values
      BY <2>2, Zenon DEF Requests
    <3> QED BY <3>1, Appended, Zenon
  <2> DEFINE r == [req[u] EXCEPT !.terms = s]
  <2>4. req' = [req EXCEPT ![u] = r]
    BY <1>0, <2>1, <2>3, Zenon
  <2>5. r \in Requests /\ r.uri = req[u].uri /\ r.proxy = req[u].proxy /\ r.conn = req[u].conn
    BY <2>2, Zenon DEF Requests
  <2> HIDE DEF r
  <2> QED BY <2>1, <2>4, <2>5, OthersKeepPool, Zenon
<1>3. ASSUME NEW u \in Users, NEW sz \in 1 .. Reserve, AddField(u, sz) PROVE PoolInv'
  <2>1. req[u] # Null /\ UNCHANGED <<text, pool>>
        /\ req' = [req EXCEPT ![u].fields = Append(@, sz)]
    BY <1>3, Zenon DEF AddField, Open
  <2>2. req[u] \in Requests /\ sz \in Nat
    BY <1>0, <2>1
  <2>3. PICK s \in Seq(Nat) : s = Append(req[u].fields, sz)
    <3>1. req[u].fields \in Seq(Nat)
      BY <2>2, Zenon DEF Requests
    <3> QED BY <2>2, <3>1, Appended, Zenon
  <2> DEFINE r == [req[u] EXCEPT !.fields = s]
  <2>4. req' = [req EXCEPT ![u] = r]
    BY <1>0, <2>1, <2>3, Zenon
  <2>5. r \in Requests /\ r.uri = req[u].uri /\ r.proxy = req[u].proxy /\ r.conn = req[u].conn
    BY <2>2, Zenon DEF Requests
  <2> HIDE DEF r
  <2> QED BY <2>1, <2>4, <2>5, OthersKeepPool, Zenon
<1>4. ASSUME NEW u \in Users, Destroy(u) PROVE PoolInv'
  <2>1. UNCHANGED <<text, pool>> /\ req' = [req EXCEPT ![u] = Null]
    BY <1>4, Zenon DEF Destroy
  <2> QED BY <2>1, OthersKeepPool, Zenon
<1>5. ASSUME UNCHANGED <<text, req, pool>> PROVE PoolInv'
  BY <1>5 DEF PoolInv, RequestTypes, KeysTell, Live, Connected, MadeFor
<1>6. ASSUME NEW u \in Users, NEW body \in Bodies, Finalize(u, body) PROVE PoolInv'
  BY <1>5, <1>6, Zenon DEF Finalize
<1>7. CASE UNCHANGED vars
  BY <1>5, <1>7, Zenon DEF vars
<1> QED BY <1>1, <1>2, <1>3, <1>4, <1>6, <1>7, Zenon DEF Next

\* The invariant of the pool holds in every reachable state.
THEOREM PoolInvariant == Spec => []PoolInv
<1> QED BY PoolInit, PoolNext, PTL DEF Spec

\* Requests of any number of users share a connection of the pool just when they
\* have the same peer, and it is a connection to that peer: the assertions of
\* mnhttpc_new(), which finds connections by their hash alone.
THEOREM PoolIsByPeer == Spec => []PoolByPeer
<1>1. PoolInv => PoolByPeer
  <2> SUFFICES ASSUME PoolInv PROVE PoolByPeer
    BY Zenon
  <2>1. ASSUME NEW u \in Live
        PROVE  /\ req[u].conn \in 1 .. Len(pool)
               /\ pool[req[u].conn].key
                     = <<req[u].proxy, req[u].uri.host, req[u].uri.port>>
               /\ pool[req[u].conn].key
                     = <<pool[req[u].conn].proxy, pool[req[u].conn].host,
                         pool[req[u].conn].port>>
    BY Zenon DEF PoolInv, Connected, KeysTell, Key
  <2>2. ASSUME NEW u \in Live
        PROVE  LET conn == pool[req[u].conn]
               IN  /\ conn.proxy = req[u].proxy
                   /\ conn.host = req[u].uri.host /\ conn.port = req[u].uri.port
    BY <2>1, Triples
  <2>3. ASSUME NEW u \in Live, NEW v \in Live
        PROVE  req[u].conn = req[v].conn
                  <=> /\ req[u].proxy = req[v].proxy
                      /\ req[u].uri.host = req[v].uri.host
                      /\ req[u].uri.port = req[v].uri.port
    <3>1. ASSUME req[u].conn = req[v].conn
          PROVE  /\ req[u].proxy = req[v].proxy
                 /\ req[u].uri.host = req[v].uri.host /\ req[u].uri.port = req[v].uri.port
      BY <2>2, <3>1
    <3>2. ASSUME req[u].proxy = req[v].proxy, req[u].uri.host = req[v].uri.host,
                 req[u].uri.port = req[v].uri.port
          PROVE  req[u].conn = req[v].conn
      <4>1. pool[req[u].conn].key = pool[req[v].conn].key
        BY <2>1, <3>2, Zenon
      <4> QED BY <2>1, <4>1, Zenon DEF PoolInv, KeysTell
    <3> QED BY <3>1, <3>2, Zenon
  <2> QED BY <2>2, <2>3, Zenon DEF PoolByPeer
<1> QED BY <1>1, PoolInvariant, PTL

\* When no URI names a port, a request for https goes over TLS and one for http
\* does not, although mnhttpc_new() does not look at the scheme when it finds a
\* connection.
THEOREM TlsIsByScheme == Spec => []TlsByScheme
<1>1. PoolInv => TlsByScheme
  <2> SUFFICES ASSUME PoolInv,
                      \A p \in Uris : /\ p[1].scheme \in {"http", "https"}
                                      /\ Authority(AuthorityText(p[1])).port = Null,
                      NEW u \in Live
               PROVE  pool[req[u].conn].ssl = (req[u].uri.scheme = "https")
    BY Zenon DEF TlsByScheme
  <2>0. text \in Texts
    BY Zenon DEF PoolInv, RequestTypes
  \* Then the scheme of a URI and its port say the same.
  <2>1. ASSUME NEW v \in Users, text[v] # Null
        PROVE  mnhttp_uri_parse(text[v]).scheme = "https"
                  <=> mnhttp_uri_parse(text[v]).port = <<"443">>
    <3> DEFINE t == text[v]
               uri == mnhttp_uri_parse(t)
    <3>1. <<t, uri>> \in Uris
      BY <2>1, Zenon DEF Uris
    <3>2. t.scheme \in {"http", "https"} /\ Authority(AuthorityText(t)).port = Null
      BY <3>1, Zenon
    <3>3. t \in UriText
      BY <2>0, <2>1, TextType, Zenon
    <3>4. uri.port = DefaultPort(t.scheme, Null) /\ uri.scheme = DefaultScheme(t.scheme, uri.port)
      BY <3>2, <3>3, HeadParts
    <3>5. "http" # Null /\ "https" # Null
      BY UriAssumption, Zenon DEF Schemes
    <3>6. <<"443">> # <<"80">>
      BY Zenon
    <3> HIDE DEF t, uri
    <3>7. uri.scheme = t.scheme
      BY <3>2, <3>4, <3>5, Zenon DEF DefaultScheme
    <3>8. uri.port = IF t.scheme = "https" THEN <<"443">> ELSE <<"80">>
      BY <3>2, <3>4, Zenon DEF DefaultPort
    <3>9. uri.scheme = "https" <=> uri.port = <<"443">>
      BY <3>2, <3>6, <3>7, <3>8
    <3> QED BY <3>9, Zenon DEF t, uri
  <2>2. /\ u \in Users /\ text[u] # Null /\ req[u].uri = mnhttp_uri_parse(text[u])
        /\ req[u].conn \in 1 .. Len(pool)
        /\ pool[req[u].conn].key = <<req[u].proxy, req[u].uri.host, req[u].uri.port>>
    BY Zenon DEF PoolInv, Connected, Key, Live
  <2>3. pool[req[u].conn].port = req[u].uri.port
    <3>1. pool[req[u].conn].key = <<pool[req[u].conn].proxy, pool[req[u].conn].host,
                                    pool[req[u].conn].port>>
      BY <2>2, Zenon DEF PoolInv, KeysTell
    <3>2. <<req[u].proxy, req[u].uri.host, req[u].uri.port>>
          = <<pool[req[u].conn].proxy, pool[req[u].conn].host, pool[req[u].conn].port>>
      BY <2>2, <3>1, Zenon
    <3> QED BY <3>2, Triples, Zenon
  <2>4. PICK v \in Users : MadeFor(pool[req[u].conn], v)
    BY <2>2, Zenon DEF PoolInv
  <2>5. /\ text[v] # Null
        /\ pool[req[u].conn].port = mnhttp_uri_parse(text[v]).port
        /\ pool[req[u].conn].ssl = (mnhttp_uri_parse(text[v]).scheme = "https")
    BY <2>4, Zenon DEF MadeFor
  <2>6. req[u].uri.scheme = "https" <=> mnhttp_uri_parse(text[v]).scheme = "https"
    <3>1. mnhttp_uri_parse(text[v]).scheme = "https"
             <=> mnhttp_uri_parse(text[v]).port = <<"443">>
      BY <2>1, <2>5, Zenon
    <3>2. req[u].uri.scheme = "https" <=> req[u].uri.port = <<"443">>
      BY <2>1, <2>2, Zenon
    <3> QED BY <2>3, <2>5, <3>1, <3>2, Zenon
  <2> QED BY <2>5, <2>6, Zenon
<1> QED BY <1>1, PoolInvariant, PTL

\* mnhttp_uri_parse() loses no character of any text and takes no delimiter of one
\* component for that of another.
THEOREM UriIsTakenApart == Spec => []UriTakenApart
<1>1. PoolInv => UriTakenApart
  <2> SUFFICES ASSUME PoolInv, NEW w \in Users, text[w] # Null,
                      NEW uri, uri = mnhttp_uri_parse(text[w])
               PROVE  /\ \E port \in {uri.port, Null, <<>>} :
                           Composed([uri EXCEPT !.port = port]) = text[w].rest
                      /\ Free(uri.user, {":", "@", "/"}) /\ Free(uri.password, {"@", "/"})
                      /\ Free(uri.host, {":", "/"}) /\ Free(uri.port, {"/"})
                      /\ uri.user = Null => Free(uri.host, {"@"}) /\ Free(uri.port, {"@"})
                      /\ uri.fragment # Null => Free(uri.qstring, {"#"})
                      /\ uri.path # Null /\ text[w].scheme # "serial" =>
                           /\ Free(uri.path, {"?"})
                           /\ uri.qstring = Null => Free(uri.path, {"#"})
    BY DEF UriTakenApart, Uris
  <2>1. PICK t \in UriText : t = text[w]
    BY TextType, Zenon DEF PoolInv, RequestTypes
  <2>2. PICK A : A = Authority(AuthorityText(t))
    BY Zenon
  <2>3. uri = mnhttp_uri_parse(t)
    BY <2>1, Zenon
  <2>4. /\ uri.user = A.user /\ uri.password = A.password /\ uri.host = A.host
        /\ uri.port \notin {A.port} => A.port \in {Null, <<>>}
        /\ Free(A.port, {"@"}) => Free(uri.port, {"@"})
        /\ Free(uri.port, {"/"})
        /\ AuthorityText(t) \in Text /\ Free(AuthorityText(t), {"/"})
    BY <2>2, <2>3, HeadParts
  <2>5. /\ Free(A.user, {":", "@", "/"}) /\ Free(A.password, {"@", "/"})
        /\ Free(A.host, {":", "/"})
        /\ A.user = Null => Free(A.host, {"@"}) /\ Free(A.port, {"@"})
    BY <2>2, <2>4, AuthorityParts, Zenon
  <2>6. /\ uri.fragment # Null => Free(uri.qstring, {"#"})
        /\ uri.path # Null /\ t.scheme # "serial" =>
              /\ Free(uri.path, {"?"})
              /\ uri.qstring = Null => Free(uri.path, {"#"})
    BY <2>3, TailParts, Zenon
  <2>7. A.port \in {uri.port, Null, <<>>}
    BY <2>4, Zenon
  <2>8. Composed([uri EXCEPT !.port = A.port]) = t.rest
    BY <2>2, <2>3, ComposedAgain, Zenon
  <2>9. \E port \in {uri.port, Null, <<>>} : Composed([uri EXCEPT !.port = port]) = text[w].rest
    BY <2>1, <2>7, <2>8, Zenon
  <2> QED BY <2>1, <2>4, <2>5, <2>6, <2>9, Zenon
<1> QED BY <1>1, PoolInvariant, PTL

\* What http_add_header_field() reserves holds a field of any size with its NUL,
\* whatever it rounds to; so does the room for a field in RoomForPieces.
THEOREM FieldFits == \A sz \in Nat : FieldRoom(sz) >= sz + 1
<1> SUFFICES ASSUME NEW sz \in Nat PROVE FieldRoom(sz) >= sz + 1
  BY Zenon
<1>1. sz % Reserve \in 0 .. (Reserve - 1) /\ Reserve \in Nat
  BY UriAssumption
<1> QED BY <1>1 DEF FieldRoom

-----------------------------------------------------------------------------
(* Loops.                                                                  *)

\* A set that contains 1, and with a number the next one, contains all of them.
LEMMA UpTo ==
    ASSUME NEW n \in Nat, NEW T, 1 \in T, \A i \in 1 .. n : i \in T => i + 1 \in T
    PROVE  \A i \in 1 .. (n + 1) : i \in T
<1> DEFINE U == {i \in 1 .. (n + 1) : i \notin T}
<1> SUFFICES ASSUME U # {} PROVE FALSE
  BY Zenon
<1> DEFINE x == Min(U)
<1>1. U \in SUBSET Nat
  OBVIOUS
<1>2. x \in U /\ \A y \in U : x <= y
  BY <1>1, Smallest, Zenon
<1> HIDE DEF x
<1>3. x \in 1 .. (n + 1) /\ x \notin T
  BY <1>2, Zenon
<1>4. x - 1 \in 1 .. n /\ x - 1 \in 1 .. (n + 1) /\ ~ (x <= x - 1) /\ (x - 1) + 1 = x
  BY <1>3
<1>5. x - 1 \in T
  BY <1>2, <1>4, Zenon
<1>6. x \in T
  BY <1>4, <1>5
<1> QED BY <1>3, <1>6, Zenon

\* The body of a loop of n rounds, and what it makes of b: h[i] before round i.
LoopBody(n, A) == [(1 .. n) \X A -> A]
Rounds(h, n, A, b, F) ==
    /\ h \in [1 .. (n + 1) -> A] /\ h[1] = b
    /\ \A i \in 1 .. n : h[i + 1] = F[<<i, h[i]>>]

LEMMA LoopExists ==
    ASSUME NEW n \in Nat, NEW A, NEW b \in A, NEW F \in LoopBody(n, A)
    PROVE  \E h : Rounds(h, n, A, b, F)
<1>0. F \in [(1 .. n) \X A -> A]
  BY Zenon DEF LoopBody
<1> DEFINE Is(h, m) == h[1] = b /\ \A i \in 1 .. (m - 1) : h[i + 1] = F[<<i, h[i]>>]
           T == {m \in 1 .. (n + 1) : \E h \in [1 .. m -> A] : Is(h, m)}
<1>1. 1 \in T
  <2> DEFINE h == [i \in 1 .. 1 |-> b]
  <2>1. h \in [1 .. 1 -> A] /\ Is(h, 1) /\ 1 \in 1 .. (n + 1)
    OBVIOUS
  <2> HIDE DEF h
  <2> QED BY <2>1, Zenon
<1>2. ASSUME NEW m \in 1 .. n, m \in T PROVE m + 1 \in T
  <2>1. PICK g \in [1 .. m -> A] : Is(g, m)
    BY <1>2, Zenon
  <2> DEFINE h == [i \in 1 .. (m + 1) |-> IF i = m + 1 THEN F[<<m, g[m]>>] ELSE g[i]]
  <2>2. m \in 1 .. m /\ \A i \in 1 .. (m + 1) : i # m + 1 => i \in 1 .. m
    OBVIOUS
  <2>3. F[<<m, g[m]>>] \in A
    BY <1>0, <2>1, <2>2
  <2>4. h \in [1 .. (m + 1) -> A]
    BY <2>2, <2>3
  <2>5. h[1] = b
    BY <2>1
  <2>6. ASSUME NEW i \in 1 .. m PROVE h[i + 1] = F[<<i, h[i]>>]
    <3>1. i \in 1 .. (m + 1) /\ i # m + 1 /\ i + 1 \in 1 .. (m + 1)
      OBVIOUS
    <3>2. h[i] = g[i]
      BY <3>1
    <3>3. CASE i = m
      BY <3>1, <3>2, <3>3
    <3>4. CASE i # m
      <4>1. i \in 1 .. (m - 1) /\ i + 1 # m + 1
        BY <3>4
      <4> QED BY <2>1, <3>1, <3>2, <4>1
    <3> QED BY <3>3, <3>4, Zenon
  <2>7. m + 1 \in 1 .. (n + 1) /\ (m + 1) - 1 = m
    OBVIOUS
  <2> HIDE DEF h
  <2> QED BY <2>4, <2>5, <2>6, <2>7
<1> HIDE DEF T
<1>3. n + 1 \in 1 .. (n + 1) /\ (n + 1) - 1 = n
  OBVIOUS
<1>4. n + 1 \in T
  BY <1>1, <1>2, <1>3, UpTo
<1> QED BY <1>3, <1>4 DEF T, Rounds

-----------------------------------------------------------------------------
(* What finalize writes.                                                   *)

Ordered(terms, order) == [i \in DOMAIN order |-> terms[order[i]]]

\* w is what finalize may write for the request r.
Written(w, r) ==
    \E order \in Bijection(DOMAIN r.terms, DOMAIN r.terms), body \in Bodies :
       w = [target |-> RequestTarget(r.uri, Ordered(r.terms, order)),
            data |-> body, body |-> http_urlencode_reserved(body),
            pieces |-> Pieces(Ordered(r.terms, order), r.fields)]

\* What has been written is what the request says, to which nothing is added then.
WireInv ==
    /\ wire = [u \in Users |-> wire[u]]
    /\ \A u \in Users : wire[u] # Null => req[u] # Null /\ Written(wire[u], req[u])

LEMMA WireInit == Init => WireInv
  BY Zenon DEF Init, WireInv

LEMMA WireNext == PoolInv /\ WireInv /\ [Next]_vars => WireInv'
<1> SUFFICES ASSUME PoolInv, WireInv, [Next]_vars PROVE WireInv'
  BY Zenon
<1>0. /\ req = [u \in Users |-> req[u]] /\ wire = [u \in Users |-> wire[u]]
      /\ \A u \in Users : wire[u] # Null => req[u] # Null /\ Written(wire[u], req[u])
  <2>1. req \in [Users -> {Null} \cup Requests]
    BY Zenon DEF PoolInv, RequestTypes
  <2> QED BY <2>1, Zenon DEF WireInv
<1>1. ASSUME NEW u \in Users, wire[u] = Null, wire' = wire,
             \A v \in Users : v # u => req'[v] = req[v]
      PROVE  WireInv'
  BY <1>0, <1>1, Zenon DEF WireInv
<1>2. ASSUME NEW u \in Users, NEW proxy \in Proxies, New(u, proxy) PROVE WireInv'
  <2>1. req[u] = Null /\ wire' = wire
    BY <1>2, Zenon DEF New
  <2>2. \A v \in Users : v # u => req'[v] = req[v]
    BY <1>0, <1>2, Zenon DEF New
  <2> QED BY <1>0, <1>1, <2>1, <2>2, Zenon
<1>3. ASSUME NEW u \in Users, NEW name \in Names, NEW value \in Values,
             AddTerm(u, name, value)
      PROVE  WireInv'
  <2>1. \A v \in Users : v # u => req'[v] = req[v]
    BY <1>0, <1>3, Zenon DEF AddTerm
  <2> QED BY <1>1, <1>3, <2>1, Zenon DEF AddTerm, Open
<1>4. ASSUME NEW u \in Users, NEW sz \in 1 .. Reserve, AddField(u, sz) PROVE WireInv'
  <2>1. \A v \in Users : v # u => req'[v] = req[v]
    BY <1>0, <1>4, Zenon DEF AddField
  <2> QED BY <1>1, <1>4, <2>1, Zenon DEF AddField, Open
<1>5. ASSUME NEW u \in Users, NEW body \in Bodies, Finalize(u, body) PROVE WireInv'
  <2>1. req' = req /\ req[u] # Null
    BY <1>5, Zenon DEF Finalize, Open
  <2>2. PICK order \in Bijection(DOMAIN req[u].terms, DOMAIN req[u].terms) :
           wire' = [wire EXCEPT ![u] =
                      [target |-> RequestTarget(req[u].uri, Ordered(req[u].terms, order)),
                       data |-> body, body |-> http_urlencode_reserved(body),
                       pieces |-> Pieces(Ordered(req[u].terms, order), req[u].fields)]]
    BY <1>5, Zenon DEF Finalize, Ordered
  <2>3. Written(wire'[u], req[u])
    BY <1>0, <2>2, Zenon DEF Written
  <2>4. /\ wire' = [v \in Users |-> wire'[v]]
        /\ \A v \in Users : v # u => wire'[v] = wire[v]
    BY <1>0, <2>2, Zenon
  <2> QED BY <1>0, <2>1, <2>3, <2>4, Zenon DEF WireInv
<1>6. ASSUME NEW u \in Users, Destroy(u) PROVE WireInv'
  <2>1. /\ wire' = [v \in Users |-> wire'[v]] /\ wire'[u] = Null
        /\ \A v \in Users : v # u => wire'[v] = wire[v] /\ req'[v] = req[v]
    BY <1>0, <1>6, Zenon DEF Destroy
  <2> QED BY <1>0, <2>1, Zenon DEF WireInv
<1>7. CASE UNCHANGED vars
  BY <1>7, Zenon DEF vars, WireInv
<1> QED BY <1>2, <1>3, <1>4, <1>5, <1>6, <1>7, Zenon DEF Next

\* What is on the wire was written for the request as it is, in every reachable state.
THEOREM WireInvariant == Spec => []WireInv
<1> QED BY PoolInvariant, WireInit, WireNext, PTL DEF Spec

\* The hash gives the terms of a request in another order.
LEMMA OrderedTerms ==
    ASSUME NEW terms \in Seq(Names \X Values),
           NEW order \in Bijection(DOMAIN terms, DOMAIN terms)
    PROVE  /\ Ordered(terms, order) \in Seq(Names \X Values)
           /\ Len(Ordered(terms, order)) = Len(terms)
           /\ \A i \in 1 .. Len(terms) : /\ order[i] \in 1 .. Len(terms)
                                         /\ Ordered(terms, order)[i] = terms[order[i]]
           /\ \A j \in 1 .. Len(terms) : \E i \in 1 .. Len(terms) : order[i] = j
           /\ \A i, j \in 1 .. Len(terms) : order[i] = order[j] => i = j
<1> DEFINE n == Len(terms)
<1>1. n \in Nat /\ DOMAIN terms = 1 .. n /\ \A i \in 1 .. n : terms[i] \in Names \X Values
  OBVIOUS
<1>2. /\ order \in [1 .. n -> 1 .. n]
      /\ \A j \in 1 .. n : \E i \in 1 .. n : order[i] = j
      /\ \A i, j \in 1 .. n : order[i] = order[j] => i = j
  BY <1>1, Zenon DEF Bijection, Injection, Surjection, IsInjective
<1>3. Ordered(terms, order) = [i \in 1 .. n |-> terms[order[i]]]
  BY <1>2, Zenon DEF Ordered
<1>4. \A i \in 1 .. n : terms[order[i]] \in Names \X Values
  BY <1>1, <1>2, Zenon
<1> HIDE DEF n
<1>5. Ordered(terms, order) \in Seq(Names \X Values) /\ Len(Ordered(terms, order)) = n
  BY <1>1, <1>3, <1>4
<1>6. \A i \in 1 .. n : order[i] \in 1 .. n /\ Ordered(terms, order)[i] = terms[order[i]]
  BY <1>2, <1>3, Zenon
<1> QED BY <1>2, <1>5, <1>6, Zenon DEF n

-----------------------------------------------------------------------------
(* What is reserved for a request.                                         *)

TermList == Seq(Text \X Text)

INSTANCE FiniteSetTheorems

LEMMA BSZIs ==
    ASSUME NEW s \in Text
    PROVE  BSZ(s) \in Nat /\ BSZ(s) > Len(s) /\ BSZ(s) <= 3 * Len(s) + 1
<1> DEFINE E == {i \in DOMAIN s : s[i] \in {"%=", "%&", "%#"}}
<1>1. Len(s) \in Nat /\ DOMAIN s = 1 .. Len(s)
  BY DEF Text
<1>2. IsFiniteSet(1 .. Len(s)) /\ Cardinality(1 .. Len(s)) = Len(s)
  <2>1. \A n \in Nat : IsFiniteSet(1 .. n) /\ Cardinality(1 .. n) = n
    <3> TAKE n \in Nat
    <3>1. n \in Int /\ 1 \in Int /\ (IF 1 > n THEN 0 ELSE n - 1 + 1) = n
      OBVIOUS
    <3> QED BY <3>1, FS_Interval, Zenon
  <2> QED BY <1>1, <2>1, Zenon
<1>3. E \in SUBSET (1 .. Len(s))
  BY <1>1, Zenon
<1>4. Cardinality(E) \in Nat /\ Cardinality(E) <= Len(s)
  <2>1. IsFiniteSet(E) /\ Cardinality(E) <= Cardinality(1 .. Len(s))
    BY <1>2, <1>3, FS_Subset, Zenon
  <2> QED BY <1>2, <2>1, FS_CardinalityType, Zenon
<1>5. BSZ(s) = Len(s) + 2 * Cardinality(E) + 1
  BY Zenon DEF BSZ
<1> HIDE DEF E
<1> QED BY <1>1, <1>4, <1>5

\* uri->qtermsz adds up.
LEMMA QtermszAdds ==
    ASSUME NEW terms \in TermList
    PROVE  \E h \in [1 .. (Len(terms) + 1) -> Nat] :
              /\ h[1] = 0 /\ qtermsz(terms) = h[Len(terms) + 1]
              /\ \A i \in 1 .. Len(terms) :
                   h[i + 1] = h[i] + BSZ(terms[i][1]) + BSZ(terms[i][2])
<1> DEFINE n == Len(terms)
           F == [p \in (1 .. n) \X Nat |-> p[2] + BSZ(terms[p[1]][1]) + BSZ(terms[p[1]][2])]
           Is(h) == h = [i \in 1 .. n + 1 |->
                           IF i = 1 THEN 0
                           ELSE h[i - 1] + BSZ(terms[i - 1][1]) + BSZ(terms[i - 1][2])]
<1>1. n \in Nat
  BY DEF TermList
<1>7. qtermsz(terms) = (CHOOSE h : Is(h))[n + 1]
  BY Zenon DEF qtermsz, Loop
<1>2. \A i \in 1 .. n : BSZ(terms[i][1]) \in Nat /\ BSZ(terms[i][2]) \in Nat
  <2>1. \A i \in 1 .. n : terms[i][1] \in Text /\ terms[i][2] \in Text
    BY DEF TermList
  <2> QED BY <2>1, BSZIs, Zenon
<1> HIDE DEF n
<1>3. F \in LoopBody(n, Nat)
  BY <1>2 DEF LoopBody
<1>a. PICK g : Rounds(g, n, Nat, 0, F)
  <2>1. 0 \in Nat
    OBVIOUS
  <2> HIDE DEF F
  <2> QED BY <1>1, <1>3, <2>1, LoopExists, Zenon
<1>4. g \in [1 .. (n + 1) -> Nat] /\ g[1] = 0 /\ \A i \in 1 .. n : g[i + 1] = F[<<i, g[i]>>]
  BY <1>a, Zenon DEF Rounds
<1>5. \A i \in 1 .. n : g[i + 1] = g[i] + BSZ(terms[i][1]) + BSZ(terms[i][2])
  <2>1. \A i \in 1 .. n : i \in 1 .. (n + 1) /\ g[i] \in Nat
    BY <1>1, <1>4
  <2> QED BY <1>4, <2>1, Zenon
<1>6. Is(g)
  <2>1. \A i \in 1 .. (n + 1) : i # 1 => i - 1 \in 1 .. n /\ (i - 1) + 1 = i
    BY <1>1
  <2>2. \A i \in 1 .. (n + 1) :
           g[i] = IF i = 1 THEN 0
                  ELSE g[i - 1] + BSZ(terms[i - 1][1]) + BSZ(terms[i - 1][2])
    BY <1>4, <1>5, <2>1, Zenon
  <2> QED BY <1>4, <2>2
<1> DEFINE h == CHOOSE f : Is(f)
<1>8. Is(h)
  BY <1>6, Zenon
<1> HIDE DEF h, F
<1>9. h[1] = 0 /\ \A i \in 1 .. n : h[i + 1] = h[i] + BSZ(terms[i][1]) + BSZ(terms[i][2])
  BY <1>1, <1>8
<1>10. DOMAIN h = 1 .. (n + 1) /\ h = [i \in 1 .. (n + 1) |-> h[i]]
  BY <1>8
<1> DEFINE T == {i \in 1 .. (n + 1) : h[i] \in Nat}
<1>11. 1 \in T /\ \A i \in 1 .. n : i \in T => i + 1 \in T
  <2>1. 1 \in T
    BY <1>1, <1>9
  <2>2. ASSUME NEW i \in 1 .. n, i \in T PROVE i + 1 \in T
    <3>1. h[i] \in Nat /\ i + 1 \in 1 .. (n + 1)
      BY <1>1, <2>2
    <3>2. h[i + 1] \in Nat
      BY <1>2, <1>9, <3>1
    <3> QED BY <3>1, <3>2, Zenon
  <2> QED BY <2>1, <2>2, Zenon
<1>12. \A i \in 1 .. (n + 1) : h[i] \in Nat
  <2> HIDE DEF T
  <2>1. \A i \in 1 .. (n + 1) : i \in T
    BY <1>1, <1>11, UpTo, Zenon
  <2> QED BY <2>1, Zenon DEF T
<1>13. h \in [1 .. (n + 1) -> Nat]
  BY <1>10, <1>12
<1> QED BY <1>7, <1>9, <1>13, Zenon DEF n, h

\* A term is no longer than what uri->qtermsz counts for all.
LEMMA TermsCounted ==
    ASSUME NEW terms \in TermList, NEW k \in 1 .. Len(terms), NEW j \in {1, 2}
    PROVE  /\ terms[k][j] \in Text /\ qtermsz(terms) \in Nat
           /\ Len(terms[k][j]) <= qtermsz(terms)
<1> DEFINE n == Len(terms)
<1>1. n \in Nat /\ \A i \in 1 .. n : terms[i][1] \in Text /\ terms[i][2] \in Text
  BY DEF TermList
<1>2. PICK h \in [1 .. (n + 1) -> Nat] :
         /\ h[1] = 0 /\ qtermsz(terms) = h[n + 1]
         /\ \A i \in 1 .. n : h[i + 1] = h[i] + BSZ(terms[i][1]) + BSZ(terms[i][2])
  BY QtermszAdds, Zenon
<1> DEFINE Sz(i, l) == Len(terms[i][l])
           T == {m \in 1 .. (n + 1) : \A i \in 1 .. (m - 1) : Sz(i, 1) <= h[m] /\ Sz(i, 2) <= h[m]}
<1>3. \A i \in 1 .. n : /\ Sz(i, 1) \in Nat /\ Sz(i, 2) \in Nat
                        /\ BSZ(terms[i][1]) \in Nat /\ BSZ(terms[i][2]) \in Nat
                        /\ BSZ(terms[i][1]) > Sz(i, 1) /\ BSZ(terms[i][2]) > Sz(i, 2)
  <2>1. \A s \in Text : Len(s) \in Nat /\ BSZ(s) \in Nat /\ BSZ(s) > Len(s)
    BY BSZIs DEF Text
  <2> QED BY <1>1, <2>1, Zenon
<1>4. k \in 1 .. n
  OBVIOUS
<1> HIDE DEF n, Sz
<1>5. 1 \in T
  BY <1>1
<1>6. ASSUME NEW m \in 1 .. n, m \in T PROVE m + 1 \in T
  <2>1. m \in 1 .. (n + 1) /\ m + 1 \in 1 .. (n + 1) /\ h[m] \in Nat /\ (m + 1) - 1 = m
    BY <1>1, <1>2
  <2>2. h[m + 1] >= h[m] /\ Sz(m, 1) <= h[m + 1] /\ Sz(m, 2) <= h[m + 1] /\ h[m + 1] \in Nat
    <3>1. /\ h[m + 1] = h[m] + BSZ(terms[m][1]) + BSZ(terms[m][2])
          /\ Sz(m, 1) \in Nat /\ Sz(m, 2) \in Nat
          /\ BSZ(terms[m][1]) \in Nat /\ BSZ(terms[m][2]) \in Nat
          /\ BSZ(terms[m][1]) > Sz(m, 1) /\ BSZ(terms[m][2]) > Sz(m, 2)
      BY <1>2, <1>3, Zenon
    <3> QED BY <2>1, <3>1
  <2>3. \A i \in 1 .. m : Sz(i, 1) <= h[m + 1] /\ Sz(i, 2) <= h[m + 1]
    <3> SUFFICES ASSUME NEW i \in 1 .. m PROVE Sz(i, 1) <= h[m + 1] /\ Sz(i, 2) <= h[m + 1]
      BY Zenon
    <3>1. CASE i = m
      BY <2>2, <3>1, Zenon
    <3>2. CASE i # m
      <4>1. i \in 1 .. (m - 1) /\ i \in 1 .. n
        BY <1>1, <3>2
      <4>2. Sz(i, 1) <= h[m] /\ Sz(i, 2) <= h[m] /\ Sz(i, 1) \in Nat /\ Sz(i, 2) \in Nat
        BY <1>3, <1>6, <4>1, Zenon
      <4> QED BY <2>1, <2>2, <4>2
    <3> QED BY <3>1, <3>2, Zenon
  <2> QED BY <2>1, <2>3
<1>7. n + 1 \in 1 .. (n + 1) /\ (n + 1) - 1 = n
  BY <1>1
<1>8. n + 1 \in T
  <2> HIDE DEF T
  <2> QED BY <1>1, <1>5, <1>6, <1>7, UpTo, Zenon
<1>9. Sz(k, 1) <= h[n + 1] /\ Sz(k, 2) <= h[n + 1] /\ h[n + 1] \in Nat
  BY <1>2, <1>4, <1>7, <1>8
<1> QED BY <1>1, <1>2, <1>4, <1>9, Zenon DEF Sz

\* Escaping keeps the number of characters.
LEMMA EncodedIs ==
    ASSUME NEW s \in Text
    PROVE  /\ Encoded(s) \in Text /\ Len(Encoded(s)) = Len(s)
           /\ \A i \in 1 .. Len(s) : Encoded(s)[i] = Escaped(s[i])
<1>1. Len(s) \in Nat /\ DOMAIN s = 1 .. Len(s) /\ \A i \in 1 .. Len(s) : s[i] \in STRING
  BY DEF Text
<1>2. \A c \in STRING : Escaped(c) \in STRING
  BY UriAssumption, Zenon DEF Escaped
<1>3. Encoded(s) = [i \in 1 .. Len(s) |-> Escaped(s[i])]
  BY <1>1, Zenon DEF Encoded
<1>4. \A i \in 1 .. Len(s) : Escaped(s[i]) \in STRING
  BY <1>1, <1>2, Zenon
<1> QED BY <1>1, <1>3, <1>4 DEF Text

\* What mnhttp_uri_start_request() reserves holds every encoded term.
LEMMA TermFits ==
    ASSUME NEW terms \in TermList, NEW k \in 1 .. Len(terms), NEW j \in {1, 2}
    PROVE  BSZ(Encoded(terms[k][j])) <= encsz(terms)
<1> DEFINE s == terms[k][j]
<1>1. s \in Text /\ qtermsz(terms) \in Nat /\ Len(s) <= qtermsz(terms)
  BY TermsCounted, Zenon
<1> HIDE DEF s
<1>2. BSZ(Encoded(s)) \in Nat /\ BSZ(Encoded(s)) <= 3 * Len(s) + 1
  BY <1>1, EncodedIs, BSZIs, Zenon
<1>3. Len(s) \in Nat
  BY <1>1 DEF Text
<1>4. BSZ(Encoded(s)) <= encsz(terms)
  BY <1>1, <1>2, <1>3 DEF encsz
<1> QED BY <1>4, Zenon DEF s

\* What is reserved for the encoded terms and for the header fields of a request
\* holds each of them with its NUL, however many and however long they are.
THEOREM RoomIsEnough == Spec => []RoomForPieces
<1>1. ASSUME PoolInv, WireInv PROVE RoomForPieces
  <2> SUFFICES ASSUME NEW u \in Live, wire[u] # Null, NEW p \in wire[u].pieces
               PROVE  p.need <= p.room
    BY Zenon DEF RoomForPieces
  <2>1. u \in Users /\ req[u] \in Requests /\ Written(wire[u], req[u])
    <3>1. req \in [Users -> {Null} \cup Requests]
      BY <1>1, Zenon DEF PoolInv, RequestTypes
    <3> QED BY <1>1, <3>1, Zenon DEF WireInv, Live
  <2>2. req[u].terms \in Seq(Names \X Values) /\ req[u].fields \in Seq(Nat)
    BY <2>1, Zenon DEF Requests
  <2>3. PICK order \in Bijection(DOMAIN req[u].terms, DOMAIN req[u].terms) :
           wire[u].pieces = Pieces(Ordered(req[u].terms, order), req[u].fields)
    BY <2>1 DEF Written
  <2> DEFINE terms == Ordered(req[u].terms, order)
  <2>4. terms \in TermList /\ DOMAIN terms = 1 .. Len(terms)
    <3>1. terms \in Seq(Names \X Values)
      BY <2>2, OrderedTerms, Zenon
    <3>2. Names \X Values \subseteq Text \X Text
      BY RequestAssumption, Zenon DEF PlainText
    <3> HIDE DEF terms
    <3> QED BY <3>1, <3>2 DEF TermList
  <2> HIDE DEF terms
  <2>5. CASE \E i \in DOMAIN terms, j \in {1, 2} :
                p = Piece(encsz(terms), BSZ(Encoded(terms[i][j])))
    <3>1. PICK i \in DOMAIN terms, j \in {1, 2} :
             p = Piece(encsz(terms), BSZ(Encoded(terms[i][j])))
      BY <2>5, Zenon
    <3>2. BSZ(Encoded(terms[i][j])) <= encsz(terms)
      BY <2>4, TermFits, Zenon
    <3> QED BY <3>1, <3>2, Zenon DEF Piece
  <2>6. CASE \E sz \in Range(req[u].fields) : p = Piece(FieldRoom(sz + 4), sz + 5)
    <3>1. PICK sz \in Nat : p = Piece(FieldRoom(sz + 4), sz + 5)
      BY <2>2, <2>6 DEF Range
    <3>2. sz + 4 \in Nat /\ (sz + 4) + 1 = sz + 5
      OBVIOUS
    <3>3. FieldRoom(sz + 4) >= sz + 5
      BY <3>2, FieldFits
    <3>4. FieldRoom(sz + 4) \in Int
      BY UriAssumption DEF FieldRoom
    <3>5. sz + 5 <= FieldRoom(sz + 4)
      BY <3>3, <3>4
    <3> QED BY <3>1, <3>5, Zenon DEF Piece
  <2>7. p \in Pieces(terms, req[u].fields)
    BY <2>3, Zenon DEF terms
  <2>8. \/ \E i \in DOMAIN terms, j \in {1, 2} :
              p = Piece(encsz(terms), BSZ(Encoded(terms[i][j])))
        \/ \E sz \in Range(req[u].fields) : p = Piece(FieldRoom(sz + 4), sz + 5)
    BY <2>7 DEF Pieces
  <2> QED BY <2>5, <2>6, <2>8, Zenon
<1> QED BY <1>1, PoolInvariant, WireInvariant, PTL
=============================================================================
