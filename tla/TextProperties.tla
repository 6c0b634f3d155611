--------------------------- MODULE TextProperties ---------------------------
(***************************************************************************)
(* What is checked of the conversions of texts and of rows: URLs, percent  *)
(* encoding, query strings and the columns of a result.                    *)
(***************************************************************************)
EXTENDS UrlParser, WebUtility, SociConversions, ConversionInputs

-----------------------------------------------------------------------------
(* Texts *)

Url == ParseURL(text)
Parsed == kind \in {"url", "scheme"} /\ Url.error = "Ok"

\* Nothing of a URL that ParseURL accepts is lost, doubled or moved: its parts with
\* their delimiters, in order, are the text again, up to the case of the scheme.
UrlRecomposes ==
    Parsed => \E present \in SUBSET Optional : Compose(Url, present) = LowerScheme(text)

\* The parts are cut at the delimiters: with UrlRecomposes this makes the reading of
\* a URL unique.  A host in brackets is closed, or takes all the rest.  ParseURL never
\* fails for a missing at sign: it looks for a user only when it has seen one.
UrlPartsClean ==
    /\ Parsed =>
        /\ Without(Url.user, {Colon, AtSign, Slash})
        /\ Without(Url.password, {AtSign, Slash})
        /\ Without(Url.port, {Slash})
        /\ Without(Url.path, {Question, Hash})
        /\ Without(Url.query, {Hash})
        /\ IF Char(Url.host, 1) = Open
           THEN Url.host[Len(Url.host)] = Close \/ Url.port \o Url.path = <<>>
           ELSE Without(Url.host, {Colon, Slash})
    /\ kind \in {"url", "scheme"} => Url.error # "NoAtSign"

\* A server that gets the path and the query of a URL as the target of a request finds
\* the same path and the same query in it: parse_target undoes what ParseURL cut.
ServerSeesUrl ==
    Parsed =>
        LET target == <<Slash>> \o Url.path
                      \o (IF Url.query = <<>> THEN <<>> ELSE <<Question>> \o Url.query)
        IN parse_target(target) = [path |-> <<Slash>> \o Url.path, query |-> Url.query]

\* A URL is read in the only way its delimiters allow, by the client and by the server.
UrlRead == UrlRecomposes /\ UrlPartsClean /\ ServerSeesUrl

\* Percent::decode undoes Percent::encode exactly when no percent sign of the value is
\* followed, once encoded, by two characters: encode leaves that sign as it is and
\* decode takes it for an escape.
PercentRoundTrip ==
    kind = "percent" =>
        (decode(encode(text)) = text <=>
            \A i \in DOMAIN text :
                text[i] = PercentSign => Len(encode(SubSeq(text, i + 1, Len(text)))) < 2)

\* parse_query_string finds every parameter between ampersands once, named by what is
\* before its last equals sign, and leaves out only those without a name.
QueryParameters ==
    kind = "query" =>
        LET found == parse_query_string(text)
            named == {p \in Pieces(text) : Cut(text, p).name # <<>>}
        IN /\ Len(found) = Cardinality(named)
           /\ {found[n] : n \in DOMAIN found} = {Cut(text, p) : p \in named}

-----------------------------------------------------------------------------
(* Rows *)

\* A row holds what one of the conversions stored, or NULL from elsewhere.
Stored == [bool |-> BOOLEAN, ptime |-> {<<>>, <<1, 0>>, <<1, 5>>, <<2, 5>>},
           json |-> 0..2, uuid |-> 0..2]
RowsOf(type) == [from : {"jkit"}, v : Stored[type]] \cup {[from |-> "elsewhere"]}
Columns(type, rows) ==
    [n \in DOMAIN rows |-> IF rows[n].from = "jkit" THEN to_base(type, rows[n].v) ELSE Null]

\* A variable that rows are fetched into holds, for bool and uuid, what the last row
\* stores (false and nil for NULL); for ptime and json a NULL leaves the value of an
\* earlier row in it, and a ptime comes back without its fraction of a second.
FetchSeesStored ==
    kind = "row" =>
        LET fetched == Fetch(args, Columns(args, text))
            Holds(n) == text[n].from = "jkit" /\ text[n].v # Fresh(args)
            held == {n \in DOMAIN text : Holds(n)}
        IN IF args \in {"bool", "uuid"}
           THEN fetched = IF text # <<>> /\ Holds(Len(text)) THEN text[Len(text)].v ELSE Fresh(args)
           ELSE IF held = {} THEN fetched = Fresh(args)
           ELSE LET v == text[Max(held)].v
                IN fetched = IF args = "ptime" THEN <<v[1], 0>> ELSE v
=============================================================================
