--------------------------- MODULE MCConversions ---------------------------
(***************************************************************************)
(* The conversions of jkit checked against reference definitions on every  *)
(* small input.  A behaviour types a text of one kind, a character a step; *)
(* the arguments of the SQL builders are chosen at once.                   *)
(***************************************************************************)
EXTENDS TextProperties, SqlProperties

CONSTANTS UrlMax, PercentMax, QueryMax, ListMax, RowMax

vars == <<kind, text, args>>

\* a : / @ [ ] ? #, and for the scheme also an upper case letter and a digit
UrlChars == {97, Colon, Slash, AtSign, Open, Close, Question, Hash}
SchemeChars == {97, 65, 49, Colon, Slash}
\* "a://"
UrlPrefix == <<97, Colon, Slash, Slash>>
\* blank % + - 2 5 A =
PercentChars == {Space, PercentSign, Plus, Minus, 50, 53, 65, Equals}
QueryChars == {Ampersand, Equals, Plus, PercentSign, 97, 52}

NameOrderABC == <<"a", "b", "c">>

Init ==
    \/ kind \in {"scheme", "percent", "query", "list"} /\ text = <<>> /\ args = "none"
    \/ kind = "url" /\ text = UrlPrefix /\ args = "none"
    \/ kind = "sql" /\ text = <<>> /\ args \in SqlArgs
    \/ kind = "row" /\ text = <<>> /\ args \in Types

Type(k, Chars, max) ==
    /\ kind = k
    /\ Len(text) < max
    /\ \E c \in Chars : text' = Append(text, c)
    /\ UNCHANGED <<kind, args>>

Next ==
    \/ Type("scheme", SchemeChars, UrlMax)
    \/ Type("url", UrlChars, Len(UrlPrefix) + UrlMax)
    \/ Type("percent", PercentChars, PercentMax)
    \/ Type("query", QueryChars, QueryMax)
    \/ Type("list", {"x", "y", " ", ","}, ListMax)
    \/ kind = "row" /\ Type("row", RowsOf(args), RowMax)

Spec == Init /\ [][Next]_vars
=============================================================================
