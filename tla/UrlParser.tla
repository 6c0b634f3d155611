----------------------------- MODULE UrlParser -----------------------------
(***************************************************************************)
(* LUrlParser::clParseURL::ParseURL (src/common/LUrlParser.cpp) as a       *)
(* function.  A text is a sequence of character codes; the pointers of the *)
(* code are indices, and the terminating NUL is the code 0 past the end.   *)
(***************************************************************************)
EXTENDS Integers, Sequences, FiniteSetsExt

Hash == 35
Slash == 47
Colon == 58
Question == 63
AtSign == 64
Open == 91
Close == 93

Letters == (65..90) \cup (97..122)
tolower(c) == IF c \in 65..90 THEN c + 32 ELSE c

\* *p, and the scans "while (*p && *p is not in Stop) p++" starting at i
Char(s, i) == IF i <= Len(s) THEN s[i] ELSE 0
Until(s, i, Stop) == Min({j \in i..(Len(s) + 1) : Char(s, j) \in Stop \cup {0}})
Part(s, i, j) == SubSeq(s, i, j - 1)

Failed(code) == [error |-> code]

IsSchemeValid(name) == \A i \in DOMAIN name : name[i] \in Letters \cup {43, 45, 46}

\* Mutant: one character too many is skipped before the fragment.
ParsePath_Skips(s, i, result) ==
    LET path_end == Until(s, i + 1, {Hash, Question})
        query_end == IF Char(s, path_end) = Question
                     THEN Until(s, path_end + 1, {Hash}) ELSE path_end
    IN [result EXCEPT !.path = Part(s, i + 1, path_end),
                      !.query = Part(s, path_end + 1, query_end),
                      !.fragment = SubSeq(s, query_end + 2, Len(s))]

\* Lines 221-264: path, query and fragment after the slash at i.
ParsePath(s, i, result) ==
    LET path_end == Until(s, i + 1, {Hash, Question})
        query_end == IF Char(s, path_end) = Question
                     THEN Until(s, path_end + 1, {Hash}) ELSE path_end
    IN [result EXCEPT !.path = Part(s, i + 1, path_end),
                      !.query = Part(s, path_end + 1, query_end),
                      !.fragment = SubSeq(s, query_end + 1, Len(s))]

\* Lines 164-184: an address in brackets ends after its bracket, or nowhere.
HostEnd(s, i) ==
    IF Char(s, i) = Open
    THEN LET close == Until(s, i, {Close})
         IN IF close <= Len(s) THEN close + 1 ELSE close
    ELSE Until(s, i, {Colon, Slash})

\* Lines 164-219: host and port; what follows them is nothing or a slash.
ParseHost(s, i, result) ==
    LET host_end == HostEnd(s, i)
        port_end == IF Char(s, host_end) = Colon
                    THEN Until(s, host_end + 1, {Slash}) ELSE host_end
        found == [result EXCEPT !.host = Part(s, i, host_end),
                                !.port = Part(s, host_end + 1, port_end)]
    IN CASE port_end > Len(s) -> found
         [] Char(s, port_end) = Slash -> ParsePath(s, port_end, found)
         [] OTHER -> Failed("NoSlash")

\* Lines 104-162: a user name is there if an at sign comes before any slash.
ParseUser(s, i, result) ==
    IF Char(s, Until(s, i, {AtSign, Slash})) # AtSign
    THEN ParseHost(s, i, result)
    ELSE LET name_end == Until(s, i, {Colon, AtSign})
             pass_end == IF Char(s, name_end) = Colon
                         THEN Until(s, name_end + 1, {AtSign}) ELSE name_end
         IN IF Char(s, pass_end) # AtSign THEN Failed("NoAtSign")
            ELSE ParseHost(s, pass_end + 1,
                           [result EXCEPT !.user = Part(s, i, name_end),
                                          !.password = Part(s, name_end + 1, pass_end)])

ParseURL(URL) ==
    LET colon == Until(URL, 1, {Colon})
        scheme == Part(URL, 1, colon)
    IN CASE colon > Len(URL) -> Failed("NoUrlCharacter")
         [] colon <= Len(URL) /\ ~IsSchemeValid(scheme) -> Failed("InvalidSchemeName")
         [] colon <= Len(URL) /\ IsSchemeValid(scheme)
              /\ (Char(URL, colon + 1) # Slash \/ Char(URL, colon + 2) # Slash) ->
            Failed("NoDoubleSlash")
         [] OTHER ->
            ParseUser(URL, colon + 3,
                      [error |-> "Ok", scheme |-> [n \in DOMAIN scheme |-> tolower(scheme[n])],
                       user |-> <<>>, password |-> <<>>, host |-> <<>>, port |-> <<>>,
                       path |-> <<>>, query |-> <<>>, fragment |-> <<>>])

-----------------------------------------------------------------------------
(* Reference: what a parsed URL is put together from. *)

Optional == {"user", "password", "port", "path", "query", "fragment"}

\* The text of the parts in order, with the delimiters of those that are present.
Compose(p, present) ==
    LET With(name, before, part, after) ==
            IF name \in present THEN before \o part \o after ELSE <<>>
    IN p.scheme \o <<Colon, Slash, Slash>>
       \o With("user", <<>>, p.user \o With("password", <<Colon>>, p.password, <<>>), <<AtSign>>)
       \o p.host
       \o With("port", <<Colon>>, p.port, <<>>)
       \o With("path", <<Slash>>, p.path \o With("query", <<Question>>, p.query, <<>>)
                                         \o With("fragment", <<Hash>>, p.fragment, <<>>), <<>>)

LowerScheme(URL) ==
    LET colon == Until(URL, 1, {Colon})
    IN [i \in DOMAIN URL |-> IF i < colon THEN tolower(URL[i]) ELSE URL[i]]

Without(part, codes) == \A i \in DOMAIN part : part[i] \notin codes
=============================================================================
