------------------------- MODULE ConversionsProofs -------------------------
(***************************************************************************)
(* The conversions that MCConversions checks on small inputs, for texts of *)
(* any length, results of any number of rows and objects of any size: what *)
(* the lemmas say of the arguments of the behaviours.                      *)
(***************************************************************************)
EXTENDS MCConversions, ConversionLemmas, StatementLemmas, FiniteSetTheorems

-----------------------------------------------------------------------------
(* The texts of the behaviours *)

ListChars == {"x", "y", " ", ","}

TextInv ==
    /\ kind = "row" => args \in Types /\ text \in Seq(RowsOf(args))
    /\ kind \in {"url", "scheme", "percent", "query"} => text \in Seq(Codes)
    /\ kind = "list" => text \in Seq(ListChars)
    /\ kind = "sql" => args \in SqlArgs

\* The texts that are typed are sequences of their characters, and the arguments of
\* the builders stay what was chosen.
LEMMA TextInvariant == Spec => []TextInv
  <1>1. Init => TextInv
    <2>1. UrlPrefix \in Seq(Codes)
      BY DEF UrlPrefix, Codes, Colon, Slash
    <2>. SUFFICES ASSUME Init PROVE TextInv
      OBVIOUS
    <2>2. kind = "row" => args \in Types /\ text = <<>>
      BY DEF Init
    <2>3. kind \in {"url", "scheme", "percent", "query"} => text = UrlPrefix \/ text = <<>>
      BY DEF Init
    <2>4. <<>> \in Seq(RowsOf(args)) /\ <<>> \in Seq(Codes) /\ <<>> \in Seq(ListChars)
      OBVIOUS
    <2>5. (kind = "list" => text = <<>>) /\ (kind = "sql" => args \in SqlArgs)
      BY DEF Init
    <2>. QED  BY <2>1, <2>2, <2>3, <2>4, <2>5, Zenon DEF TextInv
  <1>2. TextInv /\ [Next]_vars => TextInv'
    <2>. SUFFICES ASSUME TextInv, [Next]_vars PROVE TextInv'
      OBVIOUS
    <2>1. CASE UNCHANGED vars
      BY <2>1 DEF vars, TextInv
    <2>2. CASE kind = "row" /\ Type("row", RowsOf(args), RowMax)
      <3>1. /\ args \in Types /\ text \in Seq(RowsOf(args))
            /\ UNCHANGED <<kind, args>>
            /\ \E c \in RowsOf(args) : text' = Append(text, c)
        BY <2>2 DEF Type, TextInv
      <3>2. text' \in Seq(RowsOf(args))
        BY <3>1
      <3>. QED  BY <2>2, <3>1, <3>2 DEF TextInv
    <2>3. ASSUME NEW k \in {"scheme", "url", "percent", "query"}, NEW Chars, Chars \subseteq Codes,
                 NEW max, Type(k, Chars, max)
          PROVE  TextInv'
      <3>1. text \in Seq(Codes) /\ UNCHANGED <<kind, args>> /\ kind = k
            /\ \E c \in Codes : text' = Append(text, c)
        BY <2>3 DEF Type, TextInv
      <3>2. text' \in Seq(Codes)
        BY <3>1
      <3>. QED  BY <3>1, <3>2 DEF TextInv
    <2>4. CASE Type("list", ListChars, ListMax)
      <3>1. text \in Seq(ListChars) /\ UNCHANGED <<kind, args>> /\ kind = "list"
            /\ \E c \in ListChars : text' = Append(text, c)
        BY <2>4 DEF Type, TextInv
      <3>2. text' \in Seq(ListChars)
        BY <3>1
      <3>. QED  BY <3>1, <3>2 DEF TextInv
    <2>5. /\ SchemeChars \subseteq Codes /\ UrlChars \subseteq Codes
          /\ PercentChars \subseteq Codes /\ QueryChars \subseteq Codes
      BY DEF SchemeChars, UrlChars, PercentChars, QueryChars, Codes, Colon, Slash, AtSign, Open,
             Close, Question, Hash, Space, PercentSign, Plus, Minus, Equals, Ampersand
    <2>6. CASE Type("scheme", SchemeChars, UrlMax)
      BY <2>3, <2>5, <2>6
    <2>7. CASE Type("url", UrlChars, Len(UrlPrefix) + UrlMax)
      BY <2>3, <2>5, <2>7
    <2>8. CASE Type("percent", PercentChars, PercentMax)
      BY <2>3, <2>5, <2>8
    <2>9. CASE Type("query", QueryChars, QueryMax)
      BY <2>3, <2>5, <2>9
    <2>10. CASE Type("list", {"x", "y", " ", ","}, ListMax)
      BY <2>4, <2>10, Zenon DEF ListChars
    <2>. QED  BY <2>1, <2>2, <2>6, <2>7, <2>8, <2>9, <2>10, Zenon DEF Next
  <1>. QED  BY <1>1, <1>2, PTL DEF Spec

-----------------------------------------------------------------------------
(* The invariants about texts and rows *)

\* A variable that the rows of a result are fetched into holds, for bool and uuid,
\* what the last row stores; for ptime and json what the last row that is not NULL
\* stores, without the fraction of a second: for any number of rows (soci_pgsql.hpp,
\* the from_base and to_base of type_conversion).
THEOREM FetchSeesStoredCorrect == Spec => []FetchSeesStored
  <1>1. TextInv => FetchSeesStored
    BY FetchSeesStoredHolds, Zenon DEF TextInv
  <1>. QED  BY <1>1, TextInvariant, PTL

\* A URL of any length is read in the only way its delimiters allow: its parts with
\* their delimiters are the text again, no part contains a delimiter it is cut at, and
\* parse_target finds the same path and query (LUrlParser.cpp, web_utility.hpp).
THEOREM UrlReadCorrect == Spec => []UrlRead
  <1>1. TextInv => UrlRead
    BY UrlReadHolds, Zenon DEF TextInv
  <1>. QED  BY <1>1, TextInvariant, PTL

\* Percent::decode undoes Percent::encode exactly for the texts, of any length, in which
\* no percent sign is followed, once encoded, by two characters (web_utility.hpp).
THEOREM PercentRoundTripCorrect == Spec => []PercentRoundTrip
  <1>1. TextInv => PercentRoundTrip
    BY PercentRoundTripHolds, Zenon DEF TextInv
  <1>. QED  BY <1>1, TextInvariant, PTL

\* What the lemmas on parse_query_string take of finite sets.
LEMMA CountingHolds == Counting
  <1>1. IsFiniteSet({}) /\ Cardinality({}) = 0
    BY FS_EmptySet
  <1>2. ASSUME NEW S, NEW x, IsFiniteSet(S), x \notin S
        PROVE  IsFiniteSet(S \cup {x}) /\ Cardinality(S \cup {x}) = Cardinality(S) + 1
    BY <1>2, FS_AddElement
  <1>. QED  BY <1>1, <1>2, Zenon DEF Counting

\* parse_query_string (web_utility.hpp, lines 142-178) finds every piece between
\* ampersands once, named by what is before its last equals sign, with the decoded
\* value after it, and leaves out only those without a name: for texts of any length
\* and any characters.
THEOREM QueryParsed ==
    ASSUME NEW q \in Texts
    PROVE  LET found == parse_query_string(q)
               named == {p \in Pieces(q) : Cut(q, p).name # <<>>}
           IN /\ Len(found) = Cardinality(named)
              /\ {found[n] : n \in DOMAIN found} = {Cut(q, p) : p \in named}
  BY CountingHolds, QueryFollowed, Zenon

\* parse_query_string finds every named parameter of a query string of any length once,
\* and nothing else (web_utility.hpp).
THEOREM QueryParametersCorrect == Spec => []QueryParameters
  <1>1. TextInv => QueryParameters
    BY CountingHolds, QueryParametersHolds, Zenon DEF TextInv
  <1>. QED  BY <1>1, TextInvariant, PTL

-----------------------------------------------------------------------------
(* The statements and the lists, without the hypothesis of their lemmas *)

\* Induction over an initial part of the naturals, for sets.
LEMMA InductionHolds == Inductive
  <1>. SUFFICES ASSUME NEW L \in Nat, NEW S, 0 \in S, \A n \in 0..L : n \in S /\ n < L => n + 1 \in S
                PROVE  0..L \subseteq S
    BY DEF Inductive
  <1>. QED  BY Induction

\* The two builders of lists for "in" agree on the words of any text without quotes:
\* arr_to_sql_in_arr on the array of the words, comma_arr_to_sql_in_arr on the text.
THEOREM InListsSame ==
    ASSUME NEW X, NEW str \in Seq(X), DoubleQuote \notin X
    PROVE  LET words == split(str, {" ", ","})
               dump == <<"[">> \o Listed([n \in DOMAIN words |-> <<"\"">> \o words[n] \o <<"\"">>], ",")
                       \o <<"]">>
           IN arr_to_sql_in_arr(dump) = comma_arr_to_sql_in_arr(str, TRUE)
  BY InListsAlike, InductionHolds, Zenon

\* An update sets every member of the object once and asks for every condition once,
\* for any object and any conditions; it can die, or ask for nothing, exactly when there
\* is no condition (obj_to_update_sql_str with a map and with a JSON object).
THEOREM UpdatesSay ==
    ASSUME NEW D, NEW V, NEW obj, NEW wheres, ObjectIn(D, V, obj), ObjectIn(D, V, wheres)
    PROVE  /\ UpdateSaid(update_json(obj, wheres), obj, wheres)
           /\ UpdateSaid(update_map(obj, wheres), obj, wheres)
  BY UpdatesMade, InductionHolds, Zenon

\* So does the update with one condition (obj_to_update_sql_str with a key and a value).
THEOREM UpdateWhereSays ==
    ASSUME NEW D, NEW V, NEW obj, NEW wheres, ObjectIn(D, V, obj), ObjectIn(D, V, wheres),
           NEW k, DOMAIN wheres = {k}
    PROVE  UpdateSaid(update_where(obj, k, wheres[k]), obj, wheres)
  BY UpdateWhereMade, InductionHolds, Zenon

\* An insert and both kinds of upsert name every member once and give its value at the
\* same position, for any object and any columns of a conflict (obj_to_insert_sql_str,
\* obj_to_upsert_nothing_sql_str, obj_to_upsert_update_sql_str).
THEOREM InsertsSay ==
    ASSUME NEW D, NEW V, NEW obj, MembersIn(D, V, obj),
           NEW A, A # {}, A \subseteq D, NEW keys, Once(keys, A), NEW except_key
    PROVE  /\ InsertSaid(Insert(obj), obj) /\ Insert(obj) # Died
           /\ InsertSaid(NothingOf(obj, keys), obj) /\ NothingOf(obj, keys) # Died
           /\ InsertSaid(UpsertOf(obj, keys, except_key), obj) /\ UpsertOf(obj, keys, except_key) # Died
  BY InsertsMade, InductionHolds, Zenon

\* An upsert inserts the members and on a conflict in the given columns overwrites
\* all of them but except_key, for any object and any columns; it can die, or set
\* nothing, exactly when there is no other member (the three overloads of
\* obj_to_upsert_update_sql_str).
THEOREM DoUpdateSays ==
    ASSUME NEW D, NEW V, NEW obj, MembersIn(D, V, obj),
           NEW A, A # {}, A \subseteq D, NEW keys, Once(keys, A), NEW except_key
    PROVE  UpsertsSaid(DoUpdate(obj, keys, except_key), obj, A, except_key)
  BY DoUpdateMade, InductionHolds, Zenon

-----------------------------------------------------------------------------
(* The invariants about lists and statements *)

\* A value is read back from its literal, an array exactly when no array is nested in it
\* (value_to_sql_str), and the two builders of lists for "in" agree on every text
\* (arr_to_sql_in_arr and comma_arr_to_sql_in_arr), whatever its length.
THEOREM ValuesReadCorrect == Spec => []ValuesRead
  <1>1. TextInv => ValuesRead
    BY LiteralsReadHolds, InListsAgreeHolds, InductionHolds, Zenon DEF TextInv, ListChars, ValuesRead
  <1>. QED  BY <1>1, TextInvariant, PTL

\* An update, an insert and an upsert name, set and ask for what their arguments say,
\* each once, and there is no such statement only for the arguments named in the
\* invariants (obj_to_update_sql_str, obj_to_insert_sql_str, obj_to_upsert_*_sql_str).
THEOREM StatementsReadCorrect == Spec => []StatementsRead
  <1>1. TextInv => StatementsRead
    BY UpdateReadsHolds, InsertReadsHolds, UpsertReadsHolds, InductionHolds, Zenon DEF TextInv, StatementsRead
  <1>. QED  BY <1>1, TextInvariant, PTL
=============================================================================
