------------------------------ MODULE JsonSql ------------------------------
(***************************************************************************)
(* The statement builders of src/db/json2sql.cpp as functions.  A          *)
(* statement is a sequence of tokens, each a sequence of strings: a word   *)
(* <<"set">>, a name <<"name", k>>, a literal <<"lit", ...>>.  A JSON      *)
(* value is its type and the characters of its dump(); an object is a      *)
(* function from names to values, its order of iteration that of           *)
(* NameOrder.  Where the code decrements end() of an empty map the builder *)
(* has two outcomes: the process dies, or the unused iterator does no harm.*)
(***************************************************************************)
EXTENDS Integers, Sequences, FiniteSetsExt, Flatten

CONSTANT NameOrder

\* The order has every name once.
ASSUME NameOrderAssumption ==
    /\ NameOrder \in Seq(STRING)
    /\ \A m, n \in DOMAIN NameOrder : NameOrder[m] = NameOrder[n] => m = n

Name(k) == <<"name", k>>
Died == <<<<"died">>>>

\* What is between the first and the last character.
Inner(s) == SubSeq(s, 2, Len(s) - 1)

\* Mutant: the brackets of an array are kept.
value_to_sql_str_Brackets(value) ==
    LET Quoted(s) == <<"'">> \o s \o <<"'">>
    IN CASE value.type \in {"null", "number", "boolean"} -> value.dump
         [] value.type = "string" -> Quoted(Inner(value.dump))
         [] value.type \in {"array", "object"} -> Quoted(value.dump)

value_to_sql_str(value) ==
    LET Quoted(s) == <<"'">> \o s \o <<"'">>
    IN CASE value.type \in {"null", "number", "boolean"} -> value.dump
         [] value.type = "string" -> Quoted(Inner(value.dump))
         [] value.type = "array" -> Quoted(<<"{">> \o Inner(value.dump) \o <<"}">>)
         [] value.type = "object" -> Quoted(value.dump)

Literal(value) == <<"lit">> \o value_to_sql_str(value)

\* The loops "append the item; if it is not the last one, append the separator".
Listed(items, separator) ==
    Flatten([n \in DOMAIN items |->
        IF n # Len(items) THEN items[n] \o <<separator>> ELSE items[n]])

\* The keys of an object in the order of iteration.
Names(obj) ==
    Flatten([n \in DOMAIN NameOrder |->
        IF NameOrder[n] \in DOMAIN obj THEN <<NameOrder[n]>> ELSE <<>>])
Equal(k, value) == <<Name(k), <<"=">>, Literal(value)>>

\* What the loops append for the members of an object: assignments and conditions,
\* names, literals, EXCLUDED.
EqualItems(obj) ==
    LET names == Names(obj) IN [n \in DOMAIN names |-> Equal(names[n], obj[names[n]])]
NameItems(obj) ==
    LET names == Names(obj) IN [n \in DOMAIN names |-> <<Name(names[n])>>]
LiteralItems(obj) ==
    LET names == Names(obj) IN [n \in DOMAIN names |-> <<Literal(obj[names[n]])>>]
ExcludedItems(obj) ==
    LET names == Names(obj)
    IN [n \in DOMAIN names |-> <<Name(names[n]), <<"=EXCLUDED.">>, Name(names[n])>>]

-----------------------------------------------------------------------------
(* Lists for "in" *)

arr_to_sql_in_arr(dump) ==
    LET str == <<"(">> \o Inner(dump) \o <<")">>
    IN [n \in DOMAIN str |-> IF str[n] = "\"" THEN "'" ELSE str[n]]

\* One round of boost::split by the characters of Separators, adjacent ones taken as
\* one: the words that are complete, the one being read, the last character a separator.
SplitStep(c, s, Separators) ==
    IF c \notin Separators THEN [s EXCEPT !.token = Append(@, c), !.run = FALSE]
    ELSE IF s.run THEN s
    ELSE [token |-> <<>>, done |-> Append(s.done, s.token), run |-> TRUE]

split(str, Separators) ==
    LET after[c \in 0..Len(str)] ==
            IF c = 0 THEN [token |-> <<>>, done |-> <<>>, run |-> FALSE]
            ELSE SplitStep(str[c], after[c - 1], Separators)
        end == after[Len(str)]
    IN Append(end.done, end.token)

comma_arr_to_sql_in_arr(str, is_text) ==
    LET arr == split(str, {" ", ","})
        quote == IF is_text THEN <<"'">> ELSE <<>>
    IN <<"(">> \o Listed([n \in DOMAIN arr |-> quote \o arr[n] \o quote], ",") \o <<")">>

-----------------------------------------------------------------------------
(* update *)

SetList(obj) == Listed(EqualItems(obj), <<",">>)

\* " where " and the conditions; last_where is end() decremented.
Where(head, wheres) ==
    LET text == head \o <<<<"where">>>>
                \o Listed(EqualItems(wheres), <<"and">>)
    IN IF DOMAIN wheres = {} THEN {text, Died} ELSE {text}

update_where(obj, key_where, value_where) ==
    IF DOMAIN obj = {} THEN {<<>>}
    ELSE {<<<<"update">>, <<"set">>>> \o SetList(obj)
          \o <<<<"where">>>> \o Equal(key_where, value_where)}

\* The conditions are strings.
update_map(obj, key_value_wheres) ==
    IF DOMAIN obj = {} THEN {<<>>}
    ELSE Where(<<<<"update">>, <<"set">>>> \o SetList(obj), key_value_wheres)

\* The conditions are JSON values.
update_json(obj, key_value_wheres) ==
    IF DOMAIN obj = {} THEN {<<>>}
    ELSE Where(<<<<"update">>, <<"set">>>> \o SetList(obj), key_value_wheres)

-----------------------------------------------------------------------------
(* insert and upsert *)

Insert(obj) ==
    <<<<"insert into">>, <<"(">>>> \o Listed(NameItems(obj), <<",">>)
    \o <<<<") values(">>>>
    \o Listed(LiteralItems(obj), <<",">>) \o <<<<")">>>>

obj_to_insert_sql_str(obj) == IF DOMAIN obj = {} THEN {<<>>} ELSE {Insert(obj)}

OnConflict(key_wheres) ==
    <<<<"on conflict(">>>> \o Listed([n \in DOMAIN key_wheres |-> <<Name(key_wheres[n])>>], <<",">>)
    \o <<<<")">>>>

\* Mutant: the excepted name is not erased.
Excluded_All(obj, except_key) ==
    Listed(ExcludedItems(obj), <<",">>)

\* The list of the copy without except_key.
Excluded(obj, except_key) ==
    LET obj_cp == [k \in DOMAIN obj \ {except_key} |-> obj[k]]
    IN Listed(ExcludedItems(obj_cp), <<",">>)

\* "do update set" and that list; last_cp is end() of the copy decremented.
DoUpdate(obj, key_wheres, except_key) ==
    LET text == Insert(obj) \o OnConflict(key_wheres)
                \o <<<<"do update set">>>> \o Excluded(obj, except_key)
    IN CASE DOMAIN obj = {} -> {<<>>}
         [] DOMAIN obj = {except_key} -> {text, Died}
         [] OTHER -> {text}

upsert_update_2(obj, key_where1, key_where2, except_key) ==
    DoUpdate(obj, <<key_where1, key_where2>>, except_key)

upsert_update_3(obj, key_where1, key_where2, key_where3, except_key) ==
    DoUpdate(obj, <<key_where1, key_where2, key_where3>>, except_key)

upsert_update_n(obj, key_wheres, except_key) == DoUpdate(obj, key_wheres, except_key)

obj_to_upsert_nothing_sql_str(obj, key_wheres) ==
    IF DOMAIN obj = {} THEN {<<>>}
    ELSE {Insert(obj) \o OnConflict(key_wheres) \o <<<<"do nothing">>>>}

-----------------------------------------------------------------------------
(* Reference: what the lists of a statement say to the server. *)

Index(statement, word) == Min({n \in DOMAIN statement : statement[n] = <<word>>})
Between(statement, from, to) ==
    SubSeq(statement, Index(statement, from) + 1, Index(statement, to) - 1)
After(statement, word) == SubSeq(statement, Index(statement, word) + 1, Len(statement))

\* The tokens are a list of Items, of w tokens each, every one of them once.
Reads(tokens, separator, w, Items) ==
    LET starts == {n \in DOMAIN tokens : n % (w + 1) = 1 % (w + 1)}
        Item(n) == SubSeq(tokens, n, n + w - 1)
    IN /\ (Len(tokens) + 1) % (w + 1) = 0
       /\ \A n \in DOMAIN tokens : n % (w + 1) = 0 <=> tokens[n] = <<separator>>
       /\ {Item(n) : n \in starts} = Items
       /\ \A m, n \in starts : Item(m) = Item(n) => m = n
=============================================================================
