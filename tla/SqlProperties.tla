--------------------------- MODULE SqlProperties ----------------------------
(***************************************************************************)
(* What is checked of the builders of SQL: literals, lists and statements. *)
(***************************************************************************)
EXTENDS JsonSql, Functions, ConversionInputs

\* JSON values by their type and dump: null, 1, "x", [1,2], [[1]], {"x":1}
JsonValues ==
    {[type |-> "null", dump |-> <<"null">>],
     [type |-> "number", dump |-> <<"1">>],
     [type |-> "string", dump |-> <<"\"", "x", "\"">>],
     [type |-> "array", dump |-> <<"[", "1", ",", "2", "]">>],
     [type |-> "array", dump |-> <<"[", "[", "1", "]", "]">>],
     [type |-> "object", dump |-> <<"{", "\"", "x", "\"", ":", "1", "}">>]}

\* The names of the objects below have their places in the order.
ASSUME NamesAssumption == {"a", "b", "c"} \subseteq Range(NameOrder)

Objects(names, Values) == UNION {[S -> Values] : S \in SUBSET names}

SqlArgs ==
    [obj : Objects({"a", "b", "c"}, JsonValues),
     wheres : Objects({"a", "b"}, {v \in JsonValues : v.type \in {"null", "string"}}),
     except_key : {"a", "c"},
     key_wheres : {<<"a">>, <<"b", "a">>, <<"c", "b", "a">>}]

-----------------------------------------------------------------------------

\* The two builders of lists for "in" agree: a list given as a text with commas and
\* blanks and the JSON array of its words give the same list.  An empty word comes only
\* from a separator at an end of the text.
InListsAgree ==
    kind = "list" =>
        LET words == split(text, {" ", ","})
            dump == <<"[">> \o Listed([n \in DOMAIN words |-> <<"\"">> \o words[n] \o <<"\"">>], ",")
                    \o <<"]">>
        IN /\ arr_to_sql_in_arr(dump) = comma_arr_to_sql_in_arr(text, TRUE)
           /\ \A n \in DOMAIN words : words[n] = <<>> =>
                \/ n = 1 /\ (text = <<>> \/ text[1] \in {" ", ","})
                \/ n = Len(words) /\ text[Len(text)] \in {" ", ","}

\* A column of the value's own type reads the literal of a value without a quote in its
\* texts as that value, except that an array of arrays is no array literal: only the
\* outermost brackets become braces.
LiteralsRead ==
    kind = "sql" => \A k \in DOMAIN args.obj :
        LET value == args.obj[k]
            lit == value_to_sql_str(value)
            nested == value.type = "array" /\ "[" \in Range(Inner(value.dump))
        IN CASE value.type \in {"null", "number"} -> lit = value.dump
             [] value.type = "string" -> <<"\"">> \o Inner(lit) \o <<"\"">> = value.dump
             [] value.type = "object" -> Inner(lit) = value.dump
             [] value.type = "array" ->
                ("[" \notin Range(lit) /\ <<"[">> \o Inner(Inner(lit)) \o <<"]">> = value.dump)
                    <=> ~nested

\* Values and lists of values arrive in a statement as what they are.
ValuesRead == LiteralsRead /\ InListsAgree

\* The overloads that take these arguments, as the outcomes of each: the two without
\* JSON conditions quote them as strings.
Updates(a) ==
    LET strings == \A k \in DOMAIN a.wheres : a.wheres[k].type = "string"
    IN {update_json(a.obj, a.wheres)}
       \cup (IF strings THEN {update_map(a.obj, a.wheres)} ELSE {})
       \cup {update_where(a.obj, k, a.wheres[k]) :
                k \in {k \in DOMAIN a.wheres : strings /\ DOMAIN a.wheres = {k}}}

Upserts(a) ==
    LET keys == a.key_wheres
    IN {upsert_update_n(a.obj, keys, a.except_key)}
       \cup (IF Len(keys) = 2 THEN {upsert_update_2(a.obj, keys[1], keys[2], a.except_key)} ELSE {})
       \cup (IF Len(keys) = 3
             THEN {upsert_update_3(a.obj, keys[1], keys[2], keys[3], a.except_key)} ELSE {})

\* An update sets every member of the object once and asks for every condition once;
\* an empty object gives no statement, and only without a condition may it go wrong.
UpdateReads ==
    kind = "sql" =>
        LET Pairs(f) == {Equal(k, f[k]) : k \in DOMAIN f}
        IN \A outcomes \in Updates(args) :
            IF DOMAIN args.obj = {} THEN outcomes = {<<>>}
            ELSE /\ Died \in outcomes <=> DOMAIN args.wheres = {}
                 /\ \A st \in outcomes \ {Died} :
                     /\ Reads(Between(st, "set", "where"), ",", 3, Pairs(args.obj))
                     /\ Reads(After(st, "where"), "and", 3, Pairs(args.wheres))
                          <=> DOMAIN args.wheres # {}

\* The names and the literals of an insert or an upsert, position by position, are the
\* members of the object.
InsertReads ==
    kind = "sql" /\ DOMAIN args.obj # {} =>
        \A st \in (obj_to_insert_sql_str(args.obj)
                     \cup obj_to_upsert_nothing_sql_str(args.obj, args.key_wheres)
                     \cup UNION Upserts(args)) \ {Died} :
            LET names == Between(st, "(", ") values(")
                values == Between(st, ") values(", ")")
            IN /\ Reads(names, ",", 1, {<<Name(k)>> : k \in DOMAIN args.obj})
               /\ Len(values) = Len(names)
               /\ \A k \in DOMAIN args.obj : \E n \in DOMAIN names :
                    names[n] = Name(k) /\ values[n] = Literal(args.obj[k])

\* On a conflict in the columns key_wheres an upsert overwrites every member but
\* except_key; when except_key is the only one there is nothing to set, and the builder
\* dies or its statement is none.
UpsertReads ==
    kind = "sql" /\ DOMAIN args.obj # {} =>
        LET others == DOMAIN args.obj \ {args.except_key}
        IN \A outcomes \in Upserts(args) :
            /\ Died \in outcomes <=> others = {}
            /\ \A st \in outcomes \ {Died} :
                /\ Reads(Inner(Between(st, ")", "do update set")), ",", 1,
                         {<<Name(k)>> : k \in Range(args.key_wheres)})
                /\ Reads(After(st, "do update set"), ",", 3,
                         {<<Name(k), <<"=EXCLUDED.">>, Name(k)>> : k \in others})
                     <=> others # {}

\* A statement names, sets and asks for what its arguments say, each once, and the
\* arguments for which there is no such statement are those named above.
StatementsRead == UpdateReads /\ InsertReads /\ UpsertReads

=============================================================================
