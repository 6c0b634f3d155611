-------------------------- MODULE SociConversions --------------------------
(***************************************************************************)
(* The type conversions of src/db/soci_pgsql.hpp between a C++ value mi    *)
(* and a database column (its base value i and its indicator).  A ptime is *)
(* its seconds and the fraction of a second, <<>> for not_a_date_time; a   *)
(* document or a uuid is a number, 0 for JSON null and for the nil uuid,   *)
(* and its text is the pair of "text" and that number.                     *)
(***************************************************************************)
EXTENDS Integers, Sequences

Column(i) == [ind |-> "ok", i |-> i]
Null == [ind |-> "null"]

bool_to_base(mi) == Column(IF mi THEN 1 ELSE 0)
bool_from_base(col, mi) == IF col.ind = "null" THEN FALSE ELSE col.i # 0

\* to_tm keeps the seconds only.
ptime_to_base(mi) == IF mi = <<>> THEN Null ELSE Column([tm |-> mi[1]])
ptime_from_base(col, mi) == IF col.ind = "null" THEN mi ELSE <<col.i.tm, 0>>

json_to_base(mi) == IF mi = 0 THEN Null ELSE Column(<<"text", mi>>)
json_from_base(col, mi) == IF col.ind = "null" THEN mi ELSE col.i[2]

\* Mutant: a null column leaves the uuid alone.
uuid_from_base_Keeps(col, mi) == IF col.ind = "null" THEN mi ELSE col.i[2]

uuid_to_base(mi) == Column(<<"text", mi>>)
uuid_from_base(col, mi) == IF col.ind = "null" THEN 0 ELSE col.i[2]

-----------------------------------------------------------------------------

Types == {"bool", "ptime", "json", "uuid"}

to_base(type, mi) ==
    CASE type = "bool" -> bool_to_base(mi)
      [] type = "ptime" -> ptime_to_base(mi)
      [] type = "json" -> json_to_base(mi)
      [] type = "uuid" -> uuid_to_base(mi)

from_base(type, col, mi) ==
    CASE type = "bool" -> bool_from_base(col, mi)
      [] type = "ptime" -> ptime_from_base(col, mi)
      [] type = "json" -> json_from_base(col, mi)
      [] type = "uuid" -> uuid_from_base(col, mi)

\* What a default-constructed variable of the type holds; a bool is FALSE here.
Fresh(type) == CASE type = "bool" -> FALSE
                 [] type = "ptime" -> <<>>
                 [] OTHER -> 0

\* The rows of a result, fetched one after the other into the same variable.
Fetch(type, rows) ==
    LET mi[n \in 0..Len(rows)] ==
            IF n = 0 THEN Fresh(type) ELSE from_base(type, rows[n], mi[n - 1])
    IN mi[Len(rows)]
=============================================================================
