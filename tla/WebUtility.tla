----------------------------- MODULE WebUtility -----------------------------
(***************************************************************************)
(* The conversions of src/common/web_utility.hpp as functions: Percent,    *)
(* parse_target and parse_query_string.  A text is a sequence of character *)
(* codes.                                                                  *)
(***************************************************************************)
EXTENDS Integers, Sequences, FiniteSetsExt, Flatten

Space == 32
PercentSign == 37
Ampersand == 38
Plus == 43
Minus == 45
Equals == 61
QuestionMark == 63

-----------------------------------------------------------------------------
(* Percent *)

hex_chars(d) == IF d < 10 THEN 48 + d ELSE 55 + d

Reserved == {33, 35, 36} \cup (38..44) \cup (47..59) \cup {61, 63, 64, 91, 93}

\* Mutant: the digits of a code are swapped.
EncodeChar_Swapped(chr) ==
    IF chr = Space THEN <<Plus>>
    ELSE IF chr \in Reserved
         THEN <<PercentSign, hex_chars(chr % 16), hex_chars(chr \div 16)>>
         ELSE <<chr>>

EncodeChar(chr) ==
    IF chr = Space THEN <<Plus>>
    ELSE IF chr \in Reserved
         THEN <<PercentSign, hex_chars(chr \div 16), hex_chars(chr % 16)>>
         ELSE <<chr>>

encode(value) == Flatten([i \in DOMAIN value |-> EncodeChar(value[i])])

\* The value of a hexadecimal digit; 16 for any other character.
Digit(c) == CASE c \in 48..57 -> c - 48
              [] c \in 65..70 -> c - 55
              [] c \in 97..102 -> c - 87
              [] OTHER -> 16

\* static_cast<char>(strtol(hex, nullptr, 16)) of two characters: a blank or a sign
\* is passed over, reading stops at the first character that is not a digit.
strtol(a, b) ==
    CASE Digit(a) < 16 -> IF Digit(b) < 16 THEN 16 * Digit(a) + Digit(b) ELSE Digit(a)
      [] a \in {Space, Plus} /\ Digit(b) < 16 -> Digit(b)
      [] a = Minus /\ Digit(b) < 16 -> (256 - Digit(b)) % 256
      [] OTHER -> 0

\* from[i]: what the loop appends from the index i on (i - 1 in the code)
decode(value) ==
    LET from[i \in 1..(Len(value) + 3)] ==
            CASE i > Len(value) -> <<>>
              [] i <= Len(value) /\ value[i] = PercentSign /\ i + 2 <= Len(value) ->
                 <<strtol(value[i + 1], value[i + 2])>> \o from[i + 3]
              [] OTHER -> <<IF value[i] = Plus THEN Space ELSE value[i]>> \o from[i + 1]
    IN from[1]

-----------------------------------------------------------------------------
(* kkurl *)

parse_target(target) ==
    LET marks == {i \in DOMAIN target : target[i] = QuestionMark}
    IN IF marks = {} THEN [path |-> target, query |-> <<>>]
       ELSE [path |-> SubSeq(target, 1, Min(marks) - 1),
             query |-> SubSeq(target, Min(marks) + 1, Len(target))]

npos == 0

\* A parameter of the text up to c, as far as the loop has found its parts; one
\* without a name is passed over.
Parameter(q, s, c) ==
    LET name == SubSeq(q, s.name_pos, (IF s.name_end_pos = npos THEN c ELSE s.name_end_pos) - 1)
        value == IF s.value_pos = npos THEN <<>> ELSE SubSeq(q, s.value_pos, c - 1)
    IN IF name = <<>> THEN <<>> ELSE <<[name |-> name, value |-> decode(value)]>>

\* Mutant: value_pos is not reset.
QueryStep_Stale(q, s, c) ==
    CASE q[c] = Ampersand ->
         [name_pos |-> c + 1, name_end_pos |-> npos, value_pos |-> s.value_pos,
          result |-> s.result \o Parameter(q, s, c)]
      [] q[c] = Equals -> [s EXCEPT !.name_end_pos = c, !.value_pos = c + 1]
      [] OTHER -> s

\* One round of the loop of parse_query_string, at the character c.
QueryStep(q, s, c) ==
    CASE q[c] = Ampersand ->
         [name_pos |-> c + 1, name_end_pos |-> npos, value_pos |-> npos,
          result |-> s.result \o Parameter(q, s, c)]
      [] q[c] = Equals -> [s EXCEPT !.name_end_pos = c, !.value_pos = c + 1]
      [] OTHER -> s

\* The multimap, in the order of insertion.
parse_query_string(q) ==
    LET after[c \in 0..Len(q)] ==
            IF c = 0
            THEN [name_pos |-> 1, name_end_pos |-> npos, value_pos |-> npos, result |-> <<>>]
            ELSE QueryStep(q, after[c - 1], c)
        end == after[Len(q)]
    IN IF end.name_pos <= Len(q) THEN end.result \o Parameter(q, end, Len(q) + 1)
                                 ELSE end.result

-----------------------------------------------------------------------------
(* Reference: the parameters are the pieces between ampersands, each cut at  *)
(* its last equals sign.                                                     *)

Pieces(q) ==
    {p \in (1..(Len(q) + 1)) \X (0..Len(q)) :
        /\ p[1] <= p[2] + 1
        /\ p[1] = 1 \/ q[p[1] - 1] = Ampersand
        /\ p[2] = Len(q) \/ q[p[2] + 1] = Ampersand
        /\ \A i \in p[1]..p[2] : q[i] # Ampersand}

Cut(q, p) ==
    LET signs == {i \in p[1]..p[2] : q[i] = Equals}
    IN IF signs = {} THEN [name |-> SubSeq(q, p[1], p[2]), value |-> <<>>]
       ELSE [name |-> SubSeq(q, p[1], Max(signs) - 1),
             value |-> decode(SubSeq(q, Max(signs) + 1, p[2]))]
=============================================================================
