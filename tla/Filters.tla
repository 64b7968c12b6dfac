------------------------------ MODULE Filters -------------------------------
(***************************************************************************)
(* The evaluation of a filter on a document                                *)
(* (crates/openvec-core/src/types/mod.rs).                                 *)
(*                                                                         *)
(* A scalar is a type and a number; the number of a text stands for the    *)
(* text, that of an int or a float for its value.  A filter is a           *)
(* condition, or a connective over filters.                                *)
(***************************************************************************)
EXTENDS Documents, Integers

CONSTANT AllFilters     \* the filters, with the parts of each

\* as_float: ints and floats are numbers.
IsNumber(scalar) == scalar.type \in {"int", "float"}

ConditionMatches(c, body) ==
    LET value == body.payload[c.field]
        numeric == IsNumber(value) /\ IsNumber(c.value)
    IN  /\ value # None
        /\ CASE c.op = "eq" -> value = c.value
             [] c.op = "ne" -> value # c.value
             [] c.op = "in" -> value \in c.values
             [] c.op = "gt" -> numeric /\ value.number > c.value.number
             [] c.op = "gte" -> numeric /\ value.number >= c.value.number
             [] c.op = "lt" -> numeric /\ value.number < c.value.number
             [] c.op = "lte" -> numeric /\ value.number <= c.value.number

\* The bodies that match a filter.
Matches[f \in AllFilters] ==
    CASE f.kind = "and" -> {b \in Bodies : \A g \in f.of : b \in Matches[g]}
      [] f.kind = "or" -> {b \in Bodies : \E g \in f.of : b \in Matches[g]}
      [] f.kind = "not" -> {b \in Bodies : \A g \in f.of : b \notin Matches[g]}
      [] f.kind = "condition" -> {b \in Bodies : ConditionMatches(f, b)}
=============================================================================
