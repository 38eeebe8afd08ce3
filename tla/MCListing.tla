----------------------------- MODULE MCListing -----------------------------
(* An instance of Listing for TLC: the table products. *)
EXTENDS Listing

MCLetters == {"a", "b", "t", "A", "%", "_", "\\"}
MCKind == [f \in SQL_FILTERABLE_FIELDS |-> IF f = "enabled" THEN "boolean" ELSE "text"]

Str(s) == [str |-> s]
Num(n) == [num |-> n]
Bool(b) == [bool |-> b, num |-> IF b THEN 1 ELSE 0]
List(s) == [list |-> s]
For(locale, x) == [locale |-> locale, scope |-> Null, data |-> x]
NoFields == [f \in SQL_FILTERABLE_FIELDS |-> Absent]

a == Str(<<"a">>)
b == Str(<<"b">>)

\* Two products: one whose family LIKE may take for the other's, with letters that
\* mean something in a pattern, values that are null or missing, and an attribute
\* with the code of a column.
MCEntities ==
  {[fields |-> [NoFields EXCEPT !["family"] = Str(<<"A", "b">>), !["enabled"] = Bool(TRUE)],
    values |-> [color |-> <<For(Null, List(<<a, b>>))>>,
                name |-> <<For("en", a), For("fr", b)>>]],
   [fields |-> [NoFields EXCEPT !["family"] = Str(<<"A", "_", "\\">>)],
    values |-> [color |-> <<For(Null, List(<<a>>))>>, name |-> <<For("en", Null)>>,
                price |-> <<For(Null, Num(5))>>, parent |-> <<For(Null, a)>>]]}

Rule(field, op, x) ==
  [field |-> field, operator |-> op, value |-> x, locale |-> Absent, scope |-> Absent]

\* All products, those of the first kind, and a search that PostgreSQL refuses.
MCWalkSearches == {{}, {Rule("color", "IN", List(<<b>>))}, {Rule("enabled", "=", Num(1))}}

\* Rules for PostgreSQL, for Python and for both; two that PostgreSQL refuses.
MCSearches ==
  {{}, {Rule("family", "CONTAINS", Str(<<"a", "_">>))}, {Rule("family", "STARTS_WITH", a)},
   {Rule("family", "CONTAINS", Str(<<"_", "\\">>))}, {Rule("family", "!=", Str(<<"A", "b">>))},
   {Rule("enabled", "=", Bool(TRUE)), Rule("color", "IN", List(<<a>>))},
   {Rule("color", "NOT_IN", List(<<b>>))}, {Rule("color", "IN", List(<<b>>))},
   {[Rule("name", "=", b) EXCEPT !.locale = "fr"]}, {Rule("price", "BETWEEN", List(<<Num(1), Num(5)>>))},
   {Rule("name", "EMPTY", Null)}, {Rule("enabled", "=", Num(1))},
   {Rule("family", "NOT_IN", List(<<a, Num(5)>>))}, {Rule("parent", "=", a)},
   {Rule("enabled", "!=", Str(<<"t">>))}}

=============================================================================
