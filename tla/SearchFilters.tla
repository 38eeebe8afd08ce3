--------------------------- MODULE SearchFilters ---------------------------
(***************************************************************************)
(* The `search` parameter of the listings: search_filters.py.              *)
(*                                                                         *)
(* A search is a set of rules (field, operator, value, locale, scope).     *)
(* Those PostgreSQL can evaluate go into the WHERE clause; every row that  *)
(* comes back is then matched against all the rules again in Python.       *)
(*                                                                         *)
(* JSON values are records told apart by their fields: a string has        *)
(* "str" (a sequence of letters) and, when it reads as a date, "date" (an  *)
(* instant); a number has "num", a boolean "bool" as well; a list has      *)
(* "list".  "A" stands for the upper case letters, "a" for their lower     *)
(* case; "%", "_" and "\" mean something in a LIKE pattern.  Left out are  *)
(* the parsing of the JSON text, the case of operators, the projection of  *)
(* the items found, texts of a column that read as a JSON document and     *)
(* the refusal of a pattern that ends in an unpaired "\".                  *)
(***************************************************************************)
EXTENDS Integers, Sequences, SequencesExt, FiniteSets

CONSTANTS
  Letters, \* the characters of strings
  Kind,    \* the kind of each filterable field in this table
  Now,     \* the instant at which searches run
  Absent,  \* no such key
  Null     \* JSON null

SQL_FILTERABLE_FIELDS ==
  {"identifier", "uuid", "code", "enabled", "family", "parent", "created", "updated"}

\* Text and boolean columns, keys of the JSON document in "data", and fields the
\* table has no column for.
ASSUME SearchAssumption ==
  /\ Kind \in [SQL_FILTERABLE_FIELDS -> {"text", "boolean", "json", "none"}]
  /\ Now \in Int
  /\ {"A", "a", "%", "_", "\\"} \subseteq Letters
  /\ {"many", "one", "nothing"} \cap Letters = {}

IsStr(v) == v \notin {Null, Absent} /\ "str" \in DOMAIN v
IsNum(v) == v \notin {Null, Absent} /\ "num" \in DOMAIN v
IsList(v) == v \notin {Null, Absent} /\ "list" \in DOMAIN v
IsDate(v) == IsStr(v) /\ "date" \in DOMAIN v
IsScalar(v) == IsStr(v) \/ IsNum(v)

\* The values of the columns of an entity, and the scalars in a rule.
Cells(entity) == {entity.fields[f] : f \in SQL_FILTERABLE_FIELDS}
Literals(rule) ==
  IF IsList(rule.value) THEN {rule.value.list[i] : i \in DOMAIN rule.value.list}
  ELSE {rule.value}

\* A value is a string, a number or a list; TRUE is 1 and FALSE is 0.
WellFormed(v) ==
  /\ IsStr(v) => ~IsNum(v) /\ ~IsList(v) /\ v.str \in Seq(Letters)
  /\ IsNum(v) => ~IsList(v)
  /\ IsNum(v) /\ "bool" \in DOMAIN v =>
       v.bool \in BOOLEAN /\ v.num = IF v.bool THEN 1 ELSE 0

\* A NULL in a column of the table is no key of the entity, a null in the document is.
FitsColumn(cell, kind) ==
  CASE kind = "text" -> cell = Absent \/ IsStr(cell)
    [] kind = "boolean" -> cell = Absent \/ (IsNum(cell) /\ "bool" \in DOMAIN cell)
    [] kind = "json" -> cell \in {Absent, Null} \/ IsStr(cell)
    [] OTHER -> TRUE

Lower(s) == [i \in DOMAIN s |-> IF s[i] = "A" THEN "a" ELSE s[i]]

\* Python's ==: a boolean is the number 0 or 1.
Equals(v, w) == IF IsNum(v) /\ IsNum(w) THEN v.num = w.num ELSE v = w

\* Python's "in expected_values", where anything but a list counts as empty.
ListedIn(v, expected) ==
  IsList(expected) /\ \E i \in DOMAIN expected.list : Equals(v, expected.list[i])

----------------------------------------------------------------------------
(* What PostgreSQL evaluates. *)

\* A "\" takes away the meaning of the next character, unless that of its own is taken
\* away: so it does at the end of an odd number of them.
Escapes(s, i) ==
  \E n \in 1..i :
    /\ n % 2 = 1
    /\ \A k \in i - n + 1..i : s[k] = "\\"
    /\ n < i => s[i - n] # "\\"

\* A pattern as LIKE reads it: what each of its characters stands for.
Pattern(s) ==
  [i \in DOMAIN s |->
     CASE Escapes(s, i) -> "nothing"
       [] ~Escapes(s, i) /\ (Escapes(s, i - 1) \/ s[i] \notin {"%", "_"}) -> s[i]
       [] OTHER -> IF s[i] = "%" THEN "many" ELSE "one"]

\* Where a match of the token that begins behind the first i letters of s may end.
Ends(s, token, i) ==
  {k \in i..Len(s) :
     CASE token = "many" -> TRUE
       [] token = "nothing" -> k = i
       [] token = "one" -> k = i + 1
       [] OTHER -> k = i + 1 /\ s[k] = token}

\* reach[j]: where a match of the first j tokens may end.
Like(s, pattern) ==
  LET reach[j \in 0..Len(pattern)] ==
        IF j = 0 THEN {0} ELSE UNION {Ends(s, pattern[j], i) : i \in reach[j - 1]} IN
  Len(s) \in reach[Len(pattern)]

\* Variant: the pattern of STARTS WITH is that of ENDS WITH.
SwappedPattern(op, s) ==
  Pattern(Lower(IF op = "ENDS_WITH" THEN s ELSE <<"%">> \o s))

LikePattern(op, s) ==
  Pattern(Lower(CASE op = "CONTAINS" -> <<"%">> \o s \o <<"%">>
                  [] op = "STARTS_WITH" -> s \o <<"%">>
                  [] OTHER -> <<"%">> \o s))

ContainsLocaleScope(rule) == rule.locale # Absent \/ rule.scope # Absent

\* The rule becomes part of the WHERE clause.
HasSqlClause(rule) ==
  /\ rule.field \in SQL_FILTERABLE_FIELDS
  /\ ~ContainsLocaleScope(rule)
  /\ CASE rule.operator \in {"=", "!="} -> IsScalar(rule.value)
       [] rule.operator \in {"IN", "NOT_IN"} ->
            /\ IsList(rule.value) /\ DOMAIN rule.value.list # {}
            /\ \A i \in DOMAIN rule.value.list : IsScalar(rule.value.list[i])
       [] rule.operator \in {"CONTAINS", "STARTS_WITH", "ENDS_WITH"} -> IsStr(rule.value)
       [] OTHER -> FALSE

\* The strings PostgreSQL reads as a boolean.
TruthOf(v) == IF IsNum(v) THEN v.bool ELSE v.str = <<"t">>
ReadsAsBoolean(v) == IF IsNum(v) THEN "bool" \in DOMAIN v ELSE v.str \in {<<"t">>, <<"f">>}

Comparable(kind, v) ==
  CASE kind = "boolean" -> ReadsAsBoolean(v) [] kind = "none" -> FALSE [] OTHER -> IsStr(v)

\* PostgreSQL refuses the statement: there is no such column, or no operator between
\* the column and the literal.
ClauseFails(rule) ==
  LET kind == Kind[rule.field] IN
  CASE rule.operator \in {"=", "!="} -> ~Comparable(kind, rule.value)
    [] rule.operator \in {"IN", "NOT_IN"} ->
         \E i \in DOMAIN rule.value.list : ~Comparable(kind, rule.value.list[i])
    [] OTHER -> kind \in {"boolean", "none"}

SqlEquals(cell, v) == IF IsNum(cell) THEN cell.bool = TruthOf(v) ELSE cell.str = v.str

\* The clause is true of the row: with NULL it never is, negated or not.
SqlClause(entity, rule) ==
  LET cell == entity.fields[rule.field]
      among == \E i \in DOMAIN rule.value.list : SqlEquals(cell, rule.value.list[i]) IN
  /\ cell \notin {Absent, Null}
  /\ CASE rule.operator = "=" -> SqlEquals(cell, rule.value)
       [] rule.operator = "!=" -> ~SqlEquals(cell, rule.value)
       [] rule.operator = "IN" -> among
       [] rule.operator = "NOT_IN" -> ~among
       [] OTHER -> Like(Lower(cell.str), LikePattern(rule.operator, rule.value.str))

SqlRules(search) == {rule \in search : HasSqlClause(rule)}
HasPostSqlFilters(search) == SqlRules(search) # search
SqlFails(search) == \E rule \in SqlRules(search) : ClauseFails(rule)
Prefiltered(entity, search) == \A rule \in SqlRules(search) : SqlClause(entity, rule)

----------------------------------------------------------------------------
(* What Python evaluates. *)

\* The rule's own locale or scope, or else that of the request.
NormalizeLocaleAndScope(rule, search_locale, search_scope) ==
  LET Own(key, default) == IF key \in {Absent, Null} THEN default ELSE key IN
  [locale |-> Own(rule.locale, search_locale), scope |-> Own(rule.scope, search_scope)]

\* A field of the entity, or the data of the entries of the attribute that are for
\* this locale and scope or for all, each at its place among the entries.
ResolveFieldValues(entity, field, locale, scope) ==
  LET For(own, wanted) == wanted = Null \/ own \in {Null, wanted}
      entries == IF field \in DOMAIN entity.values THEN entity.values[field] ELSE <<>>
      chosen == {i \in DOMAIN entries :
                   For(entries[i].locale, locale) /\ For(entries[i].scope, scope)} IN
  IF field \in DOMAIN entity.fields /\ entity.fields[field] # Absent
  THEN <<entity.fields[field]>>
  ELSE [i \in chosen |-> entries[i].data]

IsEmptyValue(v) == v = Null \/ v = [str |-> <<>>] \/ v = [list |-> <<>>]

IsInfix(s, t) == \E i \in 1..Len(t) + 1 : IsPrefix(s, SubSeq(t, i, Len(t)))

Ordered(op, a, b) ==
  CASE op = "<" -> a < b [] op = "<=" -> a <= b [] op = ">" -> a > b [] OTHER -> a >= b

\* Two dates or two numbers compare, anything else is no match.
Compares(op, v, w) ==
  \/ IsDate(v) /\ IsDate(w) /\ Ordered(op, v.date, w.date)
  \/ IsNum(v) /\ IsNum(w) /\ Ordered(op, v.num, w.num)

Between(v, expected, positive) ==
  /\ IsList(expected) /\ Len(expected.list) = 2
  /\ LET lo == expected.list[1]
         hi == expected.list[2] IN
     \/ /\ IsDate(v) /\ IsDate(lo) /\ IsDate(hi)
        /\ (lo.date <= v.date /\ v.date <= hi.date) = positive
     \/ /\ IsNum(v) /\ IsNum(lo) /\ IsNum(hi)
        /\ (lo.num <= v.num /\ v.num <= hi.num) = positive

MatchesText(v, op, expected) ==
  /\ IsStr(v) /\ IsStr(expected)
  /\ LET lhs == Lower(v.str)
         rhs == Lower(expected.str) IN
     CASE op = "STARTS_WITH" -> IsPrefix(rhs, lhs)
       [] op = "ENDS_WITH" -> IsSuffix(rhs, lhs)
       [] op = "CONTAINS" -> IsInfix(rhs, lhs)
       [] OTHER -> ~IsInfix(rhs, lhs)

MatchesItems(items, op, expected) ==
  LET In(i) == ListedIn(items[i], expected) IN
  CASE op = "UNCLASSIFIED" -> items = <<>>
    [] op = "IN_OR_UNCLASSIFIED" -> items = <<>> \/ \E i \in DOMAIN items : In(i)
    [] op \in {"IN", "IN_CHILDREN"} -> \E i \in DOMAIN items : In(i)
    [] OTHER -> \A i \in DOMAIN items : ~In(i)

ItemOperators == {"IN", "NOT_IN", "IN_CHILDREN", "NOT_IN_CHILDREN",
                  "IN_OR_UNCLASSIFIED", "UNCLASSIFIED"}

MatchesOperator(v, op, expected) ==
  CASE op = "EMPTY" -> IsEmptyValue(v)
    [] op = "NOT_EMPTY" -> ~IsEmptyValue(v)
    [] IsList(v) /\ op \in ItemOperators -> MatchesItems(v.list, op, expected)
    [] ~IsList(v) /\ op = "IN" -> ListedIn(v, expected)
    [] ~IsList(v) /\ op = "NOT_IN" -> ~ListedIn(v, expected)
    [] op = "=" -> Equals(v, expected)
    [] op = "!=" -> ~Equals(v, expected)
    [] op \in {"STARTS_WITH", "CONTAINS", "DOES_NOT_CONTAIN", "ENDS_WITH"} ->
         MatchesText(v, op, expected)
    [] op \in {"<", "<=", ">", ">="} -> Compares(op, v, expected)
    [] op \in {"BETWEEN", "NOT_BETWEEN"} -> Between(v, expected, op = "BETWEEN")
    [] op = "SINCE_LAST_N_DAYS" ->
         IsNum(expected) /\ IsDate(v) /\ v.date >= Now - expected.num
    [] OTHER -> FALSE

\* An attribute matches when one of its values does; without a value only EMPTY and
\* UNCLASSIFIED match.  A rule whose operator is not a string matches nothing.
MatchesFieldRule(entity, rule, search_locale, search_scope) ==
  LET at == NormalizeLocaleAndScope(rule, search_locale, search_scope)
      found == ResolveFieldValues(entity, rule.field, at.locale, at.scope)
      some == DOMAIN found # {} IN
  CASE rule.operator = Null -> FALSE
    [] rule.operator = "UNCLASSIFIED" ->
         MatchesOperator(IF some THEN found[Min(DOMAIN found)] ELSE [list |-> <<>>],
                         "UNCLASSIFIED", rule.value)
    [] OTHER -> \/ ~some /\ rule.operator = "EMPTY"
                \/ \E i \in DOMAIN found :
                     MatchesOperator(found[i], rule.operator, rule.value)

MatchesSearch(entity, search, search_locale, search_scope) ==
  \A rule \in search : MatchesFieldRule(entity, rule, search_locale, search_scope)

=============================================================================
