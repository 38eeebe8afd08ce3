----------------------------- MODULE MCContents -----------------------------
(* One entity of each of four kinds, and payloads that meet in one attribute, list, *)
(* association or label.                                                            *)
EXTENDS Contents

a == [scalar |-> "a"]
b == [scalar |-> "b"]
en == [scalar |-> "en"]
fr == [scalar |-> "fr"]
web == [scalar |-> "web"]

Obj(function) == [dict |-> function]
List(sequence) == [list |-> sequence]

Entry(locale, scope, data) == Obj([locale |-> locale, scope |-> scope, data |-> data])
Values(function) == [values |-> Obj(function)]

ProductPayloads ==
  {Values([x |-> List(<<Entry(en, JsonNull, a), Entry(JsonNull, JsonNull, b), Entry(en, JsonNull, b)>>)])
     @@ [enabled |-> a, groups |-> List(<<a>>)],
   Values([x |-> List(<<Entry(en, JsonNull, a), Entry(fr, web, List(<<a, b>>))>>),
           y |-> List(<<a, Entry(JsonNull, web, a)>>)])
     @@ [associations |-> Obj([p |-> Obj([products |-> List(<<a>>), groups |-> List(<<b>>)])])],
   Values([x |-> JsonNull, y |-> List(<<Entry(JsonNull, web, JsonNull)>>)])
     @@ [groups |-> List(<<b, a, b>>), enabled |-> JsonNull, categories |-> List(<<>>)],
   [family |-> b, groups |-> JsonNull,
    associations |-> Obj([p |-> Obj([products |-> List(<<b>>)]), values |-> Obj([groups |-> List(<<a>>)])])]}

AssetPayloads ==
  {Values([x |-> List(<<Obj([locale |-> en, channel |-> web, data |-> a])>>)]),
   Values([x |-> List(<<Entry(en, web, b), Obj([data |-> a])>>)]),
   Values([x |-> List(<<Entry(List(<<>>), JsonNull, a)>>)]),
   Values([y |-> List(<<Entry(List(<<>>), JsonNull, a), Entry(en, JsonNull, a)>>)])}

CategoryPayloads ==
  {[parent |-> a, labels |-> Obj([de |-> a, it |-> b])],
   [parent |-> JsonNull, labels |-> Obj([de |-> JsonNull])],
   [parent |-> b, labels |-> Obj([it |-> a])] @@ Values([x |-> List(<<Entry(en, JsonNull, a)>>)])}

OptionPayloads ==
  {[sort_order |-> a, labels |-> Obj([de |-> a])], [sort_order |-> b],
   [labels |-> Obj([de |-> b, it |-> a])], [labels |-> JsonNull]}

MCPayloads == [k \in Kinds |->
  CASE k = "product" -> ProductPayloads
    [] k = "product-model" -> ProductPayloads
    [] k = "category" -> CategoryPayloads
    [] k = "attribute-option" -> OptionPayloads
    [] OTHER -> AssetPayloads]

\* Expressions made of two conditions, the words and the parentheses; and the filters.
A == << <<"attribute">>, <<"=">>, Quoted("x") >>
B == << <<"locale">>, <<"in">>, <<"(">>, Quoted(en), <<",">>, Quoted(a), <<")">> >>
C == << <<"channel">>, <<"in">>, <<"[">>, Quoted(web), <<"]">> >>
D == << <<"locale">>, <<"=">>, Quoted(fr) >>
Word(w) == << <<w>> >>

MCFilters ==
  {D, A \o Word("and") \o C,
   A \o Word("or") \o B \o Word("and") \o C,
   Word("(") \o A \o Word("or") \o B \o Word(")") \o Word("and") \o C,
   Word("not") \o A \o Word("or") \o B,
   Word("not") \o Word("(") \o A \o Word("or") \o B}

Pieces == {A, B, Word("not"), Word("and"), Word("or"), Word("("), Word(")")}
MCExpressions ==
  MCFilters \cup {FlattenSeq(parts) : parts \in UNION {[1..n -> Pieces] : n \in 0..4}}

=============================================================================
