------------------------------ MODULE MCValues ------------------------------
(* Instances of Values for TLC. *)
EXTENDS Values, TLC

CONSTANTS a, b, f, red, blue

S(text) == [json |-> "string", text |-> text]
N(halves) == [json |-> "number", halves |-> halves]
L(items) == [json |-> "list", items |-> items]
O(fields) == [json |-> "object", fields |-> fields]
JNull == [json |-> "null"]

\* Strings: short and long, numbers, dates, codes of options and words.
MCLengthOf ==
  ("1" :> 1) @@ ("NaN" :> 3) @@ ("Infinity" :> 8) @@ ("day1" :> 4) @@ ("day3" :> 4)
    @@ ("product" :> 7) @@ (red :> 2) @@ (blue :> 4)
MCNumberOf ==
  [s \in DOMAIN MCLengthOf |-> IF s = "1" THEN 2 ELSE IF s = "NaN" THEN NaN
                               ELSE IF s = "Infinity" THEN Infinity ELSE None]
MCDateOf ==
  [s \in DOMAIN MCLengthOf |-> IF s = "day1" THEN 1 ELSE IF s = "day3" THEN 3 ELSE None]
MCMatching == "digits" :> {"1"}

Rule(type, limits) == [type |-> type, limits |-> limits]

MCRules == [x \in {a, b} |-> IF x = b THEN {} ELSE
  {Rule("pim_catalog_text", [max_characters |-> 3]),
   Rule("pim_catalog_textarea", [validation_regexp |-> "digits"]),
   Rule("pim_catalog_text", [validation_regexp |-> "(broken"]),
   Rule("pim_catalog_image", <<>>),
   Rule("pim_catalog_number", [number_min |-> "1", decimals_allowed |-> FALSE]),
   Rule("pim_catalog_number", [number_min |-> "day1", number_max |-> "1", negative_allowed |-> FALSE]),
   Rule("pim_catalog_date", [date_min |-> "day3"]),
   Rule("pim_catalog_date", [date_min |-> "NaN", date_max |-> "day1"]),
   Rule("pim_catalog_date", [date_max |-> "day1"]),
   Rule("pim_catalog_simpleselect", <<>>), Rule("pim_catalog_multiselect", <<>>),
   Rule("pim_catalog_metric", <<>>), Rule("pim_catalog_price", <<>>),
   Rule("pim_catalog_boolean", <<>>), Rule("pim_catalog_table", <<>>),
   Rule("pim_catalog_product_link", <<>>)}]

MCData ==
  {S("1"), S("NaN"), S("Infinity"), S("day1"), S("day3"), S(red), S(blue),
   N(-1), N(2), N(5), [json |-> "boolean"], JNull,
   L(<<S(red)>>), L(<<S(red), S(blue)>>), L(<<O([amount |-> N(2), currency |-> S("1")])>>),
   O([amount |-> N(2), unit |-> S("1")]), O([amount |-> N(2), unit |-> N(2)]),
   O([type |-> S("product"), id |-> S("1")])}

Body(family_, values) == [family |-> family_, values |-> values]
MCBodies ==
  {Body(Absent, a :> d) : d \in MCData}
    \cup {Body(Absent, b :> S("1")), Body(f, Absent), Body(Absent, Absent)}

=============================================================================
