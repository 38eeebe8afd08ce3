------------------------------- MODULE Values -------------------------------
(***************************************************************************)
(* The values of products, product models and published products, and the  *)
(* rules attributes, options and families make for them: rest.py:113-423.  *)
(*                                                                         *)
(* Rules are looked at when a document is written, and never again: they   *)
(* may be tightened later.  POST and PATCH validate the whole document     *)
(* they are about to store, on the event loop, while DELETEs run in        *)
(* threads.  A batch of products validates nothing, a batch of others      *)
(* line by line.  One document here, of whichever entity.                  *)
(***************************************************************************)
EXTENDS Integers, Sequences

CONSTANTS
  Attributes, Families, Options,  \* codes
  Rules,      \* the rules clients give an attribute: [type, limits], of which limits
              \* only those that the type looks at
  Data,       \* what clients send for an attribute: JSON data, as below
  Bodies,     \* what clients send of the document: [family, values]
  LengthOf,   \* the length of a string
  NumberOf,   \* float() of a string: a number, counted in halves, NaN, Infinity, or None
  DateOf,     \* fromisoformat() of a string, or None; all in one time zone
  Matching,   \* the strings that a regular expression matches
  NaN, Infinity, None,
  Absent,     \* a field that a body or a row does not have
  Null        \* no row, no document

Strings == DOMAIN LengthOf
Patterns == DOMAIN Matching  \* those that compile
Entities == {"products", "product-models", "published-products"}


\* JSON data: [json, text], [json, halves] or [json, items] or [json, fields] or [json].
Documents ==
  [family : Families \cup {Absent}, values : {Absent} \cup UNION {[S -> Data] : S \in SUBSET Attributes}]

TextTypes == {"pim_catalog_text", "pim_catalog_textarea", "pim_catalog_identifier"}

\* What _validate_attribute_value looks up in an attribute of each type.
LimitsOf(type) ==
  CASE type \in TextTypes -> {"max_characters", "validation_regexp"}
    [] type = "pim_catalog_number" ->
         {"number_min", "number_max", "decimals_allowed", "negative_allowed"}
    [] type = "pim_catalog_date" -> {"date_min", "date_max"}
    [] OTHER -> {}

ASSUME ValuesAssumption ==
  /\ NumberOf \in [Strings -> Int \cup {NaN, Infinity, None}]
  /\ LengthOf \in [Strings -> Nat] /\ DateOf \in [Strings -> Nat \cup {None}]
  /\ \A a \in Attributes : \A rule \in Rules[a] : DOMAIN rule.limits \subseteq LimitsOf(rule.type)
  /\ Bodies \subseteq Documents
  /\ NaN # Infinity /\ {NaN, Infinity, None} \cap Int = {} /\ None \notin {NaN, Infinity}
  /\ Absent \notin Families /\ \A S \in SUBSET Attributes : Absent \notin [S -> Data]
  /\ Null \notin Attributes /\ Null \notin Documents
  /\ \A a \in Attributes : Null \notin Rules[a]

VARIABLES
  entity,     \* which entity the document is of
  attribute,  \* the rules of each attribute, or Null
  options,    \* the attribute of each option, or Null
  family,     \* the attributes of each family; Null is no row, Absent no attributes
  row,        \* the stored document: [family, values], or Null
  pc,         \* where the handler is that has the loop
  doc         \* the document it is going to store

vars == <<entity, attribute, options, family, row, pc, doc>>
rules == <<attribute, options, family>>

----------------------------------------------------------------------------
(* The value of one attribute. *)

Is(d, json) == d.json = json
Has(d, name) == name \in DOMAIN d.fields
HasText(d, name) == Has(d, name) /\ Is(d.fields[name], "string")
Limits(attr, name) == name \in DOMAIN attr.limits

\* float(str(data)): a list, an object or a boolean is no number.
Float(d) ==
  CASE Is(d, "number") -> d.halves
    [] Is(d, "string") -> NumberOf[d.text]
    [] OTHER -> None

\* x < y of floats: false of NaN.
Less(x, y) ==
  /\ x # NaN /\ y # NaN /\ x # Infinity
  /\ y = Infinity \/ x < y

TextFits(attr, d) ==
  /\ Is(d, "string")
  /\ Limits(attr, "max_characters") => LengthOf[d.text] <= attr.limits.max_characters
  /\ Limits(attr, "validation_regexp") =>
       LET pattern == attr.limits.validation_regexp IN
       pattern \in Patterns => d.text \in Matching[pattern]

\* A bound that is no number is none.  int() of Infinity or NaN raises, which is
\* taken for a whole number.
NumberFits(attr, d) ==
  LET x == Float(d)
      Bound(name) == IF Limits(attr, name) THEN NumberOf[attr.limits[name]] ELSE None IN
  x # None =>
    /\ Bound("number_min") # None => ~Less(x, Bound("number_min"))
    /\ Bound("number_max") # None => ~Less(Bound("number_max"), x)
    /\ Limits(attr, "decimals_allowed") /\ ~attr.limits.decimals_allowed =>
         x \in {NaN, Infinity} \/ x % 2 = 0
    /\ Limits(attr, "negative_allowed") /\ ~attr.limits.negative_allowed => ~Less(x, 0)

\* Whatever does not parse ends the comparison: behind a date_min that is no date,
\* date_max is not looked at.
DateFits(attr, d) ==
  LET Bounded(name) == Limits(attr, name)
      Bound(name) == DateOf[attr.limits[name]] IN
  /\ Is(d, "string")
  /\ DateOf[d.text] # None =>
       /\ Bounded("date_min") /\ Bound("date_min") # None => DateOf[d.text] >= Bound("date_min")
       /\ \/ ~Bounded("date_max")
          \/ Bounded("date_min") /\ Bound("date_min") = None
          \/ Bound("date_max") = None
          \/ DateOf[d.text] <= Bound("date_max")

\* _validate_select_options: an attribute without options takes any.
OptionsExist(a, codes) ==
  LET known == {o \in Options : options[o] = a} IN
  known # {} => codes \subseteq known

Texts(items) == {items[n].text : n \in DOMAIN items}

MetricFits(d) == Is(d, "object") /\ Has(d, "amount") /\ HasText(d, "unit")
PriceFits(d) == Is(d, "object") /\ Has(d, "amount") /\ HasText(d, "currency")
LinkFits(d) ==
  /\ Is(d, "object") /\ HasText(d, "type")
  /\ \/ d.fields.type.text = "product" /\ (Has(d, "id") \/ Has(d, "identifier"))
     \/ d.fields.type.text = "product_model" /\ Has(d, "id")

FileTypes == {"pim_catalog_file", "pim_catalog_image"}
SingleTypes == {"pim_catalog_simpleselect", "pim_catalog_reference_data_simpleselect",
                "akeneo_reference_entity"}
MultiTypes == {"pim_catalog_multiselect", "pim_catalog_reference_data_multiselect",
               "akeneo_reference_entity_collection", "pim_catalog_asset_collection",
               "pim_assets_collection"}

\* _validate_attribute_value; a type that is not named here takes anything.
AttributeValueFits(a, attr, d) ==
  LET IsListOf(json) ==
        Is(d, "list") /\ \A n \in DOMAIN d.items : Is(d.items[n], json) IN
  CASE attr.type \in TextTypes -> TextFits(attr, d)
    [] attr.type \in FileTypes -> Is(d, "string")
    [] attr.type = "pim_catalog_number" -> NumberFits(attr, d)
    [] attr.type = "pim_catalog_date" -> DateFits(attr, d)
    [] attr.type \in SingleTypes ->
         /\ Is(d, "string")
         /\ attr.type = "pim_catalog_simpleselect" => OptionsExist(a, {d.text})
    [] attr.type \in MultiTypes ->
         /\ IsListOf("string")
         /\ attr.type = "pim_catalog_multiselect" => OptionsExist(a, Texts(d.items))
    [] attr.type = "pim_catalog_metric" -> MetricFits(d)
    [] attr.type = "pim_catalog_price" ->
         Is(d, "list") /\ \A n \in DOMAIN d.items : PriceFits(d.items[n])
    [] attr.type = "pim_catalog_boolean" -> Is(d, "boolean")
    [] attr.type = "pim_catalog_table" -> IsListOf("object")
    [] attr.type = "pim_catalog_product_link" -> LinkFits(d)
    [] OTHER -> TRUE

----------------------------------------------------------------------------
(* A document. *)

ValuesOf(x) == IF x.values = Absent THEN <<>> ELSE x.values

\* _validate_product_values: codes without an attribute, and null, are not looked at.
ProductValuesFit(x) ==
  \A a \in DOMAIN ValuesOf(x) :
    LET d == x.values[a] IN
    attribute[a] # Null /\ ~Is(d, "null") => AttributeValueFits(a, attribute[a], d)

\* _validate_product_family_attributes.
ProductFamilyFits(x) ==
  x.family # Absent /\ family[x.family] \notin {Null, Absent} =>
    DOMAIN ValuesOf(x) \subseteq family[x.family]

\* _validate_product_values_if_applicable.
Validates(x) == ProductValuesFit(x) /\ (entity = "products" => ProductFamilyFits(x))

\* apply_patch, with one entry per attribute.
MergedValues(old, new) ==
  IF new = Absent THEN old
  ELSE IF old = Absent THEN new
  ELSE [a \in DOMAIN old \cup DOMAIN new |-> IF a \in DOMAIN new THEN new[a] ELSE old[a]]

\* Variant: a PATCH goes on from the columns that it names only.
NamedColumns(verb, body) ==
  IF row = Null THEN body
  ELSE [family |-> body.family,
        values |-> IF body.values = Absent THEN Absent ELSE MergedValues(row.values, body.values)]

\* The patched document.  PATCH of an entity without events has read only the columns
\* that the body has an object for; the row keeps the others.
Patched(verb, body) ==
  IF row = Null \/ verb = "post" THEN body
  ELSE IF entity = "published-products" /\ verb = "patch"
  THEN [family |-> body.family,
        values |-> IF body.values = Absent THEN Absent ELSE MergedValues(row.values, body.values)]
  ELSE [family |-> IF body.family = Absent THEN row.family ELSE body.family,
        values |-> MergedValues(row.values, body.values)]

\* _upsert_item: what the document does not have stays as it is.
Upserted(x) ==
  [family |-> IF x.family = Absent /\ row # Null THEN row.family ELSE x.family,
   values |-> IF x.values = Absent /\ row # Null THEN row.values ELSE x.values]

----------------------------------------------------------------------------
(* Handlers on the event loop: the document. *)

\* What the handler has read, and is going to validate.
Read(verb, body) ==
  /\ pc = "idle"
  /\ verb = "post" => row = Null
  /\ verb = "batch" => entity # "products"
  /\ doc' = Patched(verb, body)
  /\ pc' = "validate"
  /\ UNCHANGED <<entity, rules, row>>

\* A POST or a PATCH is refused with 422, a line of a batch reported.
Validate ==
  /\ pc = "validate"
  /\ IF Validates(doc) THEN pc' = "store" /\ UNCHANGED doc
     ELSE pc' = "idle" /\ doc' = Null
  /\ UNCHANGED <<entity, rules, row>>

Store ==
  /\ pc = "store"
  /\ row' = Upserted(doc)
  /\ pc' = "idle" /\ doc' = Null
  /\ UNCHANGED <<entity, rules>>

\* patch_multiple_items of products or products-uuid.
StoreBatchOfProducts(body) ==
  /\ pc = "idle" /\ entity = "products"
  /\ row' = Upserted(Patched("batch", body))
  /\ UNCHANGED <<entity, rules, pc, doc>>

(* Handlers on the event loop: the rules, which others may have relied on. *)

StoreAttribute(a) ==
  /\ pc = "idle"
  /\ \E rule \in Rules[a] : attribute' = [attribute EXCEPT ![a] = rule]
  /\ UNCHANGED <<entity, options, family, row, pc, doc>>

\* Variant: options are stored by a plain handler, in a thread.
StoreOptionInThread(o) ==
  /\ \E a \in Attributes :
       /\ attribute[a] # Null
       /\ attribute[a].type \in {"pim_catalog_simpleselect", "pim_catalog_multiselect"}
       /\ options' = [options EXCEPT ![o] = a]
  /\ UNCHANGED <<entity, attribute, family, row, pc, doc>>

\* An option has one attribute: storing it below another takes it from the first.
StoreOption(o) ==
  /\ pc = "idle"
  /\ \E a \in Attributes :
       /\ attribute[a] # Null
       /\ attribute[a].type \in {"pim_catalog_simpleselect", "pim_catalog_multiselect"}
       /\ options' = [options EXCEPT ![o] = a]
  /\ UNCHANGED <<entity, attribute, family, row, pc, doc>>

\* _validate_family: the attributes exist.
StoreFamily(f) ==
  /\ pc = "idle"
  /\ \E S \in (SUBSET {a \in Attributes : attribute[a] # Null}) \cup {Absent} :
       family' = [family EXCEPT ![f] = S]
  /\ UNCHANGED <<entity, attribute, options, row, pc, doc>>

(* delete_item, in a thread, at any moment. *)

DeleteAttribute(a) ==
  /\ attribute' = [attribute EXCEPT ![a] = Null]
  /\ UNCHANGED <<entity, options, family, row, pc, doc>>

DeleteFamily(f) ==
  /\ family' = [family EXCEPT ![f] = Null]
  /\ UNCHANGED <<entity, attribute, options, row, pc, doc>>

DeleteRow ==
  /\ row' = Null
  /\ UNCHANGED <<entity, rules, pc, doc>>

Next ==
  \/ \E verb \in {"post", "patch", "batch"}, body \in Bodies : Read(verb, body)
  \/ Validate \/ Store
  \/ \E body \in Bodies : StoreBatchOfProducts(body)
  \/ \E a \in Attributes : StoreAttribute(a) \/ DeleteAttribute(a)
  \/ \E f \in Families : StoreFamily(f) \/ DeleteFamily(f)
  \/ \E o \in Options : StoreOption(o)
  \/ DeleteRow

Init ==
  /\ entity \in Entities
  /\ attribute = [a \in Attributes |-> Null]
  /\ options = [o \in Options |-> Null]
  /\ family = [f \in Families |-> Null]
  /\ row = Null
  /\ pc = "idle" /\ doc = Null

Spec == Init /\ [][Next]_vars

----------------------------------------------------------------------------
(* Properties. *)

\* The types of the variables; a document is at hand while a handler has the loop.
TypeOK ==
  /\ entity \in Entities
  /\ attribute \in [Attributes -> {Null} \cup UNION {Rules[a] : a \in Attributes}]
  /\ \A a \in Attributes : attribute[a] = Null \/ attribute[a] \in Rules[a]
  /\ options \in [Options -> Attributes \cup {Null}]
  /\ family \in [Families -> (SUBSET Attributes) \cup {Absent, Null}]
  /\ row \in Documents \cup {Null}
  /\ pc \in {"idle", "validate", "store"}
  /\ IF pc = "idle" THEN doc = Null ELSE doc \in Documents

\* x <= y of numbers that can be compared.
NotAbove(x, y) == x \in Int /\ y \in Int => x <= y

\* Every limit of an attribute on its own, where both sides can be read.
KeepsLimit(attr, name, d) ==
  LET limit == attr.limits[name]
      number == Float(d) IN
  CASE name = "max_characters" -> LengthOf[d.text] <= limit
    [] name = "validation_regexp" -> limit \in Patterns => d.text \in Matching[limit]
    [] name = "number_min" -> NotAbove(NumberOf[limit], number)
    [] name = "number_max" ->
         NotAbove(number, NumberOf[limit]) /\ (number = Infinity => NumberOf[limit] \notin Int)
    [] name = "decimals_allowed" -> ~limit /\ number \in Int => number % 2 = 0
    [] name = "negative_allowed" -> ~limit /\ number \in Int => number >= 0
    [] name = "date_min" -> NotAbove(DateOf[limit], DateOf[d.text])
    [] name = "date_max" ->
         \* switched off by a date_min that is no date
         \/ NotAbove(DateOf[d.text], DateOf[limit])
         \/ "date_min" \in DOMAIN attr.limits /\ DateOf[attr.limits.date_min] = None

KeepsOptions(a, attr, d, opts) ==
  LET chosen == CASE attr.type = "pim_catalog_simpleselect" -> {d.text}
                  [] attr.type = "pim_catalog_multiselect" -> Texts(d.items)
                  [] OTHER -> {} IN
  \A code \in chosen : \A o \in Options : opts[o] = a => code \in Options /\ opts[code] = a

\* The rules in force let the document be.
Fits(x, attrs, opts, families) ==
  /\ \A a \in DOMAIN ValuesOf(x) :
       LET d == x.values[a] IN
       attrs[a] # Null /\ ~Is(d, "null") =>
         /\ \A name \in DOMAIN attrs[a].limits : KeepsLimit(attrs[a], name, d)
         /\ KeepsOptions(a, attrs[a], d, opts)
  /\ entity = "products" /\ x.family # Absent /\ families[x.family] \notin {Null, Absent} =>
       DOMAIN ValuesOf(x) \subseteq families[x.family]

\* Whatever POST, PATCH or a validated batch stores fits the rules in force at that
\* moment: also what the request does not name and earlier rules, or a batch, had let
\* pass, and although DELETEs have gone on since the rules were read.  Not so the values
\* of a published product that a PATCH does not name: they are not read.  Numbers and
\* dates that do not parse, NaN, and limits that do not parse, are let pass.
AcceptedFits ==
  [][pc = "store" /\ pc' = "idle" /\ ~(entity = "published-products" /\ doc.values = Absent)
       => Fits(row', attribute', options', family')]_vars

=============================================================================
