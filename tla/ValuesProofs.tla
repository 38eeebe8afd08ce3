---------------------------- MODULE ValuesProofs ----------------------------
(***************************************************************************)
(* Proofs about Values, for any attributes, rules, options, families and   *)
(* bodies: the types, and that what is accepted fits the rules in force    *)
(* when it is stored, whatever was deleted since it was validated.         *)
(***************************************************************************)
EXTENDS Values, TLAPS

\* What a validated document still fits, while its handler has the loop.
ValidatedFits == pc = "store" => Fits(doc, attribute, options, family)

\* A document that is going to be stored names what the row has; a published product
\* that is patched does not.
DocCovers ==
  pc # "idle" /\ row # Null /\ entity # "published-products" =>
    /\ doc.family = Absent => row.family = Absent
    /\ doc.values = Absent => row.values = Absent

VInv == TypeOK /\ ValidatedFits /\ DocCovers

----------------------------------------------------------------------------
(* A value. *)

\* A value that passes the validation of its type keeps every limit of the attribute.
LEMMA FitsKeepsLimits ==
  ASSUME NEW a \in Attributes, NEW attr \in Rules[a], NEW d, AttributeValueFits(a, attr, d),
         NEW name \in DOMAIN attr.limits
  PROVE  KeepsLimit(attr, name, d)
<1>1. name \in LimitsOf(attr.type)
  BY ValuesAssumption
<1>2. CASE attr.type \in TextTypes
  <2>1. TextFits(attr, d)
    BY <1>2 DEF AttributeValueFits, TextTypes, FileTypes, SingleTypes, MultiTypes
  <2>2. name \in {"max_characters", "validation_regexp"}
    BY <1>1, <1>2 DEF LimitsOf, TextTypes
  <2>3. QED
    BY <2>1, <2>2 DEF TextFits, KeepsLimit, Limits
<1>3. CASE attr.type = "pim_catalog_number"
  <2> DEFINE x == Float(d)
             Bound(n) == IF Limits(attr, n) THEN NumberOf[attr.limits[n]] ELSE None
  <2> HIDE DEF x
  <2>0. NaN \notin Int /\ Infinity \notin Int /\ None \notin Int /\ NaN # Infinity
        /\ None # NaN /\ None # Infinity
    BY ValuesAssumption
  <2>1. name \in {"number_min", "number_max", "decimals_allowed", "negative_allowed"}
    BY <1>1, <1>3 DEF LimitsOf, TextTypes
  <2>2. NumberFits(attr, d)
    BY <1>3 DEF AttributeValueFits, TextTypes, FileTypes, SingleTypes, MultiTypes
  <2>3. x # None =>
          /\ Bound("number_min") # None => ~Less(x, Bound("number_min"))
          /\ Bound("number_max") # None => ~Less(Bound("number_max"), x)
          /\ Limits(attr, "decimals_allowed") /\ ~attr.limits.decimals_allowed =>
               x \in {NaN, Infinity} \/ x % 2 = 0
          /\ Limits(attr, "negative_allowed") /\ ~attr.limits.negative_allowed => ~Less(x, 0)
    BY <2>2 DEF NumberFits, x
  <2>4. CASE name = "number_min"
    <3>1. Bound("number_min") = NumberOf[attr.limits[name]]
      BY <2>4 DEF Limits
    <3>2. NotAbove(NumberOf[attr.limits[name]], x)
      BY <2>0, <2>3, <3>1 DEF NotAbove, Less
    <3>3. QED
      BY <2>4, <3>2 DEF KeepsLimit, x
  <2>5. CASE name = "number_max"
    <3>1. Bound("number_max") = NumberOf[attr.limits[name]]
      BY <2>5 DEF Limits
    <3>2. /\ NotAbove(x, NumberOf[attr.limits[name]])
          /\ x = Infinity => NumberOf[attr.limits[name]] \notin Int
      BY <2>0, <2>3, <3>1 DEF NotAbove, Less
    <3>3. QED
      BY <2>5, <3>2 DEF KeepsLimit, x
  <2>6. CASE name = "decimals_allowed"
    <3>1. ~attr.limits.decimals_allowed /\ x \in Int => x % 2 = 0
      BY <2>0, <2>3, <2>6 DEF Limits
    <3>2. QED
      BY <2>6, <3>1 DEF KeepsLimit, x
  <2>7. CASE name = "negative_allowed"
    <3>1. ~attr.limits.negative_allowed /\ x \in Int => x >= 0
      BY <2>0, <2>3, <2>7 DEF Limits, Less
    <3>2. QED
      BY <2>7, <3>1 DEF KeepsLimit, x
  <2>8. QED
    BY <2>1, <2>4, <2>5, <2>6, <2>7
<1>4. CASE attr.type = "pim_catalog_date"
  <2>1. name \in {"date_min", "date_max"}
    BY <1>1, <1>4 DEF LimitsOf, TextTypes
  <2>2. DateFits(attr, d)
    BY <1>4 DEF AttributeValueFits, TextTypes, FileTypes, SingleTypes, MultiTypes
  <2>3. None \notin Int
    BY ValuesAssumption
  <2>4. QED
    BY <2>1, <2>2, <2>3 DEF DateFits, KeepsLimit, NotAbove, Limits
<1>5. CASE attr.type \notin TextTypes \cup {"pim_catalog_number", "pim_catalog_date"}
  BY <1>1, <1>5 DEF LimitsOf
<1>6. QED
  BY <1>2, <1>3, <1>4, <1>5

\* And its options are among the attribute's, if the attribute has any.
LEMMA FitsKeepsOptions ==
  ASSUME NEW a, NEW attr, NEW d, AttributeValueFits(a, attr, d)
  PROVE  KeepsOptions(a, attr, d, options)
<1>1. CASE attr.type = "pim_catalog_simpleselect"
  <2>1. OptionsExist(a, {d.text})
    BY <1>1 DEF AttributeValueFits, TextTypes, FileTypes, SingleTypes, MultiTypes
  <2>2. QED
    BY <1>1, <2>1 DEF OptionsExist, KeepsOptions
<1>2. CASE attr.type = "pim_catalog_multiselect"
  <2>1. OptionsExist(a, Texts(d.items))
    BY <1>2 DEF AttributeValueFits, TextTypes, FileTypes, SingleTypes, MultiTypes
  <2> DEFINE chosen == Texts(d.items)
  <2> HIDE DEF chosen
  <2>2. \A code \in chosen : \A o \in Options : options[o] = a => code \in Options /\ options[code] = a
    BY <2>1 DEF OptionsExist, chosen
  <2>3. QED
    BY <1>2, <2>2 DEF KeepsOptions, chosen
<1>3. CASE attr.type \notin {"pim_catalog_simpleselect", "pim_catalog_multiselect"}
  BY <1>3 DEF KeepsOptions
<1>4. QED
  BY <1>1, <1>2, <1>3

----------------------------------------------------------------------------
(* A document. *)

\* What passes the validation fits the rules.
LEMMA ValidFits ==
  ASSUME TypeOK, NEW x \in Documents, Validates(x)
  PROVE  Fits(x, attribute, options, family)
<1>1. ASSUME NEW a \in DOMAIN ValuesOf(x), attribute[a] # Null, ~Is(x.values[a], "null")
      PROVE  /\ \A name \in DOMAIN attribute[a].limits : KeepsLimit(attribute[a], name, x.values[a])
             /\ KeepsOptions(a, attribute[a], x.values[a], options)
  <2>1. AttributeValueFits(a, attribute[a], x.values[a])
    BY <1>1 DEF Validates, ProductValuesFit
  <2>2. a \in Attributes
    BY <1>1 DEF ValuesOf, Documents
  <2>3. attribute[a] \in Rules[a]
    BY <1>1, <2>2 DEF TypeOK
  <2>4. QED
    BY <2>1, <2>2, <2>3, FitsKeepsLimits, FitsKeepsOptions
<1>2. entity = "products" /\ x.family # Absent /\ family[x.family] \notin {Null, Absent} =>
        DOMAIN ValuesOf(x) \subseteq family[x.family]
  BY DEF Validates, ProductFamilyFits
<1>3. QED
  BY <1>1, <1>2 DEF Fits

\* A merge leaves values where there are any, and makes values of the attributes.
LEMMA MergeIsValues ==
  ASSUME NEW old, NEW new,
         old \in {Absent} \cup UNION {[S -> Data] : S \in SUBSET Attributes},
         new \in {Absent} \cup UNION {[S -> Data] : S \in SUBSET Attributes}
  PROVE  /\ MergedValues(old, new) \in {Absent} \cup UNION {[S -> Data] : S \in SUBSET Attributes}
         /\ MergedValues(old, new) = Absent => old = Absent /\ new = Absent
<1>1. CASE old = Absent \/ new = Absent
  BY <1>1 DEF MergedValues
<1>2. CASE old # Absent /\ new # Absent
  <2>1. PICK S \in SUBSET Attributes : old \in [S -> Data]
    BY <1>2
  <2>2. PICK T \in SUBSET Attributes : new \in [T -> Data]
    BY <1>2
  <2>3. MergedValues(old, new) = [a \in S \cup T |-> IF a \in T THEN new[a] ELSE old[a]]
    BY <1>2, <2>1, <2>2 DEF MergedValues
  <2>4. MergedValues(old, new) \in [S \cup T -> Data]
    BY <2>1, <2>2, <2>3
  <2>5. S \cup T \in SUBSET Attributes
    OBVIOUS
  <2>6. MergedValues(old, new) # Absent
    BY <2>4, <2>5, ValuesAssumption
  <2>7. QED
    BY <1>2, <2>4, <2>5, <2>6
<1>3. QED
  BY <1>1, <1>2

\* The patched document is one, and names what the row has.
LEMMA PatchedIsDocument ==
  ASSUME TypeOK, NEW body \in Bodies, NEW verb
  PROVE  /\ Patched(verb, body) \in Documents
         /\ row # Null /\ verb # "post" /\ entity # "published-products" =>
              /\ Patched(verb, body).family = Absent => row.family = Absent
              /\ Patched(verb, body).values = Absent => row.values = Absent
<1>1. body \in Documents
  BY ValuesAssumption
<1>2. CASE row = Null \/ verb = "post"
  BY <1>1, <1>2 DEF Patched
<1>3. CASE row # Null /\ verb # "post"
  <2>1. row \in Documents
    BY <1>3 DEF TypeOK
  <2> DEFINE merged == MergedValues(row.values, body.values)
  <2>2. /\ merged \in {Absent} \cup UNION {[S -> Data] : S \in SUBSET Attributes}
        /\ merged = Absent => row.values = Absent
    BY <1>1, <2>1, MergeIsValues DEF Documents
  <2> HIDE DEF merged
  <2>3. CASE entity = "published-products" /\ verb = "patch"
    <3>1. Patched(verb, body) =
            [family |-> body.family, values |-> IF body.values = Absent THEN Absent ELSE merged]
      BY <1>3, <2>3 DEF Patched, merged
    <3>2. QED
      BY <1>1, <2>2, <2>3, <3>1 DEF Documents
  <2>4. CASE ~(entity = "published-products" /\ verb = "patch")
    <3>1. Patched(verb, body) =
            [family |-> IF body.family = Absent THEN row.family ELSE body.family, values |-> merged]
      BY <1>3, <2>4 DEF Patched, merged
    <3>2. QED
      BY <1>1, <2>1, <2>2, <3>1 DEF Documents
  <2>5. QED
    BY <2>3, <2>4
<1>4. QED
  BY <1>2, <1>3

\* So is what is stored.
LEMMA UpsertedIsDocument ==
  ASSUME TypeOK, NEW x \in Documents
  PROVE  Upserted(x) \in Documents
BY DEF Upserted, Documents, TypeOK

\* Whatever a DELETE takes away, a document fits what remains.
LEMMA FitsLess ==
  ASSUME TypeOK, NEW x \in Documents, Fits(x, attribute, options, family), entity' = entity,
         \/ \E a \in Attributes : DeleteAttribute(a)
         \/ \E f \in Families : DeleteFamily(f)
         \/ DeleteRow
  PROVE  Fits(x, attribute', options', family')
<1>1. CASE \E a \in Attributes : DeleteAttribute(a)
  <2>1. PICK b \in Attributes : DeleteAttribute(b)
    BY <1>1
  <2>2. \A a \in Attributes : attribute'[a] # Null => attribute'[a] = attribute[a]
    BY <2>1 DEF DeleteAttribute, TypeOK
  <2>3. options' = options /\ family' = family
    BY <2>1 DEF DeleteAttribute
  <2>4. DOMAIN ValuesOf(x) \subseteq Attributes
    BY DEF ValuesOf, Documents
  <2>5. QED
    BY <2>2, <2>3, <2>4 DEF Fits
<1>2. CASE \E f \in Families : DeleteFamily(f)
  <2>1. PICK g \in Families : DeleteFamily(g)
    BY <1>2
  <2>2. \A f \in Families : family'[f] # Null => family'[f] = family[f]
    BY <2>1 DEF DeleteFamily, TypeOK
  <2>3. options' = options /\ attribute' = attribute
    BY <2>1 DEF DeleteFamily
  <2>4. x.family # Absent => x.family \in Families
    BY DEF Documents
  <2>5. QED
    BY <2>2, <2>3, <2>4 DEF Fits
<1>3. CASE DeleteRow
  BY <1>3 DEF DeleteRow, rules, Fits
<1>4. QED
  BY <1>1, <1>2, <1>3

----------------------------------------------------------------------------
(* The invariant. *)

\* At the start there is no document to fit.
LEMMA InitInv == Init => VInv
BY ValuesAssumption DEF Init, VInv, TypeOK, ValidatedFits, DocCovers

\* The types are kept by every step.
LEMMA TypeStep ==
  ASSUME TypeOK, [Next]_vars
  PROVE  TypeOK'
<1>1. ASSUME NEW verb, NEW body \in Bodies, Read(verb, body) PROVE TypeOK'
  BY <1>1, PatchedIsDocument DEF Read, TypeOK, rules
<1>2. CASE Validate
  BY <1>2 DEF Validate, TypeOK, rules
<1>3. CASE Store
  <2>1. Upserted(doc) \in Documents
    BY <1>3, UpsertedIsDocument DEF Store, TypeOK
  <2>2. QED
    BY <1>3, <2>1 DEF Store, TypeOK, rules
<1>4. ASSUME NEW body \in Bodies, StoreBatchOfProducts(body) PROVE TypeOK'
  <2>1. Upserted(Patched("batch", body)) \in Documents
    BY PatchedIsDocument, UpsertedIsDocument
  <2>2. QED
    BY <1>4, <2>1 DEF StoreBatchOfProducts, TypeOK, rules
<1>5. ASSUME NEW a \in Attributes, StoreAttribute(a) \/ DeleteAttribute(a) PROVE TypeOK'
  <2>1. PICK rule \in Rules[a] \cup {Null} : attribute' = [attribute EXCEPT ![a] = rule]
    BY <1>5 DEF StoreAttribute, DeleteAttribute
  <2>2. UNCHANGED <<entity, options, family, row, pc, doc>>
    BY <1>5 DEF StoreAttribute, DeleteAttribute
  <2>3. attribute' \in [Attributes -> {Null} \cup UNION {Rules[c] : c \in Attributes}]
    BY <2>1 DEF TypeOK
  <2>4. \A c \in Attributes : attribute'[c] = Null \/ attribute'[c] \in Rules[c]
    BY <2>1 DEF TypeOK
  <2>5. QED
    BY <2>2, <2>3, <2>4 DEF TypeOK
<1>6. ASSUME NEW f \in Families, StoreFamily(f) \/ DeleteFamily(f) PROVE TypeOK'
  <2>1. PICK S \in (SUBSET Attributes) \cup {Absent, Null} : family' = [family EXCEPT ![f] = S]
    BY <1>6 DEF StoreFamily, DeleteFamily
  <2>2. UNCHANGED <<entity, attribute, options, row, pc, doc>>
    BY <1>6 DEF StoreFamily, DeleteFamily
  <2>3. QED
    BY <2>1, <2>2 DEF TypeOK
<1>7. ASSUME NEW o \in Options, StoreOption(o) PROVE TypeOK'
  BY <1>7 DEF StoreOption, TypeOK
<1>8. CASE DeleteRow
  BY <1>8 DEF DeleteRow, TypeOK, rules
<1>9. CASE UNCHANGED vars
  BY <1>9 DEF vars, TypeOK
<1>10. QED
  BY <1>1, <1>2, <1>3, <1>4, <1>5, <1>6, <1>7, <1>8, <1>9 DEF Next

\* Only DELETEs go on beside a document that is going to be stored.
LEMMA InvStep ==
  ASSUME VInv, [Next]_vars
  PROVE  VInv'
<1> USE DEF VInv
<1>0. TypeOK'
  BY TypeStep
<1>1. ASSUME NEW verb \in {"post", "patch", "batch"}, NEW body \in Bodies, Read(verb, body)
      PROVE ValidatedFits' /\ DocCovers'
  BY <1>1, PatchedIsDocument DEF Read, ValidatedFits, DocCovers
<1>2. CASE Validate
  <2>1. doc \in Documents
    BY <1>2 DEF Validate, TypeOK
  <2>2. ValidatedFits'
    BY <1>2, <2>1, ValidFits DEF Validate, ValidatedFits, rules, Fits
  <2>3. DocCovers'
    BY <1>2 DEF Validate, DocCovers
  <2>4. QED
    BY <1>0, <2>2, <2>3
<1>3. ASSUME pc' = "idle" PROVE ValidatedFits' /\ DocCovers'
  BY <1>3 DEF ValidatedFits, DocCovers
<1>4. CASE \/ \E a \in Attributes : DeleteAttribute(a)
           \/ \E f \in Families : DeleteFamily(f)
           \/ DeleteRow
  <2>1. pc' = pc /\ doc' = doc /\ entity' = entity /\ (row' = row \/ row' = Null)
    BY <1>4 DEF DeleteAttribute, DeleteFamily, DeleteRow
  <2>2. pc = "store" => doc \in Documents
    BY DEF TypeOK
  <2>3. pc = "store" => Fits(doc, attribute', options', family')
    BY <1>4, <2>1, <2>2, FitsLess DEF ValidatedFits
  <2>4. ValidatedFits'
    BY <2>1, <2>3 DEF ValidatedFits, Fits
  <2>5. DocCovers'
    BY <2>1 DEF DocCovers
  <2>6. QED
    BY <1>0, <2>4, <2>5
<1>5. CASE UNCHANGED vars
  BY <1>0, <1>5 DEF vars, ValidatedFits, DocCovers, Fits
<1>6. CASE \/ Store
           \/ \E body \in Bodies : StoreBatchOfProducts(body)
           \/ \E a \in Attributes : StoreAttribute(a)
           \/ \E f \in Families : StoreFamily(f)
           \/ \E o \in Options : StoreOption(o)
  <2>1. pc' = "idle"
    BY <1>6 DEF Store, StoreBatchOfProducts, StoreAttribute, StoreFamily, StoreOption
  <2>2. QED
    BY <1>0, <1>3, <2>1
<1>7. QED
  BY <1>0, <1>1, <1>2, <1>4, <1>5, <1>6 DEF Next

----------------------------------------------------------------------------
(* The theorems. *)

\* The invariant holds throughout.
LEMMA Invariance == Spec => []VInv
<1>1. VInv /\ [Next]_vars => VInv'
  BY InvStep
<1>2. QED
  BY <1>1, InitInv, PTL DEF Spec

\* Rules and documents keep their types, and a document is at hand exactly while a handler
\* of rest.py:857-1138 has the loop.
THEOREM ValuesTypeCorrect == Spec => []TypeOK
<1>1. VInv => TypeOK
  BY DEF VInv
<1>2. QED
  BY <1>1, Invariance, PTL

\* What a handler stores is what it validated.
LEMMA AcceptedStep ==
  ASSUME VInv, [Next]_vars, pc = "store", pc' = "idle",
         ~(entity = "published-products" /\ doc.values = Absent)
  PROVE  Fits(row', attribute', options', family')
<1>1. Store
  <2>1. CASE UNCHANGED vars
    BY <2>1 DEF vars
  <2>2. QED
    BY <2>1 DEF Next, Read, Validate, StoreBatchOfProducts, StoreAttribute, DeleteAttribute,
                StoreFamily, DeleteFamily, StoreOption, DeleteRow
<1>2. doc \in Documents /\ row \in Documents \cup {Null}
  BY DEF VInv, TypeOK
<1>3. Fits(doc, attribute, options, family)
  BY DEF VInv, ValidatedFits
<1>4. row' = Upserted(doc) /\ entity' = entity /\ attribute' = attribute /\ options' = options
      /\ family' = family
  BY <1>1 DEF Store, rules
<1>5. row'.values = doc.values
  BY <1>2, <1>4 DEF Upserted, VInv, DocCovers
<1>6. entity = "products" => row'.family = doc.family
  BY <1>2, <1>4 DEF Upserted, VInv, DocCovers
<1>7. ValuesOf(row') = ValuesOf(doc)
  BY <1>5 DEF ValuesOf
<1>8. QED
  BY <1>3, <1>4, <1>5, <1>6, <1>7 DEF Fits

\* Whatever POST, PATCH or a validated batch stores fits the rules in force at that moment,
\* whichever rules the row was stored under before, and whatever was deleted while the
\* handler had the loop (rest.py:359-423).
THEOREM AcceptedStaysFit == Spec => AcceptedFits
<1>1. VInv /\ [Next]_vars =>
        [pc = "store" /\ pc' = "idle" /\ ~(entity = "published-products" /\ doc.values = Absent)
           => Fits(row', attribute', options', family')]_vars
  BY AcceptedStep
<1>2. QED
  BY <1>1, Invariance, PTL DEF Spec, AcceptedFits

=============================================================================
