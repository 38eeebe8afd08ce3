------------------------------ MODULE MCCatalog ------------------------------
(* Instances of Catalog for TLC. *)
EXTENDS Catalog, TLC

CONSTANTS a1, a2, f1, f2, o1, v1, select, text, red

L(k, x) == <<[key |-> k, val |-> x]>>
Req(verb, kind, parent, lines) ==
  [verb |-> verb, kind |-> kind, parent |-> parent, lines |-> lines]

\* Requests on one attribute, two families, one option and one variant: references
\* that hold and that do not, children below either parent, lines that are reported
\* and lines that end the batch.
ParentCalls ==
  {Req("patch", "attributes", Null, L(a1, text)), Req("delete", "attributes", Null, L(a1, Absent)),
   Req("post", "attributes", Null, L(a1, select)),
   Req("post", "families", Null, L(f1, {a1})), Req("patch", "families", Null, L(f1, {a2})),
   Req("patch", "families", Null, L(f1, Bad)), Req("delete", "families", Null, L(f1, Absent)),
   Req("batch", "families", Null, L(f1, {a1}) \o L(Absent, {a1}))}

VariantCalls ==
  {Req("post", "variants", f1, L(v1, {a1})), Req("post", "variants", f2, L(Absent, {a1})),
   Req("patch", "variants", f2, L(v1, Absent)), Req("patch", "variants", f1, L(v1, {a2})),
   Req("batch", "variants", f1, L(v1, Absent) \o L(v1, {a1})),
   Req("batch", "variants", f1, L(v1, {a1}) \o L(v1, Bad))}

OptionCalls ==
  {Req("post", "options", a1, L(o1, red)), Req("patch", "options", a2, L(o1, Absent)),
   Req("batch", "options", a1, L(Absent, red) \o L(o1, Nulled))}

MCCalls == ParentCalls \cup VariantCalls \cup OptionCalls

Empty == [k \in Keys |-> Null]
Row(p, x) == [parent |-> p, val |-> x]
Full ==
  [Empty EXCEPT ![a1] = Row(Null, select), ![a2] = Row(Null, select),
                ![f1] = Row(Null, {a1}), ![f2] = Row(Null, {a2}),
                ![v1] = Row(f1, {a1}), ![o1] = Row(a1, red)]
MCStored == {Full}

Symmetry == Permutations(Requests)

=============================================================================
