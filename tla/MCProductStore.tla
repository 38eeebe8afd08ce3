--------------------------- MODULE MCProductStore ---------------------------
(* Instances of ProductStore for TLC. *)
EXTENDS ProductStore, TLC

CONSTANTS i1, i2, u1, u2, u3, u4, v, bad

B(i, u, x) == <<[identifier |-> i, uuid |-> u, val |-> x]>>
Post(e, i, u, x) == [verb |-> "post", entity |-> e, lines |-> B(i, u, x)]
Patch(e, c, i, u, x) == [verb |-> "patch", entity |-> e, code |-> c, lines |-> B(i, u, x)]
Delete(e, c) == [verb |-> "delete", entity |-> e, code |-> c]
Batch(e, lines) == [verb |-> "batch", entity |-> e, lines |-> lines]

\* One request of each kind on products i1/u1 and i2/u2: given and generated
\* uuids and uuids that are none, renames, contents that validation refuses, lines that
\* are reported and lines that end the batch.
MCCalls ==
  {Post("products", i1, Absent, v), Post("products", i2, u1, v),
   Post("products-uuid", i1, u2, v), Post("products-uuid", i1, u1, bad),
   Post("products-uuid", Absent, u1, v),
   Patch("products", i1, Absent, Absent, v), Patch("products", i1, Absent, u2, Absent),
   Patch("products", i1, Absent, Absent, Nulled), Patch("products", i1, Absent, Nulled, v),
   Patch("products-uuid", u1, i2, Absent, Absent), Patch("products-uuid", u1, i2, Absent, bad),
   Patch("products-uuid", u1, Absent, Absent, v),
   Delete("products", i1), Delete("products-uuid", u1),
   Batch("products", B(i1, Absent, v) \o B(i1, u2, Absent)),
   Batch("products", B(i2, u1, bad) \o B(i1, Absent, Nulled)),
   Batch("products", B(Absent, u1, v) \o B(i2, Absent, v)),
   Batch("products", B(i1, Nulled, v) \o B(Nulled, Absent, v)),
   Batch("products-uuid", B(i1, u2, Absent) \o B(Nulled, u1, v)),
   Batch("products-uuid", B(i1, u2, v) \o B(Absent, u1, v)),
   Batch("products-uuid", B(Absent, u2, v) \o B(i2, u2, Absent))}

Row(u, x) == [uuid |-> u, val |-> x]
Empty == [i \in Columns |-> Null]
MCStored ==
  {Empty, [Empty EXCEPT ![i1] = Row(u1, v)],
   [Empty EXCEPT ![i1] = Row(u1, Absent), ![i2] = Row(u2, v)]}

\* With two requests, no step leaves a state where the loop is stuck.
GoesOn == ~LoopStuck

\* No call names u3 and u4, which are there to be generated.
Symmetry == Permutations(Requests) \cup Permutations({u3, u4})

=============================================================================
