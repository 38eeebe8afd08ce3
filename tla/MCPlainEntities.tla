-------------------------- MODULE MCPlainEntities --------------------------
(* Instances of PlainEntities for TLC. *)
EXTENDS PlainEntities, TLC

CONSTANTS main, other, channel, family, labels, unit, en, fr, eur

Body(l, u) == [p \in Props |-> IF p = labels THEN l ELSE u]
Req(verb, d, e, l, u) == [verb |-> verb, db |-> d, entity |-> e, body |-> Body(l, u)]

\* Requests that create, merge, replace, null and mistype, the deciding ones also in
\* the database that has no tables at first.
MainCalls ==
  {Req("post", main, channel, {en}, eur), Req("patch", main, channel, {fr}, Absent),
   Req("patch", main, channel, Wrong, eur), Req("patch", main, channel, Absent, Nulled),
   Req("patch", main, channel, Nulled, eur), Req("batch", main, channel, {fr}, Absent),
   Req("batch", main, channel, Wrong, Absent), Req("delete", main, channel, Absent, Absent)}
OtherCalls ==
  {Req("patch", other, channel, {fr}, Absent), Req("post", other, channel, {fr}, Absent),
   Req("post", other, channel, Wrong, eur)}
FamilyCalls ==
  {Req("batch", main, family, {en}, eur), Req("patch", main, family, {fr}, Absent)}

MCCalls == MainCalls \cup OtherCalls \cup FamilyCalls

Symmetry == Permutations(Requests)
=============================================================================
