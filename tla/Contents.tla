------------------------------ MODULE Contents ------------------------------
(***************************************************************************)
(* What PATCH makes of an entity (apply_patch in common.py), what the      *)
(* events say about it (events.py), and what a subscriber can make of      *)
(* those: it keeps a replica of one entity, which it reads when it hears   *)
(* that the entity was created, drops when it hears that it was deleted,   *)
(* and otherwise changes as the "updated.delta" events say.  A second      *)
(* subscriber has a filter on its delta events.                            *)
(*                                                                         *)
(* A handler is one step: those that race for one row are in ProductStore, *)
(* the tasks and POSTs that carry the events in EventDispatch.  Of these   *)
(* it is left here that events overtake each other, and get lost.          *)
(*                                                                         *)
(* JSON: a list is [list |-> a sequence], an object is [dict |-> a         *)
(* function from keys], a scalar is a record with another field.  The      *)
(* payloads are such that the Pydantic models leave them as they are.  An  *)
(* entry of "values" is an object with "locale", "scope" (or "channel")    *)
(* and "data".                                                             *)
(***************************************************************************)
EXTENDS EventFilter, FiniteSetsExt

CONSTANTS
  Kinds,        \* kinds of entities
  SubEntities,  \* those that live below a parent
  Payloads,     \* for each kind, the bodies of POST and PATCH
  Expressions,  \* expressions, for the parser
  Filters,      \* those that clients ask for
  User,         \* the author of all changes
  MaxDepth,     \* bound on the objects within objects in a body
  MaxChanges    \* bound on the changes of the entity

DeltaKinds == {"product", "product-model", "category", "attribute-option", "asset",
               "reference-entity-record"}

\* The keys of JSON objects.
Names == STRING

Get(dict, key) == IF key \in DOMAIN dict THEN dict[key] ELSE JsonNull
IsDict(v) == "dict" \in DOMAIN v
IsList(v) == "list" \in DOMAIN v
DictOf(v) == IF IsDict(v) THEN v.dict ELSE [key \in {} |-> JsonNull]
ItemsOf(v) == IF IsList(v) THEN v.list ELSE <<>>

\* Where a path of keys leads in an object: null if nowhere.
Reached(doc, path) ==
  LET reached[n \in 0..Len(path)] ==
        IF n = 0 THEN [dict |-> doc] ELSE Get(DictOf(reached[n - 1]), path[n]) IN
  reached[Len(path)]

\* The paths in an object, as deep as may be, of some length.
PathsOf(doc) ==
  LET paths[n \in 0..MaxDepth] ==
        IF n = 0 THEN {<<>>}
        ELSE UNION {{Append(path, key) : key \in DOMAIN DictOf(Reached(doc, path))} :
                    path \in paths[n - 1]} IN
  paths
Paths(doc) == UNION {PathsOf(doc)[n] : n \in 0..MaxDepth}

\* What json.loads makes of the body of a request: keys are strings, lists are sequences,
\* and objects are not in each other without end.
IsDocument(doc) ==
  \A path \in Paths(doc) :
    LET v == Reached(doc, path) IN
    /\ path \in Seq(Names)
    /\ IsDict(v) => Len(path) < MaxDepth
    /\ IsList(v) => v.list \in Seq(ToSet(v.list))

ASSUME ContentsAssumption ==
  /\ Kinds \subseteq DeltaKinds /\ SubEntities \subseteq Kinds
  /\ \A expression \in Expressions : Expression(expression)
  /\ Filters \subseteq Expressions
  /\ MaxChanges \in Nat /\ MaxDepth \in Nat \ {0}
  /\ \A k \in Kinds : \A doc \in Payloads[k] : IsDocument(doc)

VARIABLES
  kind,      \* the kind of the entity
  stored,    \* the entity as it is read back: one document or none
  filter,    \* the filter of the second subscriber, empty if it has none
  changed,   \* how many changes there have been
  pending,   \* the events that are on their way
  replica,   \* what the first subscriber has of the entity
  partial,   \* the same for the second
  doubtful   \* history: what events that came too late, or never, were about

contentsVars == <<kind, stored, filter, changed, pending, replica, partial, doubtful>>

----------------------------------------------------------------------------
(* common.py: merge_value_locale_scope, apply_patch. *)

Key(entry) ==
  LET e == entry.dict IN
  <<Get(e, "locale"), IF "scope" \in DOMAIN e THEN e["scope"] ELSE Get(e, "channel")>>

\* A list or an object cannot be a key of a Python dict.
Hashable(key) == \A i \in 1..2 : ~IsDict(key[i]) /\ ~IsList(key[i])

\* Where the first, and the last, of the entries that have one key are.
FirstLike(all, i) == Min({j \in DOMAIN all : IsDict(all[j]) /\ Key(all[j]) = Key(all[i])})
LastLike(all, i) == Max({j \in DOMAIN all : IsDict(all[j]) /\ Key(all[j]) = Key(all[i])})

Firsts(all) ==
  {i \in DOMAIN all : IsDict(all[i]) /\ Hashable(Key(all[i])) /\ FirstLike(all, i) = i}
NthOf(numbers, n) == CHOOSE i \in numbers : Cardinality({j \in numbers : j <= i}) = n

\* Variant: an entry that is there stays.
MergeKeepingOld(existing, incoming) ==
  LET all == existing \o incoming IN
  [n \in 1..Cardinality(Firsts(all)) |-> all[NthOf(Firsts(all), n)]]

\* One entry for each locale and scope: the last, in the place of the first.
MergeValueLocaleScope(existing, incoming) ==
  LET all == existing \o incoming IN
  [n \in 1..Cardinality(Firsts(all)) |-> all[LastLike(all, NthOf(Firsts(all), n))]]

MergeValues(existing, patch) ==
  [attribute \in DOMAIN existing \cup DOMAIN patch |->
     LET old == Get(existing, attribute)
         new == Get(patch, attribute) IN
     IF attribute \notin DOMAIN patch THEN old
     ELSE IF IsList(old) /\ IsList(new)
          THEN [list |-> MergeValueLocaleScope(old.list, new.list)]
          ELSE new]

\* PatchTypeError is raised at some level.
RaisesPatchTypeError(existing, patch) ==
  LET raises[path \in Seq(Names)] ==
        LET below == DictOf(Reached(patch, path)) IN
        \E key \in DOMAIN below :
          LET old == Get(DictOf(Reached(existing, path)), key)
              new == below[key] IN
          \/ IsDict(old) /\ ~IsDict(new)
          \/ IsList(old) /\ ~IsList(new)
          \/ IsDict(old) /\ IsDict(new) /\ key # "values" /\ raises[Append(path, key)] IN
  raises[<<>>]

\* The object at a path, given what becomes of those at longer ones.
PatchedAt(existing, patch, patched, path) ==
  LET before == DictOf(Reached(existing, path))
      below == DictOf(Reached(patch, path)) IN
  [key \in DOMAIN before \cup DOMAIN below |->
     LET old == Get(before, key)
         new == Get(below, key) IN
     IF key \notin DOMAIN below THEN old
     ELSE IF ~(IsDict(old) /\ IsDict(new)) THEN new
     ELSE [dict |-> IF key = "values" THEN MergeValues(old.dict, new.dict)
                                      ELSE patched[Append(path, key)]]]

ApplyPatch(existing, patch) ==
  LET patched[path \in Seq(Names)] == PatchedAt(existing, patch, patched, path) IN
  patched[<<>>]

\* Variant: columns that are null are read back as null.
StoredWithNulls(doc) == doc

\* The row, as _get_item_data_dict reads it back: columns that are null are left out.
\* (Where the row is one JSON document they stay, which nothing here can tell.)
Stored(doc) == [key \in {key \in DOMAIN doc : doc[key] # JsonNull} |-> doc[key]]

----------------------------------------------------------------------------
(* events.py: the changes of a delta event.  Each has the path of what     *)
(* changes; an item that is added to a list, or removed from it, is a      *)
(* change of its own.                                                      *)

ScalarChange(at, previous, current) ==
  IF previous = current THEN {} ELSE {[at |-> at, previous |-> previous, new |-> current]}

ListChange(previous, current) ==
  LET before == ToSet(ItemsOf(previous))
      after == ToSet(ItemsOf(current)) IN
  {[item |-> item, previous |-> JsonNull, new |-> item] : item \in after \ before}
  \cup {[item |-> item, previous |-> item, new |-> JsonNull] : item \in before \ after}

\* The entries of "values" by attribute, locale and scope; the last of a kind counts.
ValueIndex(values) ==
  LET Entries(a) == {i \in DOMAIN ItemsOf(values[a]) : IsDict(ItemsOf(values[a])[i])}
      KeyOf(a, i) == LET key == Key(values[a].list[i]) IN <<a, key[1], key[2]>>
      Latest(key) == Max({i \in Entries(key[1]) : KeyOf(key[1], i) = key}) IN
  [key \in UNION {{KeyOf(a, i) : i \in Entries(a)} : a \in DOMAIN values} |->
     Get(values[key[1]].list[Latest(key)].dict, "data")]

ValuesOf(doc) == DictOf(Get(doc, "values"))
Indexed(doc) == ValueIndex(ValuesOf(doc))

\* A locale or scope that is not hashable is a TypeError.
CannotIndex(doc) ==
  \E a \in DOMAIN ValuesOf(doc) : \E i \in DOMAIN ItemsOf(ValuesOf(doc)[a]) :
    LET entry == ItemsOf(ValuesOf(doc)[a])[i] IN IsDict(entry) /\ ~Hashable(Key(entry))

ValuesChanges(previous, current) ==
  LET before == Indexed(previous)
      after == Indexed(current)
      both == DOMAIN before \cap DOMAIN after
      same == {key \in both : before[key] = after[key]} IN
  {[at |-> <<"values", key[1], key[2], key[3]>>,
    previous |-> Get(before, key), new |-> Get(after, key)] :
     key \in (DOMAIN before \cup DOMAIN after) \ same}

AssociationTargets == {"products", "product_models", "groups"}
AssociationsOf(doc) == DictOf(Get(doc, "associations"))
Linked(doc, type, target) == Get(DictOf(Get(AssociationsOf(doc), type)), target)

AssociationChanges(previous, current) ==
  UNION {UNION {{[at |-> <<"associations", type, target, c.item>>,
                  previous |-> c.previous, new |-> c.new] :
                    c \in ListChange(Linked(previous, type, target), Linked(current, type, target))} :
                  target \in AssociationTargets} :
           type \in DOMAIN AssociationsOf(previous) \cup DOMAIN AssociationsOf(current)}

LabelsOf(doc) == DictOf(Get(doc, "labels"))

LabelsChanges(previous, current) ==
  LET before == LabelsOf(previous)
      after == LabelsOf(current) IN
  UNION {ScalarChange(<<"labels", locale>>, Get(before, locale), Get(after, locale)) :
           locale \in DOMAIN before \cup DOMAIN after}

ScalarFields == [k \in DeltaKinds |->
  CASE k = "product" -> {"enabled", "family", "parent"}
    [] k \in {"product-model", "category"} -> {"parent"}
    [] k = "attribute-option" -> {"sort_order"}
    [] OTHER -> {}]
ListFields == [k \in DeltaKinds |->
  CASE k = "product" -> {"groups", "categories"}
    [] k = "product-model" -> {"categories"}
    [] OTHER -> {}]
WithAssociations == {"product", "product-model"}
WithLabels == {"category", "attribute-option"}
WithValues == DeltaKinds \ {"attribute-option"}

FieldChanges(k, previous, current) ==
  UNION {ScalarChange(<<f>>, Get(previous, f), Get(current, f)) : f \in ScalarFields[k]}
ItemChanges(k, previous, current) ==
  UNION {{[at |-> <<f, c.item>>, previous |-> c.previous, new |-> c.new] :
            c \in ListChange(Get(previous, f), Get(current, f))} : f \in ListFields[k]}

ComputeDeltaChanges(k, previous, current) ==
  FieldChanges(k, previous, current) \cup ItemChanges(k, previous, current)
  \cup (IF k \in WithAssociations THEN AssociationChanges(previous, current) ELSE {})
  \cup (IF k \in WithLabels THEN LabelsChanges(previous, current) ELSE {})
  \cup (IF k \in WithValues THEN ValuesChanges(previous, current) ELSE {})

\* Variant: only one of the changed values is looked at.
FactsOfOne(type, changes) ==
  LET values == {c \in changes : c.at[1] = "values"}
      Facts(n) == IF values = {} THEN {} ELSE {(CHOOSE c \in values : TRUE).at[n]} IN
  IF type # "updated.delta" THEN [user |-> {User}]
  ELSE [user |-> {User}, attribute |-> Facts(2), locale |-> Facts(3), scope |-> Facts(4)]

\* What filters see of an event: of the changes only those of values.
FilterFacts(type, changes) ==
  LET values == {c \in changes : c.at[1] = "values"}
      Facts(n) == {c.at[n] : c \in values} IN
  IF type # "updated.delta" THEN [user |-> {User}]
  ELSE [user |-> {User}, attribute |-> Facts(2), locale |-> Facts(3), scope |-> Facts(4)]

----------------------------------------------------------------------------
(* What a subscriber keeps of an entity: cells, each a path and what is    *)
(* there.  A list is a set of items, null is nothing; the cell without a   *)
(* path says that the entity is there.                                     *)

Exists == [at |-> <<>>, is |-> JsonNull]

Cell(at, v) == IF v = JsonNull THEN {} ELSE {[at |-> at, is |-> v]}

ScalarCells(doc) == UNION {Cell(<<f>>, Get(doc, f)) : f \in ScalarFields[kind]}
ListCells(doc) ==
  UNION {UNION {Cell(<<f, item>>, item) : item \in ToSet(ItemsOf(Get(doc, f)))} :
           f \in ListFields[kind]}
AssociationCells(doc) ==
  UNION {UNION {UNION {Cell(<<"associations", type, target, item>>, item) :
                         item \in ToSet(ItemsOf(Linked(doc, type, target)))} :
                  target \in AssociationTargets} :
           type \in DOMAIN AssociationsOf(doc)}
LabelCells(doc) ==
  UNION {Cell(<<"labels", locale>>, LabelsOf(doc)[locale]) : locale \in DOMAIN LabelsOf(doc)}
ValueCells(doc) ==
  UNION {Cell(<<"values", key[1], key[2], key[3]>>, Indexed(doc)[key]) :
           key \in DOMAIN Indexed(doc)}

View(doc) ==
  {Exists} \cup ScalarCells(doc) \cup ListCells(doc)
  \cup (IF kind \in WithAssociations THEN AssociationCells(doc) ELSE {})
  \cup (IF kind \in WithLabels THEN LabelCells(doc) ELSE {})
  \cup (IF kind \in WithValues THEN ValueCells(doc) ELSE {})

\* Everything at the path of a change is replaced.
Apply(view, changes) ==
  {cell \in view : \A c \in changes : c.at # cell.at}
  \cup {[at |-> c.at, is |-> c.new] : c \in {c \in changes : c.new # JsonNull}}

----------------------------------------------------------------------------
(* Events.  Each has the number of its change. *)

Changes(e) == ComputeDeltaChanges(kind, e.previous, e.current)

\* The task of an update raises, so that no subscriber hears of it.
TaskRaises(e) ==
  /\ e.action = "updated" /\ kind \in WithValues
  /\ CannotIndex(e.previous) \/ CannotIndex(e.current)

\* The paths of what an event changes: all of them, for which <<>> stands, or those in
\* its delta.
Touched(e) == IF e.action # "updated" THEN {<<>>} ELSE {c.at : c \in Changes(e)}

\* What two sets of paths have in common.
Overlap(p, q) == {at \in p \cup q : {at, <<>>} \cap p # {} /\ {at, <<>>} \cap q # {}}

NoDoc == [key \in {} |-> JsonNull]

Announce(action, previous, current) ==
  /\ changed < MaxChanges
  /\ changed' = changed + 1
  /\ pending' = pending \cup {[nr |-> changed', action |-> action,
                                previous |-> previous, current |-> current]}
  /\ UNCHANGED <<kind, filter, replica, partial, doubtful>>

----------------------------------------------------------------------------
(* Requests. *)

ContentsInit ==
  /\ kind \in Kinds
  /\ stored = {} /\ filter = <<>>
  /\ changed = 0 /\ pending = {}
  /\ replica = {} /\ partial = {} /\ doubtful = {}

\* create_subscription with a filter; one that validate_filter refuses is a 422.
Subscribe(expression) ==
  /\ filter = <<>> /\ changed = 0
  /\ ValidFilter(expression)
  /\ filter' = expression
  /\ UNCHANGED <<kind, stored, changed, pending, replica, partial, doubtful>>

\* create_item; create_sub_item stores over what is there.
Create(doc) ==
  /\ stored = {} \/ kind \in SubEntities
  /\ stored' = {Stored(doc)}
  /\ Announce("created", NoDoc, doc)

\* A PATCH of what is not there creates it.
PatchMissing(patch) ==
  /\ stored = {}
  /\ stored' = {Stored(patch)}
  /\ Announce("created", NoDoc, patch)

\* Variant: the previous state is not copied before the patch is applied to it.
PatchInPlace(patch) ==
  \E existing \in stored :
    LET doc == ApplyPatch(existing, patch) IN
    /\ ~RaisesPatchTypeError(existing, patch)
    /\ stored' = {Stored(doc)}
    /\ Announce("updated", doc, doc)

\* patch_item, patch_sub_item, and the lines of a batch.
PatchItem(patch) ==
  \E existing \in stored :
    LET doc == ApplyPatch(existing, patch) IN
    /\ ~RaisesPatchTypeError(existing, patch)
    /\ stored' = {Stored(doc)}
    /\ Announce("updated", existing, doc)

\* delete_item; sub-entities cannot be deleted.
Delete ==
  \E existing \in stored :
    /\ kind \notin SubEntities
    /\ stored' = {}
    /\ Announce("deleted", NoDoc, existing)

----------------------------------------------------------------------------
(* Deliveries. *)

Actual == UNION {View(doc) : doc \in stored}

\* The entity is read with GET when it was created.
Follow(view, e) ==
  CASE e.action = "created" -> Actual
    [] e.action = "deleted" -> {}
    [] OTHER -> IF Exists \in view THEN Apply(view, Changes(e)) ELSE view

Deliver(e) ==
  LET rest == pending \ {e}
      late == UNION {Touched(d) : d \in rest} IN
  /\ ~TaskRaises(e)
  /\ pending' = rest
  /\ replica' = Follow(replica, e)
  /\ IF e.action = "updated" /\ ~FilterAllows(filter, FilterFacts("updated.delta", Changes(e)))
     THEN UNCHANGED partial
     ELSE partial' = Follow(partial, e)
  /\ doubtful' = (IF e.action = "created" THEN Overlap(doubtful, late) ELSE doubtful)
                 \cup UNION {Overlap(Touched(e), Touched(d)) : d \in {d \in rest : d.nr < e.nr}}
  /\ UNCHANGED <<kind, stored, filter, changed>>

\* Nobody takes it in: the POST fails, the task raises, or the process dies.
Lose(e) ==
  /\ pending' = pending \ {e}
  /\ doubtful' = doubtful \cup Touched(e)
  /\ UNCHANGED <<kind, stored, filter, changed, replica, partial>>

ContentsNext ==
  \/ \E expression \in Filters : Subscribe(expression)
  \/ \E doc \in Payloads[kind] : Create(doc) \/ PatchMissing(doc) \/ PatchItem(doc)
  \/ Delete
  \/ \E e \in pending : Deliver(e) \/ Lose(e)

ContentsSpec == ContentsInit /\ [][ContentsNext]_contentsVars

----------------------------------------------------------------------------
(* Properties. *)

\* Where an event is still to come, came too late or was lost.
Unsettled == doubtful \cup UNION {Touched(e) : e \in pending}
Settled(at) == {at, <<>>} \cap Unsettled = {}

SettledCells(view) == {c \in view : Settled(c.at)}

ContentsTypeOK ==
  /\ kind \in Kinds
  /\ \A doc, other \in stored : doc = other
  /\ \A doc \in stored : \A key \in DOMAIN doc : doc[key] # JsonNull
  /\ ValidFilter(filter)
  /\ changed \in 0..MaxChanges
  /\ \A e \in pending : e.nr \in 1..changed /\ e.action \in {"created", "updated", "deleted"}
  /\ \A d, e \in pending : d.nr = e.nr => d = e
  /\ \A view \in {replica, partial} :
       /\ \A c, d \in view : c.at = d.at => c = d
       /\ view # {} => Exists \in view
  /\ replica = {} <=> partial = {}

\* A subscriber that does what the delta events say has the entity, but for what an
\* event on its way is about, or one that was overtaken or lost: a lost update spoils
\* what it changed and no more, until that is changed again to something else or the
\* entity is created again (and what is read then is spoilt only by events that an
\* earlier one has overtaken).
ReplicaFollows == SettledCells(replica) = SettledCells(Actual)

\* The filter means to let through the change of a value alone.
Wanted(at) ==
  /\ at # <<>> /\ at[1] = "values"
  /\ TRUE \in Readings(filter, [attribute |-> {at[2]}, locale |-> {at[3]}, scope |-> {at[4]}])

WantedCells(view) == {c \in SettledCells(view) : Wanted(c.at)}

\* A filter without "not" holds back no event that concerns a value it asks for: one
\* whose change alone it means to let through.
FilteredFollows ==
  filter # <<>> /\ ~Contains(filter, <<"not">>) => WantedCells(partial) = WantedCells(Actual)

\* The parser accepts what the grammar of "or", "and", "not", parentheses and leaves
\* accepts, and finds what it means; a filter it has accepted never fails on an event.
FilterMeans ==
  IF filter = <<>>
  THEN changed = 0 => \A e \in Expressions : Parse(e, NoFacts) = Readings(e, NoFacts)
  ELSE /\ Cardinality(Parse(filter, NoFacts)) = 1
       /\ \A e \in pending, type \in {"created", "updated.delta"} :
            LET facts == FilterFacts(type, Changes(e)) IN
            Parse(filter, facts) = Readings(filter, facts) /\ Parse(filter, facts) # {}

\* The nodes of an object: the path and the value of all that is in it, but of an object
\* in it only that it is one.  Of what "values" has for an attribute the values are nodes,
\* whatever is in them.
Node(doc, path) ==
  LET v == Reached(doc, path) IN [at |-> path, is |-> IF IsDict(v) THEN [dict |-> NoDoc] ELSE v]
NodesOf(doc) ==
  {Node(doc, path) : path \in {path \in Paths(doc) : \/ path = <<"values">>
                                                     \/ path # <<>> /\ path[1] # "values"}}
  \cup {[at |-> <<"values", key[1], key[2], key[3]>>, is |-> Indexed(doc)[key]] :
          key \in DOMAIN Indexed(doc)}
  \cup {[at |-> <<"values", a>>, is |-> JsonNull] :
          a \in {a \in DOMAIN ValuesOf(doc) : ~IsList(ValuesOf(doc)[a])}}

\* A node of a patch takes the place of one in the document: of the one at its path, and
\* unless it is an object of all those below.
Replaces(new, old) == IsPrefix(new.at, old.at) /\ (IsDict(new.is) => new.at = old.at)

\* Objects called "values" further down, such as the targets of an association type with
\* this code, are merged as if they had values in them.
MergesFurtherDown(doc, patch) ==
  \E path \in Paths(doc) \cap Paths(patch) :
    /\ Len(path) > 1 /\ Last(path) = "values"
    /\ IsDict(Reached(doc, path)) /\ IsDict(Reached(patch, path))

\* A PATCH sets what it names, one by one down to the values of an attribute for a
\* locale and a scope, and leaves everything else.  (Entries that cannot be indexed
\* are stored with the first values of an attribute and dropped when it has some.)
PatchMeans ==
  \A doc \in stored, patch \in Payloads[kind] :
    /\ ~RaisesPatchTypeError(doc, patch) /\ ~MergesFurtherDown(doc, patch)
    /\ ~CannotIndex(doc) /\ ~CannotIndex(patch)
    => LET named == NodesOf(patch)
           kept == {old \in NodesOf(doc) : ~\E new \in named : Replaces(new, old)}
           Told(nodes) == {node \in nodes : node.is # JsonNull} IN
       Told(NodesOf(ApplyPatch(doc, patch))) = Told(kept \cup named)

=============================================================================
