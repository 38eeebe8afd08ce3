------------------------------- MODULE Catalog -------------------------------
(***************************************************************************)
(* Attributes and families, and the entities below them: the options of an *)
(* attribute and the variants of a family.  routers/rest.py: the general   *)
(* branch of create_item, patch_item, patch_multiple_items and delete_item *)
(* for the parents; create_sub_item, patch_sub_item and                    *)
(* patch_multiple_sub_items for the children, which have no DELETE.        *)
(*                                                                         *)
(* An option needs an attribute of a select type, a family needs its       *)
(* attributes to exist, a variant needs its attributes in its family.  No  *)
(* foreign key says so: handlers look before they write.  Requests run as  *)
(* in ProductStore: async handlers on the event loop, DELETE in a thread.  *)
(* But the handlers of options look at the attribute before they await the *)
(* body, and at an await the loop may run others.                          *)
(***************************************************************************)
EXTENDS Naturals, Sequences

CONSTANTS
  Requests,                                \* connections of clients
  Attributes, Families, Options, Variants, \* codes
  SelectTypes, OtherTypes,                 \* types of attributes
  Labels,   \* contents of an option
  Bad,      \* a scalar such as 0 where the entity has a list or an object
  Nulled,   \* contents sent as JSON null
  Absent,   \* a field that a body or a row does not have
  Null,     \* no request, no row, no call, no parent
  Calls,    \* the requests clients send
  Stored    \* the rows there may be at the start

Kinds == {"attributes", "families", "options", "variants"}
Codes(kind) ==
  CASE kind = "attributes" -> Attributes
    [] kind = "families"   -> Families
    [] kind = "options"    -> Options
    [] kind = "variants"   -> Variants

\* The fields the checks look at: the type of an attribute, the attributes of a
\* family, the labels of an option, the attributes of all the sets of a variant
\* (none if it has no sets).
Contents(kind) ==
  CASE kind = "attributes" -> SelectTypes \cup OtherTypes
    [] kind = "options"    -> Labels
    [] OTHER               -> SUBSET Attributes

Parents == Attributes \cup Families
Children == Options \cup Variants
Keys == Parents \cup Children
KindOf(k) == CHOOSE kind \in Kinds : k \in Codes(kind)
ParentsOf(kind) ==
  CASE kind = "options" -> Attributes [] kind = "variants" -> Families [] OTHER -> {Null}

Rows(kind) == [parent : ParentsOf(kind), val : Contents(kind) \cup {Absent}]
IsTable(T) ==
  /\ T = [k \in Keys |-> T[k]]
  /\ \A k \in Keys : T[k] = Null \/ T[k] \in Rows(KindOf(k))

\* A request names the parent in its URL; POST and batches name the key in the body.
Lines(kind) == [key : Codes(kind) \cup {Absent},
                val : Contents(kind) \cup {Absent, Nulled, Bad}]
IsCall(c) ==
  /\ c.verb \in {"post", "patch", "batch", "delete"} /\ c.kind \in Kinds
  /\ c.parent \in ParentsOf(c.kind) /\ c.lines \in Seq(Lines(c.kind))
  /\ c.lines # <<>> /\ (c.verb # "batch" => Len(c.lines) = 1)
  /\ c.verb \in {"patch", "delete"} => c.lines[1].key # Absent
  /\ c.verb = "delete" => c.kind \in {"attributes", "families"}
  \* not modelled: an empty batch, which does nothing, a null for the type of an
  \* attribute, a batch of parents with Bad
  /\ \A n \in DOMAIN c.lines :
       /\ c.kind = "attributes" => c.lines[n].val # Nulled
       /\ c.verb = "batch" /\ c.parent = Null => c.lines[n].val # Bad

\* What the request c makes of one of its lines.
Documents(c) == [key : Codes(c.kind), parent : {c.parent},
                 val : Contents(c.kind) \cup {Absent, Nulled, Bad}, isNew : BOOLEAN]

ASSUME CatalogAssumption ==
  /\ \A k1, k2 \in Kinds : k1 # k2 => Codes(k1) \cap Codes(k2) = {}
  /\ Null \notin Keys \cup Requests /\ Absent \notin Keys
  /\ \A kind \in Kinds : Null \notin Rows(kind)
  /\ Null \notin Calls /\ \A c \in Calls : IsCall(c)
  /\ \A T \in Stored : IsTable(T)

VARIABLES
  table,    \* the committed rows, by key
  mine,     \* what the open transaction of each request has written, by key
  loop,     \* the request whose async handler occupies the event loop
  pc,       \* where each request is
  call,     \* what each request asks for
  at,       \* the line it is working on
  doc,      \* the document it is going to write, and whether it found no row
  reply,    \* the HTTP status it has settled on
  results,  \* the status of each line of its batch so far
  tasks,    \* the events its background tasks will dispatch
  moved     \* history: the requests whose parent others have changed meanwhile

vars == <<table, mine, loop, pc, call, at, doc, reply, results, tasks, moved>>

----------------------------------------------------------------------------
(* Rows and statements. *)

Nothing == [k \in {} |-> Null]
View(r) == [k \in Keys |-> IF k \in DOMAIN mine[r] THEN mine[r][k] ELSE table[k]]
Free(r, k) == \A h \in Requests \ {r} : k \notin DOMAIN mine[h]

\* Variant: the row of a child is looked up by its id alone.
FoundById(r, k) == View(r)[k] # Null

\* SELECT ... WHERE id = k, for children also parent_id = the parent in the URL.
Found(r, k) == View(r)[k] # Null /\ View(r)[k].parent = call[r].parent

\* apply_patch refuses null or a scalar for an object or a list; the type of an
\* attribute is neither.
IsJson(v) == v \notin SelectTypes \cup OtherTypes \cup {Absent}
RaisesPatchTypeError(old, new) == IsJson(old) /\ new \in {Nulled, Bad}
PatchVal(old, new) == IF new = Absent THEN old ELSE new
OrEmpty(v) == IF v \in {Absent, Nulled, Bad} THEN {} ELSE v

\* Variants: the upsert of a child updates its data only; a null is stored as it came.
UpsertedInPlace(T, d) ==
  [parent |-> IF T[d.key] # Null THEN T[d.key].parent ELSE d.parent,
   val |-> IF d.val = Nulled THEN Absent ELSE d.val]

UpsertedAsIs(T, d) ==
  [parent |-> d.parent,
   val |-> IF d.val = Absent /\ d.key \in Parents /\ T[d.key] # Null THEN T[d.key].val
           ELSE d.val]

\* INSERT ... ON CONFLICT (id) DO UPDATE: a column that the document does not have
\* stays as it is, but a child is one document, replaced whole, parent and all.
Upserted(T, d) ==
  [parent |-> d.parent,
   val |-> IF d.val = Nulled THEN Absent
           ELSE IF d.val = Absent /\ d.key \in Parents /\ T[d.key] # Null THEN T[d.key].val
           ELSE d.val]

\* _validate_family: its attributes exist.  _validate_family_variant_attribute_sets:
\* unless it has none, the family exists and has the attributes of the variant.
ReferencesHold(T, d) ==
  /\ d.key \in Families => \A a \in OrEmpty(d.val) : T[a] # Null
  /\ d.key \in Variants /\ OrEmpty(d.val) # {} =>
       T[d.parent] # Null /\ OrEmpty(d.val) \subseteq OrEmpty(T[d.parent].val)

----------------------------------------------------------------------------
(* Requests and the event loop. *)

At(r, stage, verbs) == pc[r] = stage /\ call[r].verb \in verbs
Goto(r, stage) == pc' = [pc EXCEPT ![r] = stage]
Line(r) == call[r].lines[at[r]]

Settle(r, stage, code) ==
  /\ Goto(r, stage)
  /\ reply' = [reply EXCEPT ![r] = code]
  /\ loop' = IF loop = r THEN Null ELSE loop

Raise(r, code) ==
  Settle(r, "raised", code) /\ UNCHANGED <<table, mine, call, at, doc, results, tasks, moved>>

Write(r, k, row) ==
  mine' = [mine EXCEPT ![r] = [j \in DOMAIN @ \cup {k} |-> IF j = k THEN row ELSE @[j]]]

Announce(r, action, d) ==
  tasks' = [tasks EXCEPT ![r] =
              Append(@, [action |-> action, key |-> d.key, parent |-> d.parent])]

\* T is committed by r.
Store(r, T) ==
  /\ table' = T
  /\ moved' = moved \cup {q \in Requests \ {r} :
                  call[q] # Null /\ call[q].parent # Null
                    /\ T[call[q].parent] # table[call[q].parent]}

\* On to the next line of the batch, or to the commit.
NextLine(r, status) ==
  /\ results' = [results EXCEPT ![r] = Append(@, status)]
  /\ at' = [at EXCEPT ![r] = @ + 1]
  /\ Goto(r, IF at[r] = Len(call[r].lines) THEN "commit" ELSE "read")
  /\ UNCHANGED <<table, loop, call, reply, doc, moved>>

\* A line that cannot be taken: a batch reports it and goes on.
Refuse(r, code) ==
  IF call[r].verb = "batch" THEN NextLine(r, code) /\ UNCHANGED <<mine, tasks>>
  ELSE Raise(r, code)

Receive(r, c) ==
  /\ pc[r] = "idle" /\ loop = Null
  /\ Goto(r, IF c.verb = "delete" THEN "find" ELSE "received")
  /\ call' = [call EXCEPT ![r] = c]
  /\ at' = [at EXCEPT ![r] = 1]
  /\ UNCHANGED <<table, mine, loop, doc, reply, results, tasks, moved>>

StartHandler(r) ==
  /\ pc[r] = "received" /\ loop = Null
  /\ loop' = r
  /\ Goto(r, IF call[r].kind = "options" THEN "parent" ELSE "read")
  /\ UNCHANGED <<table, mine, call, at, doc, reply, results, tasks, moved>>

\* _validate_attribute_option_parent_type, and then the await of the body, at which
\* the loop may turn to other requests.
CheckParent(r) ==
  LET row == View(r)[call[r].parent] IN
  /\ pc[r] = "parent"
  /\ \/ row = Null /\ Raise(r, 404)
     \/ row # Null /\ row.val \notin SelectTypes /\ Raise(r, 422)
     \/ /\ row # Null /\ row.val \in SelectTypes
        /\ Goto(r, "body")
        /\ loop' = Null
        /\ moved' = moved \ {r}
        /\ UNCHANGED <<table, mine, call, at, doc, reply, results, tasks>>

BodyArrives(r) ==
  /\ pc[r] = "body" /\ loop = Null
  /\ loop' = r
  /\ Goto(r, "read")
  /\ UNCHANGED <<table, mine, call, at, doc, reply, results, tasks, moved>>

----------------------------------------------------------------------------
(* POST, PATCH and the batch PATCH. *)

\* The document and where it came from.  A POST to a child does not look for a row.
Prepare(r, found, v) ==
  /\ doc' = [doc EXCEPT ![r] =
               [key |-> Line(r).key, parent |-> call[r].parent, val |-> v, isNew |-> ~found]]
  /\ Goto(r, "check")
  /\ UNCHANGED <<table, mine, loop, call, at, reply, results, tasks, moved>>

ReadPost(r) ==
  /\ At(r, "read", {"post"})
  /\ \/ Line(r).key = Absent /\ Raise(r, 422)
     \/ Line(r).key \in Parents /\ View(r)[Line(r).key] # Null /\ Raise(r, 409)
     \/ /\ Line(r).key # Absent
        /\ Line(r).key \in Parents => View(r)[Line(r).key] = Null
        /\ Prepare(r, FALSE, Line(r).val)

ReadPatch(r) ==
  LET k == Line(r).key
      old == View(r)[k].val IN
  /\ At(r, "read", {"patch", "batch"})
  /\ \/ k = Absent /\ Refuse(r, 400)
     \/ k # Absent /\ ~Found(r, k) /\ Prepare(r, FALSE, Line(r).val)
     \/ k # Absent /\ Found(r, k) /\ RaisesPatchTypeError(old, Line(r).val) /\ Raise(r, 422)
     \/ /\ k # Absent /\ Found(r, k) /\ ~RaisesPatchTypeError(old, Line(r).val)
        /\ Prepare(r, TRUE, PatchVal(old, Line(r).val))

\* Variant: only the first line of a batch is checked.
CheckFirst(r) ==
  /\ pc[r] = "check"
  /\ IF ~ReferencesHold(View(r), doc[r]) /\ at[r] = 1 THEN Refuse(r, 422)
     ELSE Goto(r, "write") /\ UNCHANGED <<table, mine, loop, call, at, doc, reply, results, tasks, moved>>

Check(r) ==
  /\ pc[r] = "check"
  /\ IF ReferencesHold(View(r), doc[r])
     THEN Goto(r, "write") /\ UNCHANGED <<table, mine, loop, call, at, doc, reply, results, tasks, moved>>
     ELSE Refuse(r, 422)

\* What the model refuses ends even a batch.  The upsert waits for a row that a
\* transaction has written.
Save(r) ==
  LET d == doc[r]
      action == IF d.isNew THEN "created" ELSE "updated" IN
  /\ pc[r] = "write" /\ call[r].verb # "delete"
  /\ \/ d.val = Bad /\ Raise(r, 422)
     \/ /\ d.val # Bad /\ Free(r, d.key)
        /\ Announce(r, action, d)
        /\ IF call[r].verb = "batch"
           THEN /\ Write(r, d.key, Upserted(View(r), d))
                /\ NextLine(r, IF d.isNew THEN 201 ELSE 204)
           ELSE /\ Store(r, [table EXCEPT ![d.key] = Upserted(table, d)])
                /\ Settle(r, "done", IF call[r].verb = "post" THEN 201 ELSE 204)
                /\ UNCHANGED <<mine, call, at, doc, results>>

----------------------------------------------------------------------------
(* The commit of a batch, and DELETE. *)

Commit(r) ==
  /\ At(r, "commit", {"batch"})
  /\ Store(r, View(r))
  /\ mine' = [mine EXCEPT ![r] = Nothing]
  /\ Settle(r, "done", 200)
  /\ UNCHANGED <<call, at, doc, results, tasks>>

DeleteFind(r) ==
  LET k == Line(r).key IN
  /\ At(r, "find", {"delete"})
  /\ \/ table[k] = Null /\ Raise(r, 404)
     \/ /\ table[k] # Null
        /\ Goto(r, "delete")
        /\ UNCHANGED <<table, mine, loop, call, at, doc, reply, results, tasks, moved>>

\* The DELETE of a row that is there when it starts waits for whoever has written
\* it.  Children of the row, and families that name it, stay as they are.
DeleteRow(r) ==
  LET k == Line(r).key IN
  /\ At(r, "delete", {"delete"})
  /\ table[k] # Null => Free(r, k)
  /\ IF table[k] # Null THEN Write(r, k, Null) ELSE UNCHANGED mine
  /\ Goto(r, "commit")
  /\ UNCHANGED <<table, loop, call, at, doc, reply, results, tasks, moved>>

DeleteCommit(r) ==
  /\ At(r, "commit", {"delete"})
  /\ Store(r, View(r))
  /\ mine' = [mine EXCEPT ![r] = Nothing]
  /\ Announce(r, "deleted", [key |-> Line(r).key, parent |-> Null])
  /\ Settle(r, "done", 204)
  /\ UNCHANGED <<call, at, doc, results>>

----------------------------------------------------------------------------
(* The exit of get_db, and the answer. *)

DispatchExit(r) ==
  /\ pc[r] = "raised" /\ loop = Null
  /\ Goto(r, "exiting")
  /\ UNCHANGED <<table, mine, loop, call, at, doc, reply, results, tasks, moved>>

Rollback(r) ==
  /\ pc[r] = "exiting"
  /\ mine' = [mine EXCEPT ![r] = Nothing]
  /\ tasks' = [tasks EXCEPT ![r] = <<>>]
  /\ Goto(r, "done")
  /\ UNCHANGED <<table, loop, call, at, doc, reply, results, moved>>

Respond(r) ==
  /\ pc[r] = "done" /\ loop = Null
  /\ Goto(r, "idle")
  /\ call' = [call EXCEPT ![r] = Null]
  /\ doc' = [doc EXCEPT ![r] = Null]
  /\ reply' = [reply EXCEPT ![r] = 0]
  /\ results' = [results EXCEPT ![r] = <<>>]
  /\ tasks' = [tasks EXCEPT ![r] = <<>>]
  /\ at' = [at EXCEPT ![r] = 1]
  /\ moved' = moved \ {r}
  /\ UNCHANGED <<table, mine, loop>>

Server(r) ==
  \/ StartHandler(r) \/ CheckParent(r) \/ BodyArrives(r)
  \/ ReadPost(r) \/ ReadPatch(r) \/ Check(r) \/ Save(r) \/ Commit(r)
  \/ DeleteFind(r) \/ DeleteRow(r) \/ DeleteCommit(r)
  \/ DispatchExit(r) \/ Rollback(r) \/ Respond(r)

Next == \E r \in Requests : Server(r) \/ \E c \in Calls : Receive(r, c)

Init ==
  /\ table \in Stored
  /\ mine = [r \in Requests |-> Nothing]
  /\ loop = Null
  /\ pc = [r \in Requests |-> "idle"]
  /\ call = [r \in Requests |-> Null]
  /\ at = [r \in Requests |-> 1]
  /\ doc = [r \in Requests |-> Null]
  /\ reply = [r \in Requests |-> 0]
  /\ results = [r \in Requests |-> <<>>]
  /\ tasks = [r \in Requests |-> <<>>]
  /\ moved = {}

Spec == Init /\ [][Next]_vars

----------------------------------------------------------------------------
(* Properties. *)

Stages == {"idle", "received", "parent", "body", "read", "check", "write", "find",
           "delete", "commit", "raised", "exiting", "done"}

\* The types of the variables.
TypeOK ==
  /\ IsTable(table)
  /\ \A r \in Requests : \A k \in DOMAIN mine[r] :
       k \in Keys /\ (mine[r][k] = Null \/ mine[r][k] \in Rows(KindOf(k)))
  /\ loop \in Requests \cup {Null}
  /\ pc \in [Requests -> Stages]
  /\ \A r \in Requests :
       /\ pc[r] = "idle" <=> call[r] = Null
       /\ call[r] \in Calls \cup {Null}
       /\ doc[r] \in {Null} \cup (IF call[r] = Null THEN {} ELSE Documents(call[r]))
  /\ reply \in [Requests -> {0, 200, 201, 204, 404, 409, 422}]
  /\ results \in [Requests -> Seq({201, 204, 400, 422})]
  /\ moved \subseteq {r \in Requests : call[r] # Null}

\* r has just committed, and is going to dispatch its events.
Commits(r) == pc[r] # "done" /\ pc'[r] = "done" /\ reply'[r] \in {200, 201, 204}

\* A variant that is committed, alone or with a batch, has only attributes of its
\* family as the family is at that moment, unless a DELETE took the family away
\* after the check: PATCHes of families come before or after, never in between.  An
\* option is committed below an attribute that has options, unless others changed
\* the attribute after its check, while the body of the request was awaited
\* (rest.py:1264) or in a thread.
ChildrenFit ==
  [][\A k \in Children :
       table'[k] # table[k] =>
         LET p == table'[k].parent
             row == table[p] IN
         IF k \in Variants
         THEN row # Null => OrEmpty(table'[k].val) \subseteq OrEmpty(row.val)
         ELSE \/ row # Null /\ row.val \in SelectTypes
              \/ \E r \in moved : Commits(r) /\ call[r].parent = p]_vars

\* The first event about a row says what was there when the request committed:
\* "created", that there was no such row, or for a child none below that parent;
\* "updated" of a child, that there was one.  Both were read before, by handlers
\* between which others ran.  A POST to a child announces a creation in any case.
EventsMatchRows ==
  [][\A r \in Requests : Commits(r) =>
       \A n \in DOMAIN tasks'[r] :
         LET e == tasks'[r][n]
             known == table[e.key] # Null /\ table[e.key].parent = e.parent IN
         (\A m \in 1..(n - 1) : tasks'[r][m].key # e.key) =>
           /\ e.action = "created" /\ known => call[r].verb = "post" /\ e.key \in Children
           /\ e.action = "updated" /\ ~known => e.key \in Parents]_vars

\* The rows change by what requests announce when they commit, and by nothing else:
\* what a POST, a PATCH or an accepted line of a batch announces is stored, below the
\* parent it was announced with; refused requests, and lines that a batch reports as
\* refused, change nothing, also when other lines had been written.
AcceptedIsStored ==
  [][/\ \A r \in Requests : Commits(r) /\ call[r].verb # "delete" =>
          \A n \in DOMAIN tasks'[r] :
            LET e == tasks'[r][n] IN table'[e.key] # Null /\ table'[e.key].parent = e.parent
     /\ \A k \in Keys : table'[k] # table[k] =>
          \E r \in Requests : Commits(r) /\ \E n \in DOMAIN tasks'[r] : tasks'[r][n].key = k]_vars

=============================================================================
