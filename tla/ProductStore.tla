---------------------------- MODULE ProductStore ----------------------------
(***************************************************************************)
(* The two endpoints over the products table: `products', which names a    *)
(* product by its identifier (the column id), and `products-uuid', which   *)
(* names it by its uuid.  routers/rest.py: create_item, patch_item,        *)
(* patch_multiple_items and delete_item.                                   *)
(*                                                                         *)
(* POST, PATCH and the batch PATCH are `async def': they run on the event  *)
(* loop, which stands still while they wait for the database.  DELETE is a *)
(* plain `def': it runs in a worker thread, its statements interleaved     *)
(* with whatever the loop does.  A handler that raises leaves its          *)
(* transaction to the exit of get_db, which the loop dispatches.           *)
(*                                                                         *)
(* Each request runs one READ COMMITTED transaction.  A statement sees the *)
(* committed rows and the transaction's own writes, and waits for a row,   *)
(* or a value of a unique column, that an open transaction has written.    *)
(***************************************************************************)
EXTENDS Naturals, Sequences

CONSTANTS
  Requests,   \* connections a client sends its requests on, one at a time
  Ids,        \* product identifiers
  Blank,      \* the empty identifier
  Uuids,      \* product uuids
  Vals,       \* contents of a product: values, family, categories and so on
  Invalid,    \* the contents that value and family validation rejects
  Nulled,     \* a field sent as JSON null; a uuid also as "", or as no string
  Absent,     \* a field that a body or a row does not have
  Null,       \* no request, no row, no call
  Calls,      \* the requests clients send
  Stored      \* the contents the products table may have at the start

Columns == Ids \cup {Blank}
Rows == [uuid : Uuids, val : Vals \cup {Absent}]
Tables == [Columns -> Rows \cup {Null}]

\* No two products have the same uuid: the UNIQUE constraint of products.uuid.
UuidsDiffer(T) ==
  \A i, j \in Columns : i # j /\ T[i] # Null /\ T[j] # Null => T[i].uuid # T[j].uuid

Entities == {"products", "products-uuid"}
Codes == Ids \cup Uuids
Body == [identifier : Ids \cup {Absent, Nulled}, uuid : Uuids \cup {Absent, Nulled},
         val : Vals \cup {Absent, Nulled}]

\* `isinstance(x, str) and x'.
Given(x) == x \notin {Absent, Nulled}

\* What a handler is going to write.
Documents == [id : Columns, uuid : Uuids, val : Vals \cup {Absent, Nulled}]

\* A POST has its code in the body; a batch PATCH has it in each line.
AllCalls ==
  [verb : {"post", "batch"}, entity : Entities, lines : Seq(Body)]
    \cup [verb : {"patch"}, entity : Entities, code : Codes, lines : Seq(Body)]
    \cup [verb : {"delete"}, entity : Entities, code : Codes]

ASSUME StoreAssumption ==
  /\ Null \notin Requests \cup Rows \cup Columns \cup Documents
  /\ Blank \notin Ids \cup {Nulled} /\ Absent \notin Columns \cup Uuids \cup Vals
  /\ Nulled \notin Vals \cup Ids \cup Uuids \cup {Absent, Null}
  /\ Ids \cap Uuids = {}
  /\ Stored \subseteq Tables
  /\ \A T \in Stored : UuidsDiffer(T) /\ T[Blank] = Null

ASSUME CallsAssumption ==
  /\ Null \notin Calls
  /\ \A c \in Calls :
       /\ c \in AllCalls
       /\ c.verb \in {"post", "patch"} => Len(c.lines) = 1
       /\ c.verb = "batch" => c.lines # <<>>
       /\ c.verb \in {"patch", "delete"} =>
            c.code \in IF c.entity = "products" THEN Ids ELSE Uuids

VARIABLES
  table,    \* the committed rows of the products table, by id
  mine,     \* what the open transaction of each request has written, by id
  loop,     \* the request whose async handler occupies the event loop
  pc,       \* where each request is
  call,     \* what each request asks for
  at,       \* the line it is working on
  found,    \* the id of the row its SELECT found
  doc,      \* the document it is going to write
  reply,    \* the HTTP status it has settled on
  results,  \* the status of each line of its batch so far
  tasks,    \* the events its background tasks will dispatch
  gone      \* history: ids and uuids DELETEs took away since the loop was taken

vars == <<table, mine, loop, pc, call, at, found, doc, reply, results, tasks, gone>>
committed == <<table, gone>>
local == <<at, found, doc, results>>

----------------------------------------------------------------------------
(* Rows. *)

Nothing == [i \in {} |-> Null]

\* What a statement of r sees.
View(r) == [i \in Columns |-> IF i \in DOMAIN mine[r] THEN mine[r][i] ELSE table[i]]

\* SELECT ... WHERE id = code, or WHERE uuid = code: the id of the row or Null.
ByUuid(T, u) ==
  IF \E i \in Columns : T[i] # Null /\ T[i].uuid = u
  THEN CHOOSE i \in Columns : T[i] # Null /\ T[i].uuid = u
  ELSE Null

Entity(r) == call[r].entity

Lookup(T, entity, code) ==
  IF entity = "products-uuid" THEN ByUuid(T, code)
  ELSE IF T[code] # Null THEN code ELSE Null

\* h keeps r from writing a row with this id and uuid.
Blocks(h, i, u) ==
  \/ i \in DOMAIN mine[h]
  \/ \E j \in DOMAIN mine[h] :
       \/ table[j] # Null /\ table[j].uuid = u
       \/ mine[h][j] # Null /\ mine[h][j].uuid = u

Free(r, i, u) == \A h \in Requests \ {r} : ~Blocks(h, i, u)

\* apply_patch on the contents, and the error it raises on null for an object.
PatchVal(old, new) == IF new = Absent THEN old ELSE new
RaisesPatchTypeError(old, new) == old # Absent /\ new = Nulled

\* Variant: a null is stored as it came.
UpsertedAsIs(T, d) ==
  [uuid |-> d.uuid,
   val |-> IF d.val = Absent /\ T[d.id] # Null THEN T[d.id].val ELSE d.val]

\* INSERT ... ON CONFLICT (id) DO UPDATE of the columns the document has.
Upserted(T, d) ==
  [uuid |-> d.uuid,
   val |-> IF d.val = Nulled THEN Absent
           ELSE IF d.val = Absent /\ T[d.id] # Null THEN T[d.id].val ELSE d.val]

UniqueViolation(T, d) == \E j \in Columns \ {d.id} : T[j] # Null /\ T[j].uuid = d.uuid

\* _ensure_product_uuid: the uuid given, or a new one that no product has.
EnsuredUuids(r, u) ==
  IF Given(u) THEN {u} ELSE {v \in Uuids : ByUuid(View(r), v) = Null}

\* The uuid of a row that a body is laid over.  PATCH and batch do not validate the
\* body: one that is null, empty or no string wins over the row's, and makes a new one.
PatchedUuids(r, row, body) ==
  IF Entity(r) = "products-uuid" \/ body.uuid = Absent
  THEN {row.uuid} ELSE EnsuredUuids(r, body.uuid)

----------------------------------------------------------------------------
(* Requests and the event loop. *)

Async(r) == call[r].verb # "delete"
At(r, stage, verb) == pc[r] = stage /\ call[r].verb = verb
Goto(r, stage) == pc' = [pc EXCEPT ![r] = stage]
Line(r) == call[r].lines[at[r]]

\* The field of a body the entity is addressed by: config["pk_field"].
PkField(entity, body) == IF entity = "products" THEN body.identifier ELSE body.uuid

\* The handler of r returns or raises with this status.  What it has written
\* stays in its transaction: Commit and Abort end it.
Settle(r, stage, code) ==
  /\ Goto(r, stage)
  /\ reply' = [reply EXCEPT ![r] = code]
  /\ loop' = IF loop = r THEN Null ELSE loop

Raise(r, code) == Settle(r, "raised", code) /\ UNCHANGED <<committed, call, local, tasks>>

Write(r, i, row) ==
  mine' = [mine EXCEPT ![r] = [j \in DOMAIN @ \cup {i} |-> IF j = i THEN row ELSE @[j]]]

Announce(r, action, d) ==
  tasks' = [tasks EXCEPT ![r] = Append(@, [action |-> action, id |-> d.id, uuid |-> d.uuid])]

Continue(r, stage) == Goto(r, stage) /\ UNCHANGED <<committed, loop, call, reply>>

\* A uuid or an id, the documents to write and the row they came from.
Prepare(r, row, d) ==
  /\ found' = [found EXCEPT ![r] = row]
  /\ doc' = [doc EXCEPT ![r] = d]

Receive(r, c) ==
  /\ pc[r] = "idle"
  /\ loop = Null
  /\ Goto(r, IF c.verb = "delete" THEN "read" ELSE "received")
  /\ call' = [call EXCEPT ![r] = c]
  /\ at' = [at EXCEPT ![r] = 1]
  /\ UNCHANGED <<committed, mine, loop, found, doc, reply, results, tasks>>

StartHandler(r) ==
  /\ pc[r] = "received"
  /\ loop = Null
  /\ loop' = r
  /\ Goto(r, "read")
  /\ gone' = {}
  /\ UNCHANGED <<table, mine, call, local, reply, tasks>>

----------------------------------------------------------------------------
(* create_item: both entities look for the identifier, then for the uuid. *)

\* Here the model of the entity is applied first: it refuses a uuid that is no string.
PostRead(r) ==
  LET body == Line(r)
      named == Given(body.identifier) /\ Given(PkField(Entity(r), body)) IN
  /\ At(r, "read", "post")
  /\ UNCHANGED <<mine, results>>
  /\ \/ /\ ~named \/ body.uuid = Nulled
        /\ Raise(r, 422)
     \/ /\ named
        /\ View(r)[body.identifier] # Null
        /\ Raise(r, 409)
     \/ /\ named
        /\ View(r)[body.identifier] = Null
        /\ \E u \in EnsuredUuids(r, body.uuid) :
             Prepare(r, Null, [id |-> body.identifier, uuid |-> u, val |-> body.val])
        /\ Continue(r, "check")
        /\ UNCHANGED <<at, tasks>>

\* Variant: a POST does not look for its uuid.
PostUnchecked(r) ==
  /\ At(r, "check", "post")
  /\ UNCHANGED <<mine, results, local, tasks>>
  /\ Continue(r, "write")

PostCheck(r) ==
  /\ At(r, "check", "post")
  /\ UNCHANGED <<mine, results>>
  /\ IF ByUuid(View(r), doc[r].uuid) # Null THEN Raise(r, 409)
     ELSE Continue(r, "write") /\ UNCHANGED <<local, tasks>>

(* The upsert and the commit that ends a POST or a PATCH.  The value and family
   checks come before; a unique violation aborts the transaction. *)

SingleWrite(r, code, action) ==
  LET d == doc[r] IN
  /\ UNCHANGED <<call, local>>
  /\ \/ /\ d.val \in Invalid
        /\ Settle(r, "raised", 422)
        /\ UNCHANGED <<committed, mine, tasks>>
     \/ /\ d.val \notin Invalid /\ Free(r, d.id, d.uuid)
        /\ UniqueViolation(View(r), d)
        /\ mine' = [mine EXCEPT ![r] = Nothing]
        /\ Settle(r, "raised", 500)
        /\ UNCHANGED <<committed, tasks>>
     \/ /\ d.val \notin Invalid /\ Free(r, d.id, d.uuid)
        /\ ~UniqueViolation(View(r), d)
        /\ table' = [View(r) EXCEPT ![d.id] = Upserted(View(r), d)]
        /\ mine' = [mine EXCEPT ![r] = Nothing]
        /\ Announce(r, action, d)
        /\ Settle(r, "done", code)
        /\ UNCHANGED gone

PostWrite(r) == At(r, "write", "post") /\ SingleWrite(r, 201, "created")

----------------------------------------------------------------------------
(* patch_item. *)

\* No row: a PATCH creates.  products-uuid needs an identifier for it.
PatchReadMissing(r) ==
  LET body == Line(r) IN
  /\ At(r, "read", "patch")
  /\ Lookup(View(r), Entity(r), call[r].code) = Null
  /\ UNCHANGED <<mine, results>>
  /\ \/ /\ Entity(r) = "products-uuid" /\ ~Given(body.identifier)
        /\ Raise(r, 422)
     \/ /\ Entity(r) = "products-uuid" /\ Given(body.identifier)
        /\ Prepare(r, Null, [id |-> body.identifier, uuid |-> call[r].code, val |-> body.val])
        /\ Continue(r, "check")
        /\ UNCHANGED <<at, tasks>>
     \/ /\ Entity(r) = "products"
        /\ \E u \in EnsuredUuids(r, body.uuid) :
             Prepare(r, Null, [id |-> call[r].code, uuid |-> u, val |-> body.val])
        /\ Continue(r, "check")
        /\ UNCHANGED <<at, tasks>>

\* Variant: a patch that names no uuid gets a new one.
PatchWithNewUuid(r) ==
  LET body == Line(r)
      i == Lookup(View(r), Entity(r), call[r].code) IN
  /\ At(r, "read", "patch")
  /\ i # Null
  /\ \E u \in EnsuredUuids(r, body.uuid) :
       Prepare(r, i, [id |-> i, uuid |-> u, val |-> PatchVal(View(r)[i].val, body.val)])
  /\ Continue(r, "check")
  /\ UNCHANGED <<mine, results, at, tasks>>

\* The row and the patch on it.  The code of the URL wins over the body.
PatchReadRow(r) ==
  LET body == Line(r)
      i == Lookup(View(r), Entity(r), call[r].code)
      row == View(r)[i] IN
  /\ At(r, "read", "patch")
  /\ i # Null
  /\ UNCHANGED <<mine, results>>
  /\ IF RaisesPatchTypeError(row.val, body.val) THEN Raise(r, 422)
     ELSE /\ \E u \in PatchedUuids(r, row, body) :
               Prepare(r, i,
                 [id |-> IF Entity(r) = "products" \/ ~Given(body.identifier)
                         THEN i ELSE body.identifier,
                  uuid |-> u,
                  val |-> PatchVal(row.val, body.val)])
          /\ Continue(r, "check")
          /\ UNCHANGED <<at, tasks>>

\* products: another product has the uuid.  products-uuid: the identifier the
\* product is to have is taken; if it is free and the product has another one,
\* the old row is deleted first.
PatchCheck(r) ==
  LET d == doc[r]
      holder == ByUuid(View(r), d.uuid) IN
  /\ At(r, "check", "patch")
  /\ UNCHANGED <<mine, results>>
  /\ IF \/ Entity(r) = "products" /\ holder \notin {Null, d.id}
        \/ Entity(r) = "products-uuid" /\ found[r] # d.id /\ View(r)[d.id] # Null
     THEN Raise(r, 409)
     ELSE /\ Continue(r, IF Entity(r) = "products-uuid" /\ found[r] \notin {Null, d.id}
                         THEN "rename" ELSE "write")
          /\ UNCHANGED <<local, tasks>>

RenameDelete(r) ==
  LET i == found[r] IN
  /\ At(r, "rename", "patch")
  /\ table[i] # Null => \A h \in Requests \ {r} : i \notin DOMAIN mine[h]
  /\ IF table[i] # Null THEN Write(r, i, Null) ELSE UNCHANGED mine
  /\ Continue(r, "write")
  /\ UNCHANGED <<local, tasks>>

\* Variant: every PATCH announces a creation.
PatchCreates(r) == At(r, "write", "patch") /\ SingleWrite(r, 204, "created")

PatchWrite(r) ==
  /\ At(r, "write", "patch")
  /\ SingleWrite(r, 204, IF found[r] = Null THEN "created" ELSE "updated")

----------------------------------------------------------------------------
(* patch_multiple_items: one transaction for all the lines, none of which is
   validated.  A line that cannot be taken is reported and skipped. *)

NextLine(r, status) ==
  /\ results' = [results EXCEPT ![r] = Append(@, status)]
  /\ at' = [at EXCEPT ![r] = @ + 1]
  /\ Goto(r, IF at[r] = Len(call[r].lines) THEN "commit" ELSE "read")
  /\ UNCHANGED <<committed, loop, call, reply>>

BatchRead(r) ==
  LET body == Line(r)
      e == Entity(r)
      code == PkField(e, body)
      i == Lookup(View(r), e, code)
      row == View(r)[i] IN
  /\ At(r, "read", "batch")
  /\ UNCHANGED mine
  /\ \/ /\ ~Given(code)
        /\ NextLine(r, 400)
        /\ UNCHANGED <<found, doc, tasks>>
     \/ /\ Given(code) /\ i = Null
        /\ e = "products-uuid" /\ ~Given(body.identifier)
        /\ NextLine(r, 400)
        /\ UNCHANGED <<found, doc, tasks>>
     \/ /\ Given(code) /\ i = Null
        /\ e = "products-uuid" => Given(body.identifier)
        /\ \E u \in EnsuredUuids(r, body.uuid) :
             Prepare(r, Null, [id |-> body.identifier, uuid |-> u, val |-> body.val])
        /\ Continue(r, IF e = "products" THEN "check" ELSE "write")
        /\ UNCHANGED <<at, results, tasks>>
     \/ /\ Given(code) /\ i # Null
        /\ RaisesPatchTypeError(row.val, body.val)
        /\ Raise(r, 422)
     \/ /\ Given(code) /\ i # Null
        /\ ~RaisesPatchTypeError(row.val, body.val)
        /\ e = "products-uuid" => body.identifier # Nulled
        \* products-uuid writes the identifier of the line, or else the blank one
        /\ \E u \in PatchedUuids(r, row, body) :
             Prepare(r, i, [id |-> IF e = "products" THEN i
                                   ELSE IF body.identifier = Absent THEN Blank
                                   ELSE body.identifier,
                            uuid |-> u,
                            val |-> PatchVal(row.val, body.val)])
        /\ Continue(r, "write")
        /\ UNCHANGED <<at, results, tasks>>

\* products-uuid: a null identifier of a product becomes a null id, which the upsert
\* fails on.
BatchNullId(r) ==
  LET body == Line(r)
      i == Lookup(View(r), Entity(r), body.uuid) IN
  /\ At(r, "read", "batch")
  /\ Entity(r) = "products-uuid" /\ Given(body.uuid) /\ body.identifier = Nulled
  /\ i # Null
  /\ ~RaisesPatchTypeError(View(r)[i].val, body.val)
  /\ mine' = [mine EXCEPT ![r] = Nothing]
  /\ Raise(r, 500)

BatchCheck(r) ==
  /\ At(r, "check", "batch")
  /\ UNCHANGED <<mine, found, doc, tasks>>
  /\ IF ByUuid(View(r), doc[r].uuid) # Null THEN NextLine(r, 409)
     ELSE Continue(r, "write") /\ UNCHANGED <<at, results>>

\* Variant: each line is committed as it is written.
BatchCommitsLines(r) ==
  LET d == doc[r] IN
  /\ At(r, "write", "batch")
  /\ Free(r, d.id, d.uuid)
  /\ ~UniqueViolation(View(r), d)
  /\ table' = [View(r) EXCEPT ![d.id] = Upserted(View(r), d)]
  /\ Announce(r, IF found[r] = Null THEN "created" ELSE "updated", d)
  /\ results' = [results EXCEPT ![r] = Append(@, 204)]
  /\ at' = [at EXCEPT ![r] = @ + 1]
  /\ Goto(r, IF at[r] = Len(call[r].lines) THEN "commit" ELSE "read")
  /\ UNCHANGED <<mine, gone, loop, call, reply, found, doc>>

BatchWrite(r) ==
  LET d == doc[r] IN
  /\ At(r, "write", "batch")
  /\ Free(r, d.id, d.uuid)
  /\ IF UniqueViolation(View(r), d)
     THEN /\ mine' = [mine EXCEPT ![r] = Nothing]
          /\ Raise(r, 500)
     ELSE /\ Write(r, d.id, Upserted(View(r), d))
          /\ Announce(r, IF found[r] = Null THEN "created" ELSE "updated", d)
          /\ NextLine(r, IF found[r] = Null THEN 201 ELSE 204)
          /\ UNCHANGED <<found, doc>>

\* Variant: a batch that reported a line is not committed.
CommitUnlessReported(r) ==
  /\ At(r, "commit", "batch")
  /\ table' = IF \E n \in DOMAIN results[r] : results[r][n] >= 400 THEN table ELSE View(r)
  /\ mine' = [mine EXCEPT ![r] = Nothing]
  /\ Settle(r, "done", 200)
  /\ UNCHANGED <<call, local, tasks, gone>>

BatchCommit(r) ==
  /\ At(r, "commit", "batch")
  /\ table' = View(r)
  /\ mine' = [mine EXCEPT ![r] = Nothing]
  /\ Settle(r, "done", 200)
  /\ UNCHANGED <<call, local, tasks, gone>>

----------------------------------------------------------------------------
(* delete_item, in a worker thread. *)

DeleteRead(r) ==
  LET i == Lookup(table, Entity(r), call[r].code) IN
  /\ At(r, "read", "delete")
  /\ UNCHANGED <<mine, results>>
  /\ IF i = Null THEN Raise(r, 404)
     ELSE /\ Prepare(r, i, [id |-> i, uuid |-> table[i].uuid, val |-> Absent])
          /\ Continue(r, "write")
          /\ UNCHANGED <<at, tasks>>

\* The DELETE finds its row, or none, in the rows committed when it starts.  It
\* waits for whoever has written that row, and if the row is gone by then, the
\* DELETE is done: a row that has taken its place meanwhile is not looked for.
DeleteStart(r) ==
  /\ At(r, "write", "delete")
  /\ found' = [found EXCEPT ![r] = Lookup(table, Entity(r), call[r].code)]
  /\ Continue(r, "lock")
  /\ UNCHANGED <<mine, at, doc, results, tasks>>

DeleteRow(r) ==
  LET i == found[r]
      mustWait == i # Null /\ \E h \in Requests \ {r} : i \in DOMAIN mine[h] IN
  /\ At(r, "lock", "delete")
  /\ ~mustWait
  /\ IF i = Null \/ Lookup(table, Entity(r), call[r].code) # i
     THEN UNCHANGED mine ELSE Write(r, i, Null)
  /\ Continue(r, "commit")
  /\ UNCHANGED <<local, tasks>>

DeleteCommit(r) ==
  /\ At(r, "commit", "delete")
  /\ table' = View(r)
  /\ mine' = [mine EXCEPT ![r] = Nothing]
  /\ gone' = gone \cup {i : i \in DOMAIN mine[r]} \cup {table[i].uuid : i \in DOMAIN mine[r]}
  /\ Announce(r, "deleted", doc[r])
  /\ Settle(r, "done", 204)
  /\ UNCHANGED <<call, local>>

----------------------------------------------------------------------------
(* The exit of get_db, and the answer.  A handler that raised has its background
   tasks forgotten with it. *)

DispatchExit(r) ==
  /\ pc[r] = "raised"
  /\ loop = Null
  /\ Goto(r, "exiting")
  /\ UNCHANGED <<committed, mine, loop, call, local, reply, tasks>>

\* Variant: the connection goes back to the pool with its transaction open.
NoRollback(r) ==
  /\ pc[r] = "exiting"
  /\ tasks' = [tasks EXCEPT ![r] = <<>>]
  /\ Goto(r, "done")
  /\ UNCHANGED <<committed, mine, loop, call, local, reply>>

Rollback(r) ==
  /\ pc[r] = "exiting"
  /\ mine' = [mine EXCEPT ![r] = Nothing]
  /\ tasks' = [tasks EXCEPT ![r] = <<>>]
  /\ Goto(r, "done")
  /\ UNCHANGED <<committed, loop, call, local, reply>>

Respond(r) ==
  /\ pc[r] = "done"
  /\ loop = Null
  /\ Goto(r, "idle")
  /\ call' = [call EXCEPT ![r] = Null]
  /\ found' = [found EXCEPT ![r] = Null]
  /\ doc' = [doc EXCEPT ![r] = Null]
  /\ reply' = [reply EXCEPT ![r] = 0]
  /\ results' = [results EXCEPT ![r] = <<>>]
  /\ tasks' = [tasks EXCEPT ![r] = <<>>]
  /\ UNCHANGED <<committed, mine, loop, at>>

Handler(r) ==
  \/ PostRead(r) \/ PostCheck(r) \/ PostWrite(r)
  \/ PatchReadMissing(r) \/ PatchReadRow(r) \/ PatchCheck(r)
  \/ RenameDelete(r) \/ PatchWrite(r)
  \/ BatchRead(r) \/ BatchNullId(r) \/ BatchCheck(r) \/ BatchWrite(r) \/ BatchCommit(r)
  \/ DeleteRead(r) \/ DeleteStart(r) \/ DeleteRow(r) \/ DeleteCommit(r)

Server(r) == StartHandler(r) \/ Handler(r) \/ DispatchExit(r) \/ Rollback(r) \/ Respond(r)

Next == \E r \in Requests : Server(r) \/ \E c \in Calls : Receive(r, c)

Init ==
  /\ table \in Stored
  /\ mine = [r \in Requests |-> Nothing]
  /\ loop = Null
  /\ pc = [r \in Requests |-> "idle"]
  /\ call = [r \in Requests |-> Null]
  /\ at = [r \in Requests |-> 1]
  /\ found = [r \in Requests |-> Null]
  /\ doc = [r \in Requests |-> Null]
  /\ reply = [r \in Requests |-> 0]
  /\ results = [r \in Requests |-> <<>>]
  /\ tasks = [r \in Requests |-> <<>>]
  /\ gone = {}

Spec == Init /\ [][Next]_vars

----------------------------------------------------------------------------
(* Properties. *)

Events == [action : {"created", "updated", "deleted"}, id : Columns, uuid : Uuids]
Stages == {"idle", "received", "read", "check", "rename", "lock", "write", "commit",
           "raised", "exiting", "done"}

TypeOK ==
  /\ table \in Tables
  /\ \A r \in Requests :
       /\ DOMAIN mine[r] \subseteq Columns
       /\ \A i \in DOMAIN mine[r] : mine[r][i] \in Rows \cup {Null}
  /\ loop \in Requests \cup {Null}
  /\ pc \in [Requests -> Stages]
  /\ call \in [Requests -> Calls \cup {Null}]
  /\ at \in [Requests -> Nat \ {0}]
  /\ found \in [Requests -> Columns \cup {Null}]
  /\ doc \in [Requests -> Documents \cup {Null}]
  /\ reply \in [Requests -> {0, 200, 201, 204, 404, 409, 422, 500}]
  /\ results \in [Requests -> Seq({201, 204, 400, 409})]
  /\ tasks \in [Requests -> Seq(Events)]
  /\ gone \subseteq Columns \cup Uuids

\* r has just committed, and is going to dispatch its events.
Commits(r) == pc[r] # "done" /\ pc'[r] = "done" /\ reply'[r] \in {200, 201, 204}

\* A violated constraint, which is a 500, only ever meets a line of a batch that pairs the
\* uuid of one product with the identifier of another, or with none (rest.py:1086,
\* 1105).  The checks of POST, PATCH and of new lines suffice: although a DELETE may
\* come between a check and the write, only the event loop inserts, one handler at a
\* time.
Only500s ==
  [][\A r \in Requests :
       reply[r] # 500 /\ reply'[r] = 500 =>
         LET line == Line(r)
             holder == ByUuid(View(r), line.uuid) IN
         call[r].verb = "batch" /\ holder \notin {Null, line.identifier}]_vars

\* Line n of the call of r is about the product with identifier i.
IsAbout(r, n, i) ==
  LET identifier == call[r].lines[n].identifier IN
  i = IF call[r].verb = "patch" /\ Entity(r) = "products" THEN call[r].code
      ELSE IF identifier = Absent THEN Blank ELSE identifier

\* A product keeps its uuid, whoever patches or deletes it meanwhile, unless a request
\* names another one for it, or names one that is none: it gets a new one then
\* (rest.py:51-54).
UuidKept ==
  [][\A i \in Columns :
       table[i] # Null /\ table'[i] # Null /\ table'[i].uuid # table[i].uuid =>
         \E r \in Requests : Commits(r) /\
           \E n \in DOMAIN call[r].lines :
             IsAbout(r, n, i) /\ call[r].lines[n].uuid \in {table'[i].uuid, Nulled}]_vars

HasUuid(T, u) == \E i \in Columns : T[i] # Null /\ T[i].uuid = u

\* An event says what was there when the request committed, although that was read
\* before, with DELETEs in between.  "created": no such product.  (Not claimed of the
\* batch PATCH of products-uuid: a line with a new uuid takes over the row of whichever
\* product has its identifier, rest.py:1097.)  "updated", if it is the first about its
\* id: there was a product with that id or uuid, or a DELETE took it away while the
\* handler had the loop.  Then the product that PATCH read is back (rest.py:921-970).
EventsMatchRows ==
  [][\A r \in Requests : Commits(r) =>
       \A n \in DOMAIN tasks'[r] :
         LET e == tasks'[r][n] IN
         CASE e.action = "created" ->
                \/ call[r].verb = "batch" /\ Entity(r) = "products-uuid"
                \/ table[e.id] = Null
           [] e.action = "updated" ->
                \/ \E m \in 1..(n - 1) : tasks'[r][m].id = e.id
                \/ table[e.id] # Null \/ HasUuid(table, e.uuid)
                \/ {e.id, e.uuid} \cap gone # {}
           [] OTHER -> TRUE]_vars

\* Whatever a POST, a PATCH or an accepted line of a batch announces is stored
\* when the request commits, and under the uuid it was last announced with.
AcceptedIsStored ==
  [][\A r \in Requests :
       Commits(r) /\ call[r].verb # "delete" =>
         \A n \in DOMAIN tasks'[r] :
           LET e == tasks'[r][n] IN
           /\ table'[e.id] # Null
           /\ (\A m \in DOMAIN tasks'[r] : m > n => tasks'[r][m].id # e.id)
                => table'[e.id].uuid = e.uuid]_vars

\* And nothing else changes, at any time: a row changes only as a request commits that
\* answers with success, and announces the row by the id it has or the uuid it had (a
\* rename deletes the row of the old identifier).  So a request that is refused has
\* changed nothing, however far it got: a batch may have written several lines before
\* apply_patch raises, a rename has deleted a row when validation refuses the new one.
\* What such a request has announced until then is not dispatched.
ChangesAreAnnounced ==
  [][/\ \A i \in Columns : table'[i] # table[i] =>
          \E r \in Requests : Commits(r) /\
            \E n \in DOMAIN tasks'[r] :
              \/ tasks'[r][n].id = i
              \/ table[i] # Null /\ table[i].uuid = tasks'[r][n].uuid
     /\ \A r \in Requests :
          pc[r] # "done" /\ pc'[r] = "done" /\ tasks'[r] # <<>> => Commits(r)]_vars

\* The event loop waits for what a request has written whose exit it should
\* dispatch: a rename refused after its DELETE (rest.py:978-980), or a batch refused
\* at a later line, and the next handler that writes the same product.
LoopStuck ==
  \E r, h \in Requests :
    /\ loop = r /\ h # r /\ pc[h] = "raised"
    /\ \/ /\ pc[r] = "write" /\ Blocks(h, doc[r].id, doc[r].uuid)
          /\ call[r].verb = "batch" \/ doc[r].val \notin Invalid
       \/ pc[r] = "rename" /\ found[r] \in DOMAIN mine[h] /\ table[found[r]] # Null

\* Another request has written row i.
Held(r, i) == i # Null /\ \E h \in Requests \ {r} : i \in DOMAIN mine[h]

\* What keeps r from its next step: the loop is taken, or another transaction has
\* written what r is to write.
Waits(r) ==
  \/ pc[r] \in {"received", "raised", "done"} /\ loop # Null
  \/ /\ pc[r] = "write" /\ Async(r)
     /\ call[r].verb = "batch" \/ doc[r].val \notin Invalid
     /\ ~Free(r, doc[r].id, doc[r].uuid)
  \/ pc[r] = "rename" /\ table[found[r]] # Null /\ Held(r, found[r])
  \/ pc[r] = "lock" /\ Held(r, found[r])

\* Unless that happens, some request under way need not wait, whatever the others have
\* written: nothing but the exit of a handler that raised has to wait for the loop with
\* rows written.  A request has few steps, so each is answered where the loop, the
\* threads and the locks are granted in order.
NeverStuck ==
  (\E r \in Requests : pc[r] # "idle") =>
    LoopStuck \/ \E r \in Requests : pc[r] # "idle" /\ ~Waits(r)

=============================================================================
