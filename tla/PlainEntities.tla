--------------------------- MODULE PlainEntities ---------------------------
(***************************************************************************)
(* The entities whose changes announce no events, in several databases:    *)
(* patch_item of rest.py:983-1012, which reads only the columns a body has *)
(* objects or nulls for, and the cache of the columns of a table           *)
(* (rest.py:590-602) that it reads them by.                                *)
(*                                                                         *)
(* Channels, locales, currencies, measurement families, association types  *)
(* and reference entities have a column for each property.  Asset families *)
(* and the deprecated assets have one column for the whole document.       *)
(*                                                                         *)
(* One row stands for all the rows of a table, since they do not meet in   *)
(* anything but the cache.  POST and PATCH run on the event loop from      *)
(* their first statement to their commit, DELETE runs in a thread.  A      *)
(* batch is one line here (module Catalog has longer ones).                *)
(***************************************************************************)
EXTENDS Naturals

CONSTANTS
  Requests, Databases,
  Columned, Documents,  \* entities of either kind
  Objects, Plains,      \* properties that are objects, and others
  Modelled,    \* properties that the models of Documents declare; they ignore the others
  Keys,        \* of an object
  Values,      \* of a plain property
  Wrong,       \* a scalar where a property is an object
  Nulled,      \* JSON null, for properties that may be null
  Absent,      \* a property that a body or a row does not have
  Null,        \* no request, no row, nothing cached
  Calls,       \* the requests clients send
  Started,     \* the databases with tables at the start
  MaxOperations  \* bound: administrative operations and restarts

Entities == Columned \cup Documents
Props == Objects \cup Plains

ObjectValues == {keys : keys \in SUBSET Keys}
PropValues(p) == IF p \in Objects THEN {Wrong} \cup ObjectValues ELSE Values
AnyValue == {Absent, Nulled, Wrong} \cup Values \cup ObjectValues

Rows == {row \in [Props -> AnyValue] : \A p \in Props : row[p] \in {Absent} \cup PropValues(p)}
Bodies ==
  {body \in [Props -> AnyValue] : \A p \in Props : body[p] \in {Absent, Nulled} \cup PropValues(p)}
IsCall(c) ==
  /\ c.verb \in {"post", "patch", "batch", "delete"}
  /\ c.db \in Databases /\ c.entity \in Entities /\ c.body \in Bodies

ASSUME PlainAssumption ==
  /\ Columned \cap Documents = {} /\ Objects \cap Plains = {} /\ Modelled \subseteq Props
  /\ Objects # {} /\ Started \subseteq Databases /\ MaxOperations \in Nat
  /\ \A v \in ObjectValues : v \notin {Wrong, Nulled, Absent} \cup Values
  /\ {Wrong, Nulled, Absent} \cap Values = {}
  /\ Wrong # Nulled /\ Wrong # Absent /\ Nulled # Absent
  /\ Null \notin Requests \cup Calls /\ \A row \in Rows : row # Null
  /\ \A cols \in SUBSET Props : cols # Null
  /\ \A c \in Calls : IsCall(c)

VARIABLES
  rows,     \* the committed row of each entity in each database
  ready,    \* the databases that have tables
  columns,  \* _TABLE_COLUMNS_CACHE: the columns remembered of the table of an entity
  loop,     \* the request whose handler has the event loop
  pc,       \* where each request is
  call,     \* what each request asks for
  old,      \* what its SELECT has read
  reply,    \* the HTTP status it has settled on
  broken,   \* the requests whose connection was terminated
  written,  \* history: entities that some request has stored since the start
  spoiled,  \* history: entities not stored before of which a PATCH read the columns in
            \* a database without tables
  count     \* operations and restarts so far

vars == <<rows, ready, columns, loop, pc, call, old, reply, broken, written, spoiled, count>>

----------------------------------------------------------------------------
(* Rows, bodies and statements. *)

Row(r) == rows[call[r].db][call[r].entity]
IsObject(v) == v \notin {Wrong, Nulled, Absent} \cup Values
InColumns(r) == call[r].entity \in Columned

\* Variant: only the objects.
ComparedObjects(body) == {p \in Props : IsObject(body[p])}

\* A body's objects and nulls: what apply_patch may have to compare with.
Compared(body) == {p \in Props : IsObject(body[p]) \/ body[p] = Nulled}

\* What information_schema says of a table.  The document of an entity is one column.
ColumnsOf(d, e) == IF d \in ready /\ e \in Columned THEN Props ELSE {}

Remembered(d, e) == IF columns[e] # Null THEN columns[e] ELSE ColumnsOf(d, e)

\* The columns of the row that the handler reads; a batch reads all of them.
Selected(r) ==
  IF call[r].verb = "batch" THEN Props
  ELSE Compared(call[r].body) \cap (IF columns[call[r].entity] = Null THEN {} ELSE columns[call[r].entity])

\* apply_patch, here of one level.
RaisesPatchTypeError(row, body) == \E p \in Props : IsObject(row[p]) /\ body[p] \in {Nulled, Wrong}
Patched(row, body) ==
  [p \in Props |-> IF body[p] = Absent THEN row[p]
                   ELSE IF IsObject(row[p]) /\ IsObject(body[p]) THEN row[p] \cup body[p]
                   ELSE body[p]]

\* The model of an entity refuses scalars for objects, and leaves out what it does not
\* declare.
Declared(e) == IF e \in Columned THEN Props ELSE Modelled
FitsModel(e, doc) == \A p \in Declared(e) : doc[p] # Wrong
Dumped(e, doc) == [p \in Props |-> IF p \in Declared(e) THEN doc[p] ELSE Absent]

\* Variant: a null is stored as it came.
UpsertedAsIs(row, doc, cols) ==
  [p \in Props |-> IF p \in cols /\ doc[p] # Absent THEN doc[p]
                   ELSE IF row # Null THEN row[p] ELSE Absent]

\* INSERT ... ON CONFLICT (id) DO UPDATE of the columns that the document has.
Upserted(row, doc, cols) ==
  [p \in Props |-> IF p \in cols /\ doc[p] = Nulled THEN Absent
                   ELSE IF p \in cols /\ doc[p] # Absent THEN doc[p]
                   ELSE IF row # Null THEN row[p] ELSE Absent]

\* A document is replaced whole.
Replaced(doc) == [p \in Props |-> IF doc[p] = Nulled THEN Absent ELSE doc[p]]

\* A statement on the table of an entity.
Works(r) == r \notin broken /\ call[r].db \in ready

----------------------------------------------------------------------------
(* Requests. *)

Goto(r, stage) == pc' = [pc EXCEPT ![r] = stage]

Answer(r, code) ==
  /\ Goto(r, "done")
  /\ reply' = [reply EXCEPT ![r] = code]
  /\ loop' = IF loop = r THEN Null ELSE loop

Refuse(r, code) ==
  Answer(r, code) /\ UNCHANGED <<rows, ready, columns, call, old, broken, written, spoiled, count>>

\* get_db has given it a connection, and its body is awaited.
Receive(r, c) ==
  /\ pc[r] = "idle" /\ loop = Null
  /\ Goto(r, IF c.verb = "delete" THEN "find" ELSE "body")
  /\ call' = [call EXCEPT ![r] = c]
  /\ UNCHANGED <<rows, ready, columns, loop, old, reply, broken, written, spoiled, count>>

BodyArrives(r) ==
  /\ pc[r] = "body" /\ loop = Null
  /\ loop' = r
  /\ Goto(r, IF call[r].verb = "patch" /\ Compared(call[r].body) # {} THEN "columns" ELSE "select")
  /\ UNCHANGED <<rows, ready, columns, call, old, reply, broken, written, spoiled, count>>

\* Variant: the handler asks the database whether the columns are remembered or not.
ReadColumnsAnew(r) ==
  LET d == call[r].db
      e == call[r].entity IN
  /\ pc[r] = "columns"
  /\ \/ r \in broken /\ Refuse(r, 500)
     \/ /\ r \notin broken
        /\ columns' = [columns EXCEPT ![e] = ColumnsOf(d, e)]
        /\ spoiled' = IF d \notin ready /\ e \notin written THEN spoiled \cup {e} ELSE spoiled
        /\ Goto(r, "select")
        /\ UNCHANGED <<rows, ready, loop, call, old, reply, broken, written, count>>

\* _get_table_columns, before the table has been touched at all.
ReadColumns(r) ==
  LET d == call[r].db
      e == call[r].entity IN
  /\ pc[r] = "columns"
  /\ \/ columns[e] = Null /\ r \in broken /\ Refuse(r, 500)
     \/ /\ columns[e] # Null \/ r \notin broken
        /\ columns' = [columns EXCEPT ![e] = Remembered(d, e)]
        /\ spoiled' = IF d \notin ready /\ e \notin written THEN spoiled \cup {e} ELSE spoiled
        /\ Goto(r, "select")
        /\ UNCHANGED <<rows, ready, loop, call, old, reply, broken, written, count>>

\* The models check a POST before it looks for the row.
Select(r) ==
  LET post == call[r].verb = "post"
      bad == post /\ ~FitsModel(call[r].entity, call[r].body) IN
  /\ pc[r] = "select"
  /\ \/ bad /\ Refuse(r, 422)
     \/ ~bad /\ ~Works(r) /\ Refuse(r, 500)
     \/ ~bad /\ Works(r) /\ post /\ Row(r) # Null /\ Refuse(r, 409)
     \/ /\ ~bad /\ Works(r) /\ (post => Row(r) = Null)
        /\ old' = [old EXCEPT ![r] =
             [p \in Props |-> IF Row(r) # Null /\ p \in Selected(r) THEN Row(r)[p] ELSE Absent]]
        /\ Goto(r, "write")
        /\ UNCHANGED <<rows, ready, columns, loop, call, reply, broken, written, spoiled, count>>

\* apply_patch, the model, which a batch does not ask, _upsert_item and the commit.
\* Without columns the INSERT is malformed.
Write(r) ==
  LET d == call[r].db
      e == call[r].entity
      batch == call[r].verb = "batch"
      doc == Patched(old[r], call[r].body)
      cols == Remembered(d, e)
      bad == RaisesPatchTypeError(old[r], call[r].body) \/ (~batch /\ ~FitsModel(e, doc))
      stored == IF batch THEN doc ELSE Dumped(e, doc) IN
  /\ pc[r] = "write"
  /\ \/ bad /\ Refuse(r, 422)
     \/ /\ ~bad
        /\ columns' = IF e \in Columned THEN [columns EXCEPT ![e] = cols] ELSE columns
        /\ IF e \in Columned /\ cols = {}
           THEN Answer(r, 500) /\ UNCHANGED <<rows, written>>
           ELSE /\ rows' = [rows EXCEPT ![d][e] =
                              IF e \in Columned THEN Upserted(@, stored, cols) ELSE Replaced(stored)]
                /\ written' = written \cup {e}
                /\ Answer(r, IF batch THEN 200 ELSE IF call[r].verb = "post" THEN 201 ELSE 204)
        /\ UNCHANGED <<ready, call, old, broken, spoiled, count>>

\* DELETE, in a thread.
DeleteFind(r) ==
  /\ pc[r] = "find"
  /\ \/ ~Works(r) /\ Refuse(r, 500)
     \/ Works(r) /\ Row(r) = Null /\ Refuse(r, 404)
     \/ /\ Works(r) /\ Row(r) # Null
        /\ Goto(r, "delete")
        /\ UNCHANGED <<rows, ready, columns, loop, call, old, reply, broken, written, spoiled, count>>

DeleteRow(r) ==
  /\ pc[r] = "delete"
  /\ \/ ~Works(r) /\ Refuse(r, 500)
     \/ /\ Works(r)
        /\ rows' = [rows EXCEPT ![call[r].db][call[r].entity] = Null]
        /\ Answer(r, 204)
        /\ UNCHANGED <<ready, columns, call, old, broken, written, spoiled, count>>

Respond(r) ==
  /\ pc[r] = "done" /\ loop = Null
  /\ Goto(r, "idle")
  /\ call' = [call EXCEPT ![r] = Null]
  /\ old' = [old EXCEPT ![r] = Null]
  /\ reply' = [reply EXCEPT ![r] = 0]
  /\ broken' = broken \ {r}
  /\ UNCHANGED <<rows, ready, columns, loop, written, spoiled, count>>

----------------------------------------------------------------------------
(* Administration, on the loop (module Databases has it in full), and restarts. *)

NoRows == [e \in Entities |-> Null]

Operates == loop = Null /\ count < MaxOperations /\ count' = count + 1

\* init_db: tables, and all of them empty.
Initialise(d) ==
  /\ Operates
  /\ ready' = ready \cup {d} /\ rows' = [rows EXCEPT ![d] = NoRows]
  /\ UNCHANGED <<columns, loop, pc, call, old, reply, broken, written, spoiled>>

\* restore: d becomes a copy of src, and its connections are terminated.
Restore(d, src) ==
  /\ Operates
  /\ ready' = IF src \in ready THEN ready \cup {d} ELSE ready \ {d}
  /\ rows' = [rows EXCEPT ![d] = rows[src]]
  /\ broken' = broken \cup {r \in Requests : call[r] # Null /\ call[r].db = d}
  /\ UNCHANGED <<columns, loop, pc, call, old, reply, written, spoiled>>

Restart ==
  /\ count < MaxOperations /\ count' = count + 1
  /\ columns' = [e \in Entities |-> Null]
  /\ loop' = Null
  /\ pc' = [r \in Requests |-> "idle"]
  /\ call' = [r \in Requests |-> Null]
  /\ old' = [r \in Requests |-> Null]
  /\ reply' = [r \in Requests |-> 0]
  /\ broken' = {} /\ written' = {} /\ spoiled' = {}
  /\ UNCHANGED <<rows, ready>>

Next ==
  \/ \E r \in Requests :
       \/ \E c \in Calls : Receive(r, c)
       \/ BodyArrives(r) \/ ReadColumns(r) \/ Select(r) \/ Write(r)
       \/ DeleteFind(r) \/ DeleteRow(r) \/ Respond(r)
  \/ \E d \in Databases : Initialise(d) \/ \E src \in Databases \ {d} : Restore(d, src)
  \/ Restart

Init ==
  /\ rows = [d \in Databases |-> NoRows] /\ ready = Started
  /\ columns = [e \in Entities |-> Null]
  /\ loop = Null
  /\ pc = [r \in Requests |-> "idle"]
  /\ call = [r \in Requests |-> Null]
  /\ old = [r \in Requests |-> Null]
  /\ reply = [r \in Requests |-> 0]
  /\ broken = {} /\ written = {} /\ spoiled = {}
  /\ count = 0

Spec == Init /\ [][Next]_vars

----------------------------------------------------------------------------
(* Properties. *)

\* The types of the variables.
TypeOK ==
  /\ \A d \in Databases, e \in Entities : rows[d][e] \in {Null} \cup Rows
  /\ ready \subseteq Databases
  /\ columns \in [Entities -> {Null} \cup SUBSET Props]
  /\ loop \in Requests \cup {Null}
  /\ pc \in [Requests -> {"idle", "body", "columns", "select", "write", "find", "delete", "done"}]
  /\ call \in [Requests -> Calls \cup {Null}] /\ \A r \in Requests : pc[r] = "idle" <=> call[r] = Null
  /\ \A r \in Requests : old[r] \in {Null} \cup Rows
  /\ reply \in [Requests -> {0, 200, 201, 204, 404, 409, 422, 500}]
  /\ broken \subseteq Requests /\ written \subseteq Entities /\ spoiled \subseteq Entities
  /\ count \in 0..MaxOperations

Ends(r) == pc[r] # "done" /\ pc'[r] = "done"
Patches(r) ==
  call[r] # Null /\ call[r].verb \in {"patch", "batch"} /\ Ends(r) /\ reply'[r] \in {200, 204} /\ Row(r) # Null

\* A PATCH merges its body into the row as it is when it commits, although it has read
\* no more than the columns it compares, before a commit that others may precede: the
\* keys of its objects are added, its other properties replaced, a null for an object
\* is refused, and the properties it does not name are left untouched.  A row that was
\* deleted since comes back with as much as was read.  Documents are merged by batches only.
PatchMerges ==
  [][\A r \in Requests :
       Patches(r) /\ (InColumns(r) \/ call[r].verb = "batch") =>
         LET body == call[r].body
             row == rows'[call[r].db][call[r].entity] IN
         \A p \in Props :
           /\ body[p] = Absent => row[p] = Row(r)[p]
           /\ IsObject(Row(r)[p]) /\ body[p] # Absent =>
                IsObject(body[p]) /\ row[p] = Row(r)[p] \cup body[p]
           /\ ~IsObject(Row(r)[p]) /\ body[p] # Absent =>
                row[p] = IF body[p] = Nulled THEN Absent ELSE body[p]]_vars

\* A request to a database with tables fails with 500 only if its connection was
\* terminated, or if the columns of its entity were first asked for where there are no
\* tables: once a row of the entity was stored anywhere, no PATCH to whatever database
\* spoils the cache for the others.
FailsOnlySpoiled ==
  [][\A r \in Requests :
       Ends(r) /\ reply'[r] = 500 =>
         r \in broken \/ call[r].db \notin ready \/ call[r].entity \in spoiled]_vars

\* A PATCH leaves what it does not name untouched, for every entity: Rule 4 of the
\* documentation of the API (pim-api-docs/content/rest-api/update.md:13).
UntouchedProperties ==
  [][\A r \in Requests :
       Patches(r) => \A p \in Props :
         call[r].body[p] = Absent => rows'[call[r].db][call[r].entity][p] = Row(r)[p]]_vars

=============================================================================
