-------------------------- MODULE ProductStoreProofs --------------------------
(***************************************************************************)
(* Proofs about ProductStore, for any products, calls, numbers of requests *)
(* and lines: the types, that only mixed-up lines of a batch meet a unique *)
(* violation, that products keep their uuids, that events match rows, that *)
(* what is accepted is stored and that nothing else changes.               *)
(***************************************************************************)
EXTENDS ProductStore, SequenceTheorems, TLAPS

IsMap(f) == f = [r \in Requests |-> f[r]]
Batch(r) == call[r].verb = "batch"
Named(r, i, u) ==
  \E n \in DOMAIN call[r].lines : IsAbout(r, n, i) /\ call[r].lines[n].uuid \in {u, Nulled}
Acts(q) == Server(q) \/ \E c \in Calls : Receive(q, c)

\* The async handler of r is running.
Working(r) == pc[r] \in {"read", "check", "rename", "write", "commit"} /\ Async(r)

\* Where a request can be, and who has the loop.
StageFits(r) ==
  /\ pc[r] = "idle" <=> call[r] = Null
  /\ pc[r] \in {"received", "check"} => Async(r)
  /\ pc[r] = "rename" => call[r].verb = "patch" /\ Entity(r) = "products-uuid"
  /\ pc[r] = "lock" => ~Async(r)
  /\ pc[r] = "commit" => Batch(r) \/ ~Async(r)
  /\ pc[r] \in {"raised", "exiting"} => reply[r] \in {404, 409, 422, 500}
  /\ Working(r) => loop = r
  /\ pc[r] = "received" => at[r] = 1
  /\ Working(r) /\ pc[r] # "commit" => at[r] \in DOMAIN call[r].lines
  /\ pc[r] \in {"check", "rename", "write", "lock"} => doc[r] # Null
  /\ pc[r] = "commit" /\ ~Async(r) => doc[r] # Null

\* What a request has written and not committed: rows of a batch, or the row that a
\* rename or a DELETE takes away.  Only a DELETE is sure that its row is still there.
MineFits(r) ==
  /\ pc[r] \in {"idle", "received", "lock", "done"} => DOMAIN mine[r] = {}
  /\ call[r] # Null /\ Batch(r) => \A i \in DOMAIN mine[r] : mine[r][i] # Null
  /\ call[r] # Null /\ ~Batch(r) => \A i \in DOMAIN mine[r] : mine[r][i] = Null
  /\ call[r] # Null /\ ~Batch(r) /\ pc[r] \in {"read", "check", "rename"} => DOMAIN mine[r] = {}
  /\ call[r] # Null /\ call[r].verb = "post" => DOMAIN mine[r] = {}
  /\ call[r] # Null /\ ~Async(r) => pc[r] = "commit" \/ DOMAIN mine[r] = {}
  /\ call[r] # Null /\ ~Async(r) => \A i \in DOMAIN mine[r] : table[i] # Null

\* No two requests have written the same row.
LocksDiffer == \A r, h \in Requests : r # h => DOMAIN mine[r] \cap DOMAIN mine[h] = {}

Base == TypeOK /\ IsMap(mine) /\ LocksDiffer /\ \A r \in Requests : StageFits(r) /\ MineFits(r)

\* There is a product with this id or uuid, or was when the loop was taken.
Was(i, u) == table[i] # Null \/ HasUuid(table, u) \/ {i, u} \cap gone # {}

\* u is the uuid of the row i, if that is there, and of no other.
Owns(T, u, i) == \A j \in Columns : T[j] # Null => (T[j].uuid = u <=> j = i)

\* A patch to d has found a product that was there, unless an earlier line of the batch
\* has written it; or the write will be refused.
Seen(r, d) ==
  \/ Was(d.id, d.uuid)
  \/ \E m \in DOMAIN tasks[r] : tasks[r][m].id = d.id
  \/ \E j \in DOMAIN mine[r] \ {d.id} : mine[r][j] # Null /\ mine[r][j].uuid = d.uuid

KeepsUuid(r, d) ==
  View(r)[d.id] # Null => View(r)[d.id].uuid = d.uuid \/ Named(r, d.id, d.uuid)

\* What a handler that found the row i knows of its document d before it has checked it,
CheckFits(r, i, d) ==
  /\ call[r].verb = "post" => i = Null
  /\ Batch(r) => i = Null /\ Entity(r) = "products" /\ Given(Line(r).identifier)
  /\ call[r].verb = "post" \/ (Entity(r) = "products" /\ i = Null) => View(r)[d.id] = Null
  /\ Entity(r) = "products" /\ i # Null => i = d.id /\ KeepsUuid(r, d)
  /\ call[r].verb # "post" /\ Entity(r) = "products-uuid" => Owns(View(r), d.uuid, i)
  /\ i # Null => Seen(r, d)

\* before it deletes the row of another identifier,
RenameFits(r, i, d) ==
  /\ i \notin {Null, d.id} /\ View(r)[d.id] = Null
  /\ Owns(View(r), d.uuid, i)
  /\ Seen(r, d)

\* and before it writes.
WriteFits(r, i, d) ==
  /\ UniqueViolation(View(r), d) =>
       Batch(r) /\ Line(r).uuid = d.uuid /\ Line(r).identifier \in {d.id, Absent}
  /\ Batch(r) /\ Line(r).identifier = Absent => d.id = Blank
  /\ call[r].verb = "post" => i = Null
  /\ ~Batch(r) => d.id \notin DOMAIN mine[r]
  /\ KeepsUuid(r, d)
  /\ i = Null => View(r)[d.id] = Null \/ (Batch(r) /\ Entity(r) = "products-uuid")
  /\ i # Null => Seen(r, d)

LineFits(r) ==
  /\ pc[r] = "check" => CheckFits(r, found[r], doc[r])
  /\ pc[r] = "rename" => RenameFits(r, found[r], doc[r])
  /\ pc[r] = "write" => WriteFits(r, found[r], doc[r])

\* What a batch has announced it has written, and what it has written it has announced.
BatchFits(r) ==
  /\ \A n \in DOMAIN tasks[r] :
       LET e == tasks[r][n] IN
       /\ e.id \in DOMAIN mine[r]
       /\ (\A m \in DOMAIN tasks[r] : m > n => tasks[r][m].id # e.id) => mine[r][e.id].uuid = e.uuid
       /\ e.action = "created" => Entity(r) = "products-uuid" \/ table[e.id] = Null
       /\ e.action = "updated" =>
            Was(e.id, e.uuid) \/ \E m \in 1..(n - 1) : tasks[r][m].id = e.id
  /\ \A i \in DOMAIN mine[r] :
       mine[r][i] # Null =>
         /\ \E m \in DOMAIN tasks[r] : tasks[r][m].id = i
         /\ table[i] # Null => mine[r][i].uuid = table[i].uuid \/ Named(r, i, mine[r][i].uuid)

\* Only a batch announces anything before it is done.
TasksFit(r) ==
  /\ pc[r] \in {"idle", "received"} => tasks[r] = <<>>
  /\ call[r] # Null /\ ~Batch(r) /\ pc[r] # "done" => tasks[r] = <<>>

\* A DELETE has its code in its document.  The row that a request other than a batch takes
\* away is the one of its document, by id or by uuid.
OwnRow(r) ==
  /\ call[r] # Null /\ ~Async(r) /\ pc[r] \in {"write", "lock", "commit"} =>
       call[r].code = IF Entity(r) = "products" THEN doc[r].id ELSE doc[r].uuid
  /\ ~Batch(r) /\ pc[r] \in {"write", "commit"} =>
       \A j \in DOMAIN mine[r] :
         table[j] = Null \/ j = doc[r].id \/ table[j].uuid = doc[r].uuid

HandlerFits(r) == Working(r) => UuidsDiffer(View(r)) /\ LineFits(r) /\ BatchFits(r)

SInv ==
  Base /\ UuidsDiffer(table) /\ \A r \in Requests : TasksFit(r) /\ OwnRow(r) /\ HandlerFits(r)

----------------------------------------------------------------------------
(* Calls, rows and what a request sees. *)

\* What a call consists of.
LEMMA CallFits ==
  ASSUME TypeOK, NEW r \in Requests, call[r] # Null
  PROVE  /\ call[r].verb \in {"post", "patch", "batch", "delete"} /\ Entity(r) \in Entities
         /\ Async(r) => call[r].lines \in Seq(Body) /\ Len(call[r].lines) \in Nat \ {0}
         /\ call[r].verb \in {"post", "patch"} => Len(call[r].lines) = 1
         /\ call[r].verb \in {"patch", "delete"} =>
              call[r].code \in IF Entity(r) = "products" THEN Ids ELSE Uuids
<1>1. call[r] \in Calls /\ call[r] \in AllCalls
  BY CallsAssumption DEF TypeOK
<1>2. /\ call[r].verb \in {"post", "patch", "batch", "delete"} /\ Entity(r) \in Entities
      /\ Async(r) => call[r].lines \in Seq(Body)
  BY <1>1 DEF AllCalls, Entity, Async
<1>3. /\ call[r].verb \in {"post", "patch"} => Len(call[r].lines) = 1
      /\ call[r].verb = "batch" => call[r].lines # <<>>
      /\ call[r].verb \in {"patch", "delete"} =>
           call[r].code \in IF call[r].entity = "products" THEN Ids ELSE Uuids
  BY <1>1, CallsAssumption
<1>4. Async(r) => Len(call[r].lines) \in Nat \ {0}
  <2>1. CASE Async(r) /\ Batch(r)
    BY <1>2, <1>3, <2>1, EmptySeq, LenProperties DEF Batch
  <2>2. CASE Async(r) /\ ~Batch(r)
    BY <1>2, <1>3, <2>2 DEF Batch, Async
  <2> QED
    BY <2>1, <2>2
<1> QED
  BY <1>2, <1>3, <1>4 DEF Entity

\* A request on the loop is working on one of its lines.
LEMMA LineIsBody ==
  ASSUME Base, NEW r \in Requests, Working(r), pc[r] # "commit"
  PROVE  /\ call[r] # Null /\ Line(r) \in Body /\ at[r] \in DOMAIN call[r].lines
         /\ Line(r).identifier \in Ids \cup {Absent, Nulled} /\ Line(r).uuid \in Uuids \cup {Absent, Nulled}
         /\ Line(r).val \in Vals \cup {Absent, Nulled}
         /\ \A i, u : IsAbout(r, at[r], i) /\ Line(r).uuid \in {u, Nulled} => Named(r, i, u)
         /\ ~Batch(r) => at[r] = 1
<1>1. call[r] # Null /\ at[r] \in DOMAIN call[r].lines
  BY DEF Base, StageFits, Working
<1>2. call[r].lines \in Seq(Body) /\ (~Batch(r) => Len(call[r].lines) = 1)
  BY <1>1, CallFits DEF Base, Working, Batch, Async
<1>3. Line(r) \in Body
  BY <1>1, <1>2, ElementOfSeq DEF Line
<1>5. \A i, u : IsAbout(r, at[r], i) /\ Line(r).uuid \in {u, Nulled} => Named(r, i, u)
  BY <1>1 DEF Line, Named
<1>4. ~Batch(r) => at[r] = 1
  BY <1>1, <1>2, LenProperties
<1> QED
  BY <1>1, <1>3, <1>4, <1>5 DEF Body

\* What a request sees are rows.
LEMMA ViewIsTable ==
  ASSUME TypeOK, NEW r \in Requests
  PROVE  /\ View(r) \in Tables
         /\ \A i \in Columns : View(r)[i] = IF i \in DOMAIN mine[r] THEN mine[r][i] ELSE table[i]
BY DEF TypeOK, View, Tables

\* What has no rows of its own sees the table.
LEMMA ViewOfNothing ==
  ASSUME TypeOK, NEW r \in Requests, DOMAIN mine[r] = {}
  PROVE  View(r) = table
BY DEF TypeOK, View, Tables

\* The row of a table that has a uuid.
LEMMA ByUuidFinds ==
  ASSUME NEW T, NEW u
  PROVE  /\ ByUuid(T, u) # Null => ByUuid(T, u) \in Columns /\ T[ByUuid(T, u)] # Null /\ T[ByUuid(T, u)].uuid = u
         /\ ByUuid(T, u) = Null => ~HasUuid(T, u)
<1>1. CASE HasUuid(T, u)
  BY <1>1, StoreAssumption DEF ByUuid, HasUuid
<1>2. CASE ~HasUuid(T, u)
  BY <1>2 DEF ByUuid, HasUuid
<1> QED
  BY <1>1, <1>2

\* Two rows with one uuid are the same.
LEMMA OwnerIsFound ==
  ASSUME NEW T, UuidsDiffer(T), NEW i \in Columns, T[i] # Null
  PROVE  ByUuid(T, T[i].uuid) = i /\ Owns(T, T[i].uuid, i)
<1>1. HasUuid(T, T[i].uuid)
  BY DEF HasUuid
<1>2. \A j \in Columns : T[j] # Null /\ T[j].uuid = T[i].uuid => j = i
  BY DEF UuidsDiffer
<1> QED
  BY <1>1, <1>2, ByUuidFinds, StoreAssumption DEF Owns

\* The row that a code of its entity stands for.
LEMMA LookupFinds ==
  ASSUME NEW T, NEW entity \in Entities,
         NEW code \in IF entity = "products" THEN Ids ELSE Uuids
  PROVE  LET i == Lookup(T, entity, code) IN
         /\ i # Null => /\ i \in Columns /\ T[i] # Null
                        /\ IF entity = "products" THEN i = code ELSE T[i].uuid = code
         /\ i = Null => IF entity = "products" THEN T[code] = Null ELSE ~HasUuid(T, code)
<1>1. CASE entity = "products"
  BY <1>1, StoreAssumption DEF Lookup, Columns
<1>2. CASE entity = "products-uuid"
  BY <1>2, ByUuidFinds DEF Lookup
<1> QED
  BY <1>1, <1>2 DEF Entities

\* The upsert makes a row with the uuid of the document.
LEMMA UpsertedIsRow ==
  ASSUME NEW T \in Tables, NEW d \in Documents
  PROVE  Upserted(T, d) \in Rows /\ Upserted(T, d).uuid = d.uuid
         /\ [T EXCEPT ![d.id] = Upserted(T, d)] \in Tables
<1>1. d.id \in Columns /\ d.uuid \in Uuids /\ d.val \in Vals \cup {Absent, Nulled}
  BY DEF Documents
<1>2. T[d.id] # Null => T[d.id].val \in Vals \cup {Absent}
  BY <1>1 DEF Tables, Rows
<1>3. Upserted(T, d) \in Rows /\ Upserted(T, d).uuid = d.uuid
  BY <1>1, <1>2 DEF Upserted, Rows
<1> QED
  BY <1>1, <1>3 DEF Tables

----------------------------------------------------------------------------
(* What a step of one request changes of another. *)

Unmoved(r) ==
  /\ pc'[r] = pc[r] /\ call'[r] = call[r] /\ at'[r] = at[r] /\ found'[r] = found[r] /\ doc'[r] = doc[r]
  /\ mine'[r] = mine[r] /\ reply'[r] = reply[r] /\ results'[r] = results[r] /\ tasks'[r] = tasks[r]
  /\ loop = r => loop' = r

\* A step of q leaves the other requests where they are, and does not take the loop
\* from them.
LEMMA OthersUnmoved ==
  ASSUME Base, NEW q \in Requests, Acts(q), NEW r \in Requests, r # q
  PROVE  Unmoved(r)
<1> USE DEF Base, TypeOK, IsMap, Unmoved
<1>0. Null \notin Requests
  BY StoreAssumption
<1>1. CASE \E c \in Calls : Receive(q, c)
  BY <1>1 DEF Receive, Goto
<1>2. CASE StartHandler(q)
  BY <1>0, <1>2 DEF StartHandler, Goto, local
<1>3. ASSUME NEW code, Raise(q, code), mine' = mine \/ mine' = [mine EXCEPT ![q] = Nothing] PROVE Unmoved(r)
  BY <1>3 DEF Raise, Settle, Goto, local
<1>4. ASSUME NEW status, NextLine(q, status), UNCHANGED <<found, doc>>,
             mine' = mine, tasks' = tasks
      PROVE Unmoved(r)
  BY <1>4 DEF NextLine, Goto
<1>5. ASSUME NEW stage, Continue(q, stage), UNCHANGED <<mine, tasks, at, results>>,
             found' = found \/ (\E f : found' = [found EXCEPT ![q] = f]),
             doc' = doc \/ (\E d : doc' = [doc EXCEPT ![q] = d])
      PROVE Unmoved(r)
  BY <1>5 DEF Continue, Goto
<1>6. CASE PostRead(q)
  <2>1. UNCHANGED <<mine, results>>
    BY <1>6 DEF PostRead
  <2>2. CASE Raise(q, 422) \/ Raise(q, 409)
    BY <1>3, <2>1, <2>2
  <2>3. CASE ~(Raise(q, 422) \/ Raise(q, 409))
    <3>1. /\ Continue(q, "check") /\ UNCHANGED <<mine, results, at, tasks>>
          /\ \E d : Prepare(q, Null, d)
      BY <1>6, <2>3 DEF PostRead
    <3> QED
      BY <1>5, <3>1 DEF Prepare
  <2> QED
    BY <2>2, <2>3
<1>7. CASE PostCheck(q) \/ PatchCheck(q)
  <2>1. CASE Raise(q, 409)
    BY <1>3, <1>7, <2>1 DEF PostCheck, PatchCheck
  <2>2. CASE ~Raise(q, 409)
    BY <1>5, <1>7, <2>2 DEF PostCheck, PatchCheck, local
  <2> QED
    BY <2>1, <2>2
<1>8. ASSUME NEW code, NEW action, SingleWrite(q, code, action) PROVE Unmoved(r)
  BY <1>8 DEF SingleWrite, Settle, Goto, Announce, local
<1>9. CASE PostWrite(q) \/ PatchWrite(q)
  BY <1>8, <1>9 DEF PostWrite, PatchWrite
<1>10. CASE PatchReadMissing(q)
  <2>1. UNCHANGED <<mine, results>>
    BY <1>10 DEF PatchReadMissing
  <2>2. CASE Raise(q, 422)
    BY <1>3, <2>1, <2>2
  <2>3. CASE ~Raise(q, 422)
    <3>1. /\ Continue(q, "check") /\ UNCHANGED <<mine, results, at, tasks>>
          /\ \E d : Prepare(q, Null, d)
      BY <1>10, <2>3 DEF PatchReadMissing
    <3> QED
      BY <1>5, <3>1 DEF Prepare
  <2> QED
    BY <2>2, <2>3
<1>11. CASE PatchReadRow(q)
  <2>1. UNCHANGED <<mine, results>>
    BY <1>11 DEF PatchReadRow
  <2>2. CASE Raise(q, 422)
    BY <1>3, <2>1, <2>2
  <2>3. CASE ~Raise(q, 422)
    <3>1. /\ Continue(q, "check") /\ UNCHANGED <<mine, results, at, tasks>>
          /\ \E i, d : Prepare(q, i, d)
      BY <1>11, <2>3 DEF PatchReadRow
    <3> QED
      BY <1>5, <3>1 DEF Prepare
  <2> QED
    BY <2>2, <2>3
<1>12. CASE RenameDelete(q)
  BY <1>12 DEF RenameDelete, Write, Continue, Goto, local
<1>13. CASE BatchRead(q)
  <2>1. UNCHANGED mine
    BY <1>13 DEF BatchRead
  <2>2. CASE Raise(q, 422)
    BY <1>3, <2>1, <2>2
  <2>3. CASE NextLine(q, 400) /\ UNCHANGED <<found, doc, tasks>>
    BY <1>4, <2>1, <2>3
  <2>4. CASE ~Raise(q, 422) /\ ~(NextLine(q, 400) /\ UNCHANGED <<found, doc, tasks>>)
    <3>1. /\ \E stage : Continue(q, stage)
          /\ UNCHANGED <<mine, results, at, tasks>>
          /\ \E i, d : Prepare(q, i, d)
      BY <1>13, <2>4 DEF BatchRead
    <3> QED
      BY <1>5, <3>1 DEF Prepare
  <2> QED
    BY <2>2, <2>3, <2>4
<1>23. CASE BatchNullId(q)
  BY <1>3, <1>23 DEF BatchNullId
<1>14. CASE BatchCheck(q)
  BY <1>4, <1>5, <1>14 DEF BatchCheck
<1>15. CASE BatchWrite(q)
  <2>1. CASE mine' = [mine EXCEPT ![q] = Nothing] /\ Raise(q, 500)
    BY <1>3, <2>1
  <2>2. CASE ~(mine' = [mine EXCEPT ![q] = Nothing] /\ Raise(q, 500))
    BY <1>15, <2>2 DEF BatchWrite, Write, Announce, NextLine, Goto
  <2> QED
    BY <2>1, <2>2
<1>16. CASE BatchCommit(q)
  BY <1>16 DEF BatchCommit, Settle, Goto, local
<1>17. CASE DeleteRead(q)
  <2>1. CASE Raise(q, 404)
    BY <1>3, <1>17, <2>1 DEF DeleteRead
  <2>2. CASE ~Raise(q, 404)
    <3>1. /\ Continue(q, "write") /\ UNCHANGED <<mine, results, at, tasks>>
          /\ \E i, d : Prepare(q, i, d)
      BY <1>17, <2>2 DEF DeleteRead
    <3> QED
      BY <1>5, <3>1 DEF Prepare
  <2> QED
    BY <2>1, <2>2
<1>18. CASE DeleteStart(q)
  BY <1>5, <1>18 DEF DeleteStart
<1>19. CASE DeleteRow(q)
  BY <1>19 DEF DeleteRow, Write, Continue, Goto, local
<1>20. CASE DeleteCommit(q)
  BY <1>20 DEF DeleteCommit, Announce, Settle, Goto, local
<1>21. CASE DispatchExit(q) \/ Rollback(q)
  BY <1>21 DEF DispatchExit, Rollback, Goto, local
<1>22. CASE Respond(q)
  BY <1>22 DEF Respond, Goto
<1> QED
  BY <1>1, <1>2, <1>6, <1>7, <1>9, <1>10, <1>11, <1>12, <1>13, <1>14, <1>15, <1>16, <1>17,
     <1>18, <1>19, <1>20, <1>21, <1>22, <1>23 DEF Acts, Server, Handler

----------------------------------------------------------------------------
(* What comes of reading: a refusal, or a document that fits what was read. *)

Outcome(q) ==
  \/ \E code \in {409, 422} : Raise(q, code)
  \/ Batch(q) /\ NextLine(q, 400) /\ UNCHANGED <<found, doc, tasks>>
  \/ \E i \in Columns \cup {Null}, d \in Documents, stage \in {"check", "write"} :
       /\ Prepare(q, i, d) /\ Continue(q, stage) /\ UNCHANGED <<at, results, tasks>>
       /\ stage = "check" => CheckFits(q, i, d)
       /\ stage = "write" => Batch(q) /\ WriteFits(q, i, d)

\* A new uuid is a uuid.
LEMMA EnsuredAreUuids ==
  ASSUME NEW r, NEW u \in Uuids \cup {Absent, Nulled}
  PROVE  /\ EnsuredUuids(r, u) \subseteq Uuids
         /\ Given(u) => EnsuredUuids(r, u) = {u}
         /\ ~Given(u) => \A v \in EnsuredUuids(r, u) : ~HasUuid(View(r), v)
BY ByUuidFinds DEF EnsuredUuids, Given

\* The uuid of a product that is patched is its own, that of the body, or a new one.
LEMMA PatchedIs ==
  ASSUME NEW r, NEW row \in Rows, NEW body \in Body, NEW u \in PatchedUuids(r, row, body)
  PROVE  /\ u \in Uuids
         /\ Entity(r) = "products-uuid" => u = row.uuid
         /\ u = row.uuid \/ u = body.uuid \/ (body.uuid = Nulled /\ ~HasUuid(View(r), u))
<1>1. row.uuid \in Uuids /\ body.uuid \in Uuids \cup {Absent, Nulled}
  BY DEF Rows, Body
<1> QED
  BY <1>1, EnsuredAreUuids DEF PatchedUuids, Given

\* What a POST reads.
LEMMA PostReads ==
  ASSUME SInv, NEW q \in Requests, PostRead(q)
  PROVE  Outcome(q)
<1> DEFINE body == Line(q)
<1>1. /\ pc[q] = "read" /\ call[q].verb = "post" /\ Working(q)
      /\ body.identifier \in Ids \cup {Absent, Nulled} /\ body.uuid \in Uuids \cup {Absent, Nulled}
      /\ body.val \in Vals \cup {Absent, Nulled}
  BY LineIsBody DEF SInv, PostRead, At, Working, Async
<1>2. CASE Raise(q, 422) \/ Raise(q, 409)
  BY <1>2 DEF Outcome
<1>3. CASE ~(Raise(q, 422) \/ Raise(q, 409))
  <2>1. /\ body.identifier \in Ids /\ View(q)[body.identifier] = Null
        /\ Continue(q, "check") /\ UNCHANGED <<at, results, tasks>>
    BY <1>1, <1>3 DEF PostRead, Given
  <2>2. PICK u \in EnsuredUuids(q, body.uuid) :
               Prepare(q, Null, [id |-> body.identifier, uuid |-> u, val |-> body.val])
    BY <1>1, <1>3 DEF PostRead
  <2> DEFINE d == [id |-> body.identifier, uuid |-> u, val |-> body.val]
  <2>3. d \in Documents /\ d.id = body.identifier
    BY <1>1, <2>1, EnsuredAreUuids DEF Documents, Columns
  <2>4. CheckFits(q, Null, d)
    BY <1>1, <2>1, <2>3 DEF CheckFits, Batch
  <2> HIDE DEF d
  <2> QED
    BY <2>1, <2>2, <2>3, <2>4 DEF Outcome, d
<1> QED
  BY <1>2, <1>3

\* What a PATCH reads that finds nothing.
LEMMA PatchReadsNothing ==
  ASSUME SInv, NEW q \in Requests, PatchReadMissing(q)
  PROVE  Outcome(q)
<1> DEFINE body == Line(q)
           code == call[q].code
<1>1. /\ pc[q] = "read" /\ call[q].verb = "patch" /\ Working(q) /\ call[q] # Null
      /\ body.identifier \in Ids \cup {Absent, Nulled} /\ body.uuid \in Uuids \cup {Absent, Nulled}
      /\ body.val \in Vals \cup {Absent, Nulled}
  BY LineIsBody DEF SInv, PatchReadMissing, At, Working, Async
<1>2. /\ Entity(q) \in Entities /\ code \in IF Entity(q) = "products" THEN Ids ELSE Uuids
      /\ Entities = {"products", "products-uuid"}
  BY <1>1, CallFits DEF SInv, Base, Entities
<1>3. Lookup(View(q), Entity(q), code) = Null
  BY DEF PatchReadMissing
<1>4. IF Entity(q) = "products" THEN View(q)[code] = Null ELSE ~HasUuid(View(q), code)
  BY <1>2, <1>3, LookupFinds
<1>5. CASE Raise(q, 422)
  BY <1>5 DEF Outcome
<1>6. CASE ~Raise(q, 422)
  <2>1. Continue(q, "check") /\ UNCHANGED <<at, results, tasks>>
    BY <1>6 DEF PatchReadMissing
  <2>2. ASSUME Entity(q) = "products" PROVE Outcome(q)
    <3>1. PICK u \in EnsuredUuids(q, body.uuid) :
                 Prepare(q, Null, [id |-> code, uuid |-> u, val |-> body.val])
      BY <1>6, <2>2 DEF PatchReadMissing
    <3> DEFINE d == [id |-> code, uuid |-> u, val |-> body.val]
    <3>2. d \in Documents /\ d.id = code
      BY <1>1, <1>2, <2>2, EnsuredAreUuids DEF Documents, Columns
    <3>3. CheckFits(q, Null, d)
      BY <1>1, <1>4, <2>2, <3>2 DEF CheckFits, Batch
    <3> HIDE DEF d
    <3> QED
      BY <2>1, <3>1, <3>2, <3>3 DEF Outcome, d
  <2>3. ASSUME Entity(q) = "products-uuid" PROVE Outcome(q)
    <3> DEFINE d == [id |-> body.identifier, uuid |-> code, val |-> body.val]
    <3>1. Prepare(q, Null, d) /\ body.identifier \in Ids
      BY <1>1, <1>6, <2>3 DEF PatchReadMissing, Given
    <3>2. d \in Documents /\ d.uuid = code
      BY <1>1, <1>2, <2>3, <3>1 DEF Documents, Columns
    <3>3. Owns(View(q), d.uuid, Null)
      BY <1>4, <2>3, <3>2, StoreAssumption DEF Owns, HasUuid
    <3>4. CheckFits(q, Null, d)
      BY <1>1, <2>3, <3>3 DEF CheckFits, Batch
    <3> HIDE DEF d
    <3> QED
      BY <2>1, <3>1, <3>2, <3>4 DEF Outcome
  <2> QED
    BY <1>2, <2>2, <2>3
<1> QED
  BY <1>5, <1>6

\* What a PATCH reads that finds a row.
LEMMA PatchReadsRow ==
  ASSUME SInv, NEW q \in Requests, PatchReadRow(q)
  PROVE  Outcome(q)
<1> DEFINE body == Line(q)
           code == call[q].code
           i == Lookup(View(q), Entity(q), code)
           row == View(q)[i]
<1>1. /\ pc[q] = "read" /\ call[q].verb = "patch" /\ Working(q) /\ call[q] # Null
      /\ body.identifier \in Ids \cup {Absent, Nulled} /\ body.uuid \in Uuids \cup {Absent, Nulled}
      /\ body.val \in Vals \cup {Absent, Nulled} /\ body \in Body
      /\ \A j, u : IsAbout(q, at[q], j) /\ body.uuid \in {u, Nulled} => Named(q, j, u)
  BY LineIsBody DEF SInv, PatchReadRow, At, Working, Async
<1>2. /\ Entity(q) \in Entities /\ code \in IF Entity(q) = "products" THEN Ids ELSE Uuids
      /\ Entities = {"products", "products-uuid"}
  BY <1>1, CallFits DEF SInv, Base, Entities
<1>3. i \in Columns /\ row # Null /\ View(q) = table /\ UuidsDiffer(View(q))
  <2>1. i # Null
    BY DEF PatchReadRow
  <2>2. DOMAIN mine[q] = {}
    BY <1>1 DEF SInv, Base, MineFits, Batch
  <2> QED
    BY <1>1, <1>2, <2>1, <2>2, LookupFinds, ViewOfNothing DEF SInv, Base, HandlerFits
<1>4. row \in Rows
  BY <1>3, ViewIsTable DEF SInv, Base, Tables
<1>5. Owns(View(q), row.uuid, i)
  BY <1>3, OwnerIsFound
<1>8. Entity(q) = "products" => i = code
  <2>1. i # Null
    BY DEF PatchReadRow
  <2> QED
    BY <2>1 DEF Lookup
<1>6. CASE Raise(q, 422)
  BY <1>6 DEF Outcome
<1>7. CASE ~Raise(q, 422)
  <2>0. Continue(q, "check") /\ UNCHANGED <<at, results, tasks>>
    BY <1>7 DEF PatchReadRow
  <2>6. PICK u \in PatchedUuids(q, row, body) :
               Prepare(q, i, [id |-> IF Entity(q) = "products" \/ ~Given(body.identifier)
                                     THEN i ELSE body.identifier,
                              uuid |-> u,
                              val |-> PatchVal(row.val, body.val)])
    BY <1>7 DEF PatchReadRow
  <2> DEFINE d == [id |-> IF Entity(q) = "products" \/ ~Given(body.identifier)
                          THEN i ELSE body.identifier,
                   uuid |-> u,
                   val |-> PatchVal(row.val, body.val)]
  <2>1. Prepare(q, i, d) /\ Continue(q, "check") /\ UNCHANGED <<at, results, tasks>>
    BY <2>0, <2>6
  <2> HIDE DEF i, row
  <2>7. /\ u \in Uuids
        /\ Entity(q) = "products-uuid" => u = row.uuid
        /\ u = row.uuid \/ u = body.uuid \/ body.uuid = Nulled
    BY <1>1, <1>4, PatchedIs
  <2>2. d \in Documents
    BY <1>1, <1>3, <1>4, <2>7 DEF Documents, Columns, Rows, PatchVal, Given
  <2>3. /\ d.id = IF Entity(q) = "products" \/ ~Given(body.identifier) THEN i ELSE body.identifier
        /\ d.uuid = u
    OBVIOUS
  <2> HIDE DEF d
  <2>4. Seen(q, d)
    <3>1. CASE Entity(q) = "products"
      BY <1>3, <2>3, <3>1 DEF Seen, Was, row
    <3>2. CASE Entity(q) = "products-uuid"
      BY <1>3, <2>3, <2>7, <3>2 DEF Seen, Was, HasUuid, row
    <3> QED
      BY <1>2, <3>1, <3>2
  <2>5. CheckFits(q, i, d)
    <3>1. ASSUME Entity(q) = "products" PROVE i = d.id /\ KeepsUuid(q, d)
      <4>1. i = d.id /\ i = code
        BY <1>8, <2>3, <3>1
      <4>2. IsAbout(q, at[q], i)
        BY <1>1, <3>1, <4>1 DEF IsAbout
      <4> QED
        BY <1>1, <2>3, <2>7, <4>1, <4>2 DEF KeepsUuid, row
    <3>2. Entity(q) = "products-uuid" => Owns(View(q), d.uuid, i)
      BY <1>5, <2>3, <2>7
    <3> QED
      BY <1>1, <1>3, <2>4, <3>1, <3>2, StoreAssumption DEF CheckFits, Batch
  <2> QED
    BY <1>3, <2>1, <2>2, <2>5 DEF Outcome
<1> QED
  BY <1>6, <1>7

\* What a line of a batch reads.
LEMMA BatchReads ==
  ASSUME SInv, NEW q \in Requests, BatchRead(q)
  PROVE  Outcome(q)
<1> DEFINE body == Line(q)
           e == Entity(q)
           code == PkField(e, body)
           i == Lookup(View(q), e, code)
           row == View(q)[i]
<1>1. /\ pc[q] = "read" /\ Batch(q) /\ Working(q) /\ call[q] # Null
      /\ body.identifier \in Ids \cup {Absent, Nulled} /\ body.uuid \in Uuids \cup {Absent, Nulled}
      /\ body.val \in Vals \cup {Absent, Nulled} /\ body \in Body
      /\ \A j, u : IsAbout(q, at[q], j) /\ body.uuid \in {u, Nulled} => Named(q, j, u)
  BY LineIsBody DEF SInv, BatchRead, At, Working, Async, Batch
<1>2. /\ e \in Entities /\ Entities = {"products", "products-uuid"}
      /\ code = IF e = "products" THEN body.identifier ELSE body.uuid
  BY <1>1, CallFits DEF SInv, Base, Entities, PkField
<1>3. UuidsDiffer(View(q)) /\ BatchFits(q) /\ View(q) \in Tables
  BY <1>1, ViewIsTable DEF SInv, Base, HandlerFits
<1>4. CASE Raise(q, 422) \/ (NextLine(q, 400) /\ UNCHANGED <<found, doc, tasks>>)
  BY <1>1, <1>4 DEF Outcome
<1>5. CASE ~(Raise(q, 422) \/ (NextLine(q, 400) /\ UNCHANGED <<found, doc, tasks>>))
  <2>1. Given(code)
    BY <1>5 DEF BatchRead
  <2>2. code \in IF e = "products" THEN Ids ELSE Uuids
    BY <1>1, <1>2, <2>1 DEF Given
  <2>3. /\ i # Null => i \in Columns /\ row # Null
                       /\ IF e = "products" THEN i = code ELSE row.uuid = code
        /\ i = Null => IF e = "products" THEN View(q)[code] = Null ELSE ~HasUuid(View(q), code)
    BY <1>2, <2>2, LookupFinds
  <2>4. ASSUME i = Null PROVE Outcome(q)
    <3>1. /\ e = "products-uuid" => Given(body.identifier)
          /\ Continue(q, IF e = "products" THEN "check" ELSE "write")
          /\ UNCHANGED <<at, results, tasks>>
      BY <1>5, <2>1, <2>4 DEF BatchRead
    <3>2. PICK u \in EnsuredUuids(q, body.uuid) :
                 Prepare(q, Null, [id |-> body.identifier, uuid |-> u, val |-> body.val])
      BY <1>5, <2>1, <2>4 DEF BatchRead
    <3> DEFINE d == [id |-> body.identifier, uuid |-> u, val |-> body.val]
    <3>3. d \in Documents /\ d.id = body.identifier /\ d.uuid = u
      BY <1>1, <1>2, <2>1, <3>1, EnsuredAreUuids DEF Documents, Columns, Entities, Given
    <3> HIDE DEF d
    <3>4. CASE e = "products"
      <4>1. CheckFits(q, Null, d)
        BY <1>1, <1>2, <2>1, <2>3, <2>4, <3>3, <3>4 DEF CheckFits, Batch
      <4> QED
        BY <3>1, <3>2, <3>3, <3>4, <4>1 DEF Outcome, d
    <3>5. CASE e = "products-uuid"
      <4>1. d.uuid = body.uuid /\ ~HasUuid(View(q), d.uuid)
        BY <1>1, <1>2, <2>1, <2>3, <2>4, <3>3, <3>5, EnsuredAreUuids
      <4>2. ~UniqueViolation(View(q), d)
        BY <4>1 DEF UniqueViolation, HasUuid
      <4>3. KeepsUuid(q, d)
        <5>1. IsAbout(q, at[q], d.id)
          BY <1>1, <3>1, <3>3, <3>5 DEF IsAbout, Line, Given, Batch
        <5> QED
          BY <1>1, <4>1, <5>1 DEF KeepsUuid
      <4>4. WriteFits(q, Null, d)
        BY <1>1, <3>1, <3>5, <4>2, <4>3 DEF WriteFits, Batch, Given
      <4> QED
        BY <1>1, <3>1, <3>2, <3>3, <3>5, <4>4 DEF Outcome, d
    <3> QED
      BY <1>2, <3>4, <3>5
  <2>5. ASSUME i # Null PROVE Outcome(q)
    <3>10. /\ Continue(q, "write") /\ UNCHANGED <<at, results, tasks>>
           /\ e = "products-uuid" => body.identifier # Nulled
      BY <1>5, <2>1, <2>5 DEF BatchRead
    <3>11. PICK u \in PatchedUuids(q, row, body) :
                  Prepare(q, i, [id |-> IF e = "products" THEN i
                                        ELSE IF body.identifier = Absent THEN Blank ELSE body.identifier,
                                 uuid |-> u,
                                 val |-> PatchVal(row.val, body.val)])
      BY <1>5, <2>1, <2>5 DEF BatchRead
    <3> DEFINE d == [id |-> IF e = "products" THEN i
                            ELSE IF body.identifier = Absent THEN Blank ELSE body.identifier,
                     uuid |-> u,
                     val |-> PatchVal(row.val, body.val)]
    <3>1. Prepare(q, i, d) /\ Continue(q, "write") /\ UNCHANGED <<at, results, tasks>>
      BY <3>10, <3>11
    <3>2. i \in Columns /\ row \in Rows /\ Owns(View(q), row.uuid, i) /\ row # Null
      BY <1>3, <2>3, <2>5, OwnerIsFound DEF Tables
    <3>3. View(q)[i] = IF i \in DOMAIN mine[q] THEN mine[q][i] ELSE table[i]
      BY <3>2, ViewIsTable DEF SInv, Base
    <3>4. row = View(q)[i]
      OBVIOUS
    <3>5. IF e = "products" THEN i = code ELSE row.uuid = code
      BY <2>3, <2>5
    <3> HIDE DEF i, row
    <3>12. /\ u \in Uuids
           /\ e = "products-uuid" => u = row.uuid
           /\ u = row.uuid \/ u = body.uuid \/ (body.uuid = Nulled /\ ~HasUuid(View(q), u))
      BY <1>1, <3>2, PatchedIs
    <3>6. d \in Documents
      BY <1>1, <1>2, <3>2, <3>10, <3>12 DEF Documents, Columns, Rows, PatchVal
    <3>7. /\ d.id = IF e = "products" THEN i
                    ELSE IF body.identifier = Absent THEN Blank ELSE body.identifier
          /\ d.uuid = u
      OBVIOUS
    <3> HIDE DEF d
    <3>8. Seen(q, d)
      <4>1. CASE i \in DOMAIN mine[q]
        <5>1. \E m \in DOMAIN tasks[q] : tasks[q][m].id = i
          BY <1>3, <3>2, <3>3, <3>4, <4>1 DEF BatchFits
        <5>2. CASE d.id = i
          BY <5>1, <5>2 DEF Seen
        <5>3. CASE d.id # i
          BY <1>2, <3>2, <3>3, <3>4, <3>7, <3>12, <4>1, <5>3 DEF Seen
        <5> QED
          BY <5>2, <5>3
      <4>2. CASE i \notin DOMAIN mine[q]
        BY <1>2, <3>2, <3>3, <3>4, <3>7, <3>12, <4>2 DEF Seen, Was, HasUuid
      <4> QED
        BY <4>1, <4>2
    <3>9. WriteFits(q, i, d)
      <4>1. UniqueViolation(View(q), d) => body.uuid = d.uuid /\ body.identifier \in {d.id, Absent}
        <5>1. CASE u = row.uuid
          <6>1. CASE e = "products"
            BY <3>2, <3>7, <5>1, <6>1 DEF UniqueViolation, Owns
          <6>2. CASE e = "products-uuid"
            BY <1>2, <3>5, <3>7, <5>1, <6>2
          <6> QED
            BY <1>2, <6>1, <6>2
        <5>2. CASE u = body.uuid
          BY <1>2, <3>5, <3>7, <3>12, <5>2
        <5>3. CASE ~HasUuid(View(q), u)
          BY <3>7, <5>3 DEF UniqueViolation, HasUuid
        <5> QED
          BY <3>12, <5>1, <5>2, <5>3
      <4>2. KeepsUuid(q, d)
        <5>1. IsAbout(q, at[q], d.id)
          <6>1. CASE e = "products"
            BY <1>1, <1>2, <2>1, <3>5, <3>7, <6>1 DEF IsAbout, Line, Given, Batch
          <6>2. CASE e = "products-uuid"
            BY <1>1, <3>7, <6>2 DEF IsAbout, Line, Batch
          <6> QED
            BY <1>2, <6>1, <6>2
        <5>2. CASE e = "products"
          BY <1>1, <3>4, <3>7, <3>12, <5>1, <5>2 DEF KeepsUuid
        <5>3. CASE e = "products-uuid"
          BY <1>1, <1>2, <3>5, <3>7, <3>12, <5>1, <5>3 DEF KeepsUuid
        <5> QED
          BY <1>2, <5>2, <5>3
      <4>3. body.identifier = Absent => d.id = Blank
        BY <1>2, <2>1, <3>7 DEF Given
      <4> QED
        BY <1>1, <3>2, <3>8, <4>1, <4>2, <4>3, StoreAssumption DEF WriteFits, Batch
    <3> QED
      BY <1>1, <3>1, <3>2, <3>6, <3>9 DEF Outcome
  <2> QED
    BY <2>4, <2>5
<1> QED
  BY <1>4, <1>5

Reads(q) == PostRead(q) \/ PatchReadMissing(q) \/ PatchReadRow(q) \/ BatchRead(q)

\* What any of them reads.
LEMMA ReadStep ==
  ASSUME SInv, NEW q \in Requests, Reads(q)
  PROVE  Outcome(q) /\ pc[q] = "read" /\ Async(q) /\ mine' = mine
<1>1. Outcome(q)
  BY PostReads, PatchReadsNothing, PatchReadsRow, BatchReads DEF Reads
<1> QED
  BY <1>1 DEF Reads, PostRead, PatchReadMissing, PatchReadRow, BatchRead, At, Async

----------------------------------------------------------------------------
(* Types. *)

Answers == {200, 201, 204, 404, 409, 422, 500}
Statuses == {201, 204, 400, 409}

\* TypeOK but for the rows.
Locals ==
  /\ loop \in Requests \cup {Null}
  /\ pc \in [Requests -> Stages]
  /\ call \in [Requests -> Calls \cup {Null}]
  /\ at \in [Requests -> Nat \ {0}]
  /\ found \in [Requests -> Columns \cup {Null}]
  /\ doc \in [Requests -> Documents \cup {Null}]
  /\ reply \in [Requests -> Answers \cup {0}]
  /\ results \in [Requests -> Seq(Statuses)]
  /\ tasks \in [Requests -> Seq(Events)]

TypedRows(r) == DOMAIN mine[r] \subseteq Columns /\ \A i \in DOMAIN mine[r] : mine[r][i] \in Rows \cup {Null}

LEMMA TypesMake ==
  TypeOK <=> Locals /\ table \in Tables /\ gone \subseteq Columns \cup Uuids /\ \A r \in Requests : TypedRows(r)
BY DEF TypeOK, Locals, TypedRows, Answers, Statuses

\* Returning or raising keeps the types,
LEMMA SettleTypes ==
  ASSUME Locals, NEW q \in Requests, NEW stage \in Stages, NEW code \in Answers, Settle(q, stage, code),
         UNCHANGED <<call, local>>, tasks' \in [Requests -> Seq(Events)]
  PROVE  Locals'
BY DEF Locals, Settle, Goto, local

LEMMA RaiseTypes ==
  ASSUME Locals, NEW q \in Requests, NEW code \in Answers, Raise(q, code)
  PROVE  Locals'
<1>1. "raised" \in Stages /\ tasks' \in [Requests -> Seq(Events)]
  BY DEF Stages, Raise, Locals
<1> QED
  BY <1>1, SettleTypes DEF Raise

\* going on does,
LEMMA ContinueTypes ==
  ASSUME Locals, NEW q \in Requests, NEW stage \in Stages, Continue(q, stage),
         UNCHANGED <<at, results, tasks>>, found' \in [Requests -> Columns \cup {Null}],
         doc' \in [Requests -> Documents \cup {Null}]
  PROVE  Locals'
BY DEF Locals, Continue, Goto

\* and so does the next line.
LEMMA NextLineTypes ==
  ASSUME Locals, NEW q \in Requests, NEW status \in Statuses, NextLine(q, status),
         UNCHANGED <<found, doc>>, tasks' \in [Requests -> Seq(Events)]
  PROVE  Locals'
<1>1. results' \in [Requests -> Seq(Statuses)]
  <2>1. Append(results[q], status) \in Seq(Statuses)
    BY AppendProperties DEF Locals
  <2> QED
    BY <2>1 DEF NextLine, Locals
<1>2. pc' \in [Requests -> Stages] /\ at' \in [Requests -> Nat \ {0}]
  BY DEF NextLine, Goto, Locals, Stages
<1> QED
  BY <1>1, <1>2 DEF NextLine, Locals

\* An event is appended.
LEMMA AnnounceTypes ==
  ASSUME Locals, NEW q \in Requests, NEW action \in {"created", "updated", "deleted"},
         doc[q] \in Documents, Announce(q, action, doc[q])
  PROVE  \E e \in Events :
           /\ tasks' \in [Requests -> Seq(Events)] /\ tasks'[q] = Append(tasks[q], e)
           /\ e.action = action /\ e.id = doc[q].id /\ e.uuid = doc[q].uuid
<1> DEFINE e == [action |-> action, id |-> doc[q].id, uuid |-> doc[q].uuid]
<1>1. e \in Events /\ e.action = action /\ e.id = doc[q].id /\ e.uuid = doc[q].uuid
  BY DEF Events, Documents
<1>2. tasks' = [tasks EXCEPT ![q] = Append(@, e)]
  BY DEF Announce
<1> HIDE DEF e
<1>3. Append(tasks[q], e) \in Seq(Events)
  BY <1>1, AppendProperties DEF Locals
<1>4. tasks' \in [Requests -> Seq(Events)] /\ tasks'[q] = Append(tasks[q], e)
  BY <1>2, <1>3 DEF Locals
<1> QED
  BY <1>1, <1>4

\* The document that a request has in hand.
LEMMA DocIsThere ==
  ASSUME Base, NEW q \in Requests,
         pc[q] \in {"check", "rename", "write", "lock"} \/ (pc[q] = "commit" /\ call[q].verb = "delete")
  PROVE  doc[q] \in Documents
BY DEF Base, TypeOK, StageFits, Async

\* Every step keeps the types of what is not a row.
LEMMA LocalsStep ==
  ASSUME SInv, NEW q \in Requests, Acts(q)
  PROVE  Locals'
<1>0. Base /\ Locals /\ table \in Tables /\ Null \notin Requests
  BY TypesMake, StoreAssumption DEF SInv, Base
<1>1. ASSUME NEW c \in Calls, Receive(q, c) PROVE Locals'
  BY <1>0, <1>1 DEF Receive, Goto, Locals, Stages
<1>2. CASE StartHandler(q)
  BY <1>0, <1>2 DEF StartHandler, Goto, Locals, Stages, local
<1>3. CASE Reads(q)
  <2>1. Outcome(q)
    BY <1>3, ReadStep
  <2>2. CASE \E code \in {409, 422} : Raise(q, code)
    BY <1>0, <2>2, RaiseTypes DEF Answers
  <2>3. CASE NextLine(q, 400) /\ UNCHANGED <<found, doc, tasks>>
    <3>1. tasks' \in [Requests -> Seq(Events)] /\ 400 \in Statuses
      BY <1>0, <2>3 DEF Locals, Statuses
    <3> QED
      BY <1>0, <2>3, <3>1, NextLineTypes
  <2>4. ASSUME NEW i \in Columns \cup {Null}, NEW d \in Documents, NEW stage \in {"check", "write"},
               Prepare(q, i, d), Continue(q, stage), UNCHANGED <<at, results, tasks>>
        PROVE  Locals'
    <3>1. /\ found' \in [Requests -> Columns \cup {Null}] /\ doc' \in [Requests -> Documents \cup {Null}]
          /\ stage \in Stages
      BY <1>0, <2>4 DEF Locals, Prepare, Stages
    <3> QED
      BY <1>0, <2>4, <3>1, ContinueTypes
  <2> QED
    BY <2>1, <2>2, <2>3, <2>4 DEF Outcome
<1>4. ASSUME NEW stage \in Stages, Continue(q, stage), UNCHANGED <<local, tasks>> PROVE Locals'
  BY <1>0, <1>4, ContinueTypes DEF local, Locals
<1>5. {"check", "rename", "write", "lock", "commit", "raised", "exiting", "done"} \subseteq Stages
      /\ {404, 409, 422, 500} \subseteq Answers
  BY DEF Stages, Answers
<1>6. CASE PostCheck(q) \/ PatchCheck(q)
  <2>1. Raise(q, 409) \/ \E stage \in {"write", "rename"} : Continue(q, stage) /\ UNCHANGED <<local, tasks>>
    BY <1>6 DEF PostCheck, PatchCheck
  <2> QED
    BY <1>0, <1>4, <1>5, <2>1, RaiseTypes
<1>7. ASSUME NEW code \in {201, 204}, NEW action \in {"created", "updated"}, pc[q] = "write",
             SingleWrite(q, code, action)
      PROVE  Locals'
  <2>1. UNCHANGED <<call, local>>
    BY <1>7 DEF SingleWrite
  <2>2. CASE \E refused \in {422, 500} : Settle(q, "raised", refused) /\ UNCHANGED tasks
    <3>1. tasks' \in [Requests -> Seq(Events)]
      BY <1>0, <2>2 DEF Locals
    <3> QED
      BY <1>0, <1>5, <2>1, <2>2, <3>1, SettleTypes
  <2>3. CASE Announce(q, action, doc[q]) /\ Settle(q, "done", code)
    <3>0. doc[q] \in Documents
      BY <1>0, <1>7, DocIsThere
    <3>1. code \in Answers /\ action \in {"created", "updated", "deleted"} /\ Announce(q, action, doc[q])
      BY <1>7, <2>3 DEF Answers
    <3>2. tasks' \in [Requests -> Seq(Events)]
      BY <1>0, <3>0, <3>1, AnnounceTypes
    <3> QED
      BY <1>0, <1>5, <2>1, <2>3, <3>1, <3>2, SettleTypes
  <2> QED
    BY <1>7, <2>2, <2>3 DEF SingleWrite
<1>8. CASE PostWrite(q) \/ PatchWrite(q)
  BY <1>7, <1>8 DEF PostWrite, PatchWrite, At
<1>9. CASE RenameDelete(q)
  BY <1>4, <1>5, <1>9 DEF RenameDelete
<1>10. CASE BatchCheck(q)
  <2>1. CASE NextLine(q, 409)
    <3>1. tasks' \in [Requests -> Seq(Events)] /\ 409 \in Statuses
      BY <1>0, <1>10 DEF Locals, Statuses, BatchCheck
    <3> QED
      BY <1>0, <1>10, <2>1, <3>1, NextLineTypes DEF BatchCheck
  <2>2. CASE ~NextLine(q, 409)
    BY <1>4, <1>5, <1>10, <2>2 DEF BatchCheck, local
  <2> QED
    BY <2>1, <2>2
<1>11. CASE BatchWrite(q)
  <2>1. CASE Raise(q, 500)
    BY <1>0, <1>5, <2>1, RaiseTypes
  <2>2. CASE ~Raise(q, 500)
    <3>1. PICK action \in {"created", "updated"}, status \in {201, 204} :
                 /\ Announce(q, action, doc[q]) /\ NextLine(q, status)
                 /\ UNCHANGED <<found, doc>>
      BY <1>11, <2>2 DEF BatchWrite
    <3>0. doc[q] \in Documents
      BY <1>0, <1>11, DocIsThere DEF BatchWrite, At
    <3>2. tasks' \in [Requests -> Seq(Events)]
      <4>1. action \in {"created", "updated", "deleted"} /\ Announce(q, action, doc[q])
        BY <3>1
      <4> QED
        BY <1>0, <3>0, <4>1, AnnounceTypes
    <3>3. status \in Statuses
      BY <3>1 DEF Statuses
    <3> QED
      BY <1>0, <3>1, <3>2, <3>3, NextLineTypes
  <2> QED
    BY <2>1, <2>2
<1>19. CASE BatchNullId(q)
  BY <1>0, <1>5, <1>19, RaiseTypes DEF BatchNullId
<1>12. CASE BatchCommit(q)
  <2>1. tasks' \in [Requests -> Seq(Events)] /\ 200 \in Answers
    BY <1>0, <1>12 DEF BatchCommit, Locals, Answers
  <2> QED
    BY <1>0, <1>5, <1>12, <2>1, SettleTypes DEF BatchCommit
<1>13. CASE DeleteRead(q)
  <2> DEFINE i == Lookup(table, Entity(q), call[q].code)
  <2>1. CASE Raise(q, 404)
    BY <1>0, <1>5, <2>1, RaiseTypes
  <2>2. CASE ~Raise(q, 404)
    <3>1. i # Null /\ Prepare(q, i, [id |-> i, uuid |-> table[i].uuid, val |-> Absent])
          /\ Continue(q, "write") /\ UNCHANGED <<at, results, tasks>>
      BY <1>13, <2>2 DEF DeleteRead
    <3>2. call[q] # Null /\ call[q].verb = "delete"
      BY <1>0, <1>13 DEF DeleteRead, At, Base, StageFits
    <3>3. i \in Columns /\ table[i] \in Rows
      BY <1>0, <3>1, <3>2, CallFits, LookupFinds DEF Tables, Base
    <3> HIDE DEF i
    <3>4. [id |-> i, uuid |-> table[i].uuid, val |-> Absent] \in Documents
      BY <3>3 DEF Documents, Rows
    <3>5. found' \in [Requests -> Columns \cup {Null}] /\ doc' \in [Requests -> Documents \cup {Null}]
      BY <1>0, <3>1, <3>3, <3>4 DEF Prepare, Locals
    <3> QED
      BY <1>0, <1>5, <3>1, <3>5, ContinueTypes
  <2> QED
    BY <2>1, <2>2
<1>14. CASE DeleteStart(q)
  <2> DEFINE i == Lookup(table, Entity(q), call[q].code)
  <2>1. call[q] # Null /\ call[q].verb = "delete"
    BY <1>0, <1>14 DEF DeleteStart, At, Base, StageFits
  <2>2. i \in Columns \cup {Null}
    BY <1>0, <2>1, CallFits, LookupFinds DEF Base
  <2>3. found' = [found EXCEPT ![q] = i] /\ doc' = doc
    BY <1>14 DEF DeleteStart
  <2>4. found' \in [Requests -> Columns \cup {Null}] /\ doc' \in [Requests -> Documents \cup {Null}]
    BY <1>0, <2>2, <2>3 DEF Locals
  <2> QED
    BY <1>0, <1>5, <1>14, <2>4, ContinueTypes DEF DeleteStart
<1>15. CASE DeleteRow(q)
  BY <1>4, <1>5, <1>15 DEF DeleteRow
<1>16. CASE DeleteCommit(q)
  <2>1. tasks' \in [Requests -> Seq(Events)] /\ 204 \in Answers
    BY <1>0, <1>16, AnnounceTypes, DocIsThere DEF DeleteCommit, At, Answers
  <2> QED
    BY <1>0, <1>5, <1>16, <2>1, SettleTypes DEF DeleteCommit
<1>17. CASE DispatchExit(q) \/ Rollback(q)
  <2>1. \E stage \in {"exiting", "done"} : Goto(q, stage)
    BY <1>17 DEF DispatchExit, Rollback
  <2>2. UNCHANGED <<loop, call, local, reply>> /\ (tasks' = tasks \/ tasks' = [tasks EXCEPT ![q] = <<>>])
    BY <1>17 DEF DispatchExit, Rollback
  <2>3. tasks' \in [Requests -> Seq(Events)]
    <3> DEFINE none == <<>>
    <3>1. none \in Seq(Events) /\ (tasks' = tasks \/ tasks' = [tasks EXCEPT ![q] = none])
      BY <2>2, EmptySeq
    <3> HIDE DEF none
    <3> QED
      BY <1>0, <3>1 DEF Locals
  <2>4. pc' \in [Requests -> Stages]
    BY <1>0, <1>5, <2>1 DEF Locals, Goto
  <2> QED
    BY <1>0, <2>2, <2>3, <2>4 DEF Locals, local
<1>18. CASE Respond(q)
  <2>1. /\ tasks' \in [Requests -> Seq(Events)] /\ results' \in [Requests -> Seq(Statuses)]
    BY <1>0, <1>18, EmptySeq DEF Respond, Locals
  <2>2. /\ found' \in [Requests -> Columns \cup {Null}] /\ doc' \in [Requests -> Documents \cup {Null}]
        /\ call' \in [Requests -> Calls \cup {Null}] /\ reply' \in [Requests -> Answers \cup {0}]
        /\ pc' \in [Requests -> Stages]
    BY <1>0, <1>18 DEF Respond, Goto, Locals, Stages
  <2> QED
    BY <1>0, <1>18, <2>1, <2>2 DEF Respond, Locals
<1> QED
  BY <1>1, <1>2, <1>3, <1>6, <1>8, <1>9, <1>10, <1>11, <1>12, <1>13, <1>14, <1>15, <1>16,
     <1>17, <1>18, <1>19 DEF Acts, Server, Handler, Reads

----------------------------------------------------------------------------
(* Who changes the rows. *)

\* A POST or PATCH stores its document, announces that and commits.
Stores(q) ==
  /\ pc[q] = "write" /\ call[q].verb \in {"post", "patch"}
  /\ \E code \in {201, 204} : reply' = [reply EXCEPT ![q] = code]
  /\ \E action \in {"created", "updated"} :
       Announce(q, action, doc[q]) /\ (action = "created" => call[q].verb = "post" \/ found[q] = Null)
                                  /\ (action = "updated" => found[q] # Null)
  /\ Free(q, doc[q].id, doc[q].uuid) /\ ~UniqueViolation(View(q), doc[q])
  /\ table' = [View(q) EXCEPT ![doc[q].id] = Upserted(View(q), doc[q])]
  /\ gone' = gone /\ mine' = [mine EXCEPT ![q] = Nothing] /\ pc' = [pc EXCEPT ![q] = "done"]

\* The table changes by commits only.
LEMMA TableStep ==
  ASSUME NEW q \in Requests, Acts(q)
  PROVE  \/ table' = table /\ (gone' = gone \/ StartHandler(q))
         \/ Stores(q) \/ BatchCommit(q) \/ DeleteCommit(q)
<1> USE DEF committed
<1>1. CASE \E c \in Calls : Receive(q, c)
  BY <1>1 DEF Receive
<1>2. CASE StartHandler(q)
  BY <1>2 DEF StartHandler
<1>3. ASSUME NEW code, Raise(q, code) PROVE table' = table /\ gone' = gone
  BY <1>3 DEF Raise
<1>4. ASSUME NEW stage, Continue(q, stage) PROVE table' = table /\ gone' = gone
  BY <1>4 DEF Continue
<1>5. ASSUME NEW status, NextLine(q, status) PROVE table' = table /\ gone' = gone
  BY <1>5 DEF NextLine
<1>6. CASE PostRead(q) \/ PatchReadMissing(q) \/ PatchReadRow(q)
  BY <1>3, <1>4, <1>6 DEF PostRead, PatchReadMissing, PatchReadRow
<1>7. CASE PostCheck(q) \/ PatchCheck(q)
  BY <1>3, <1>4, <1>7 DEF PostCheck, PatchCheck
<1>8. ASSUME NEW code \in {201, 204}, NEW action \in {"created", "updated"}, SingleWrite(q, code, action),
             pc[q] = "write", call[q].verb \in {"post", "patch"},
             action = "created" => call[q].verb = "post" \/ found[q] = Null,
             action = "updated" => found[q] # Null
      PROVE  (table' = table /\ gone' = gone) \/ Stores(q)
  BY <1>8 DEF SingleWrite, Stores, Settle, Goto
<1>9. CASE PostWrite(q) \/ PatchWrite(q)
  BY <1>8, <1>9 DEF PostWrite, PatchWrite, At
<1>10. CASE RenameDelete(q) \/ DeleteStart(q) \/ DeleteRow(q)
  BY <1>4, <1>10 DEF RenameDelete, DeleteStart, DeleteRow
<1>11. CASE BatchRead(q)
  BY <1>3, <1>4, <1>5, <1>11 DEF BatchRead
<1>12. CASE BatchCheck(q)
  BY <1>4, <1>5, <1>12 DEF BatchCheck
<1>13. CASE BatchWrite(q)
  BY <1>3, <1>5, <1>13 DEF BatchWrite
<1>16. CASE BatchNullId(q)
  BY <1>3, <1>16 DEF BatchNullId
<1>14. CASE DeleteRead(q)
  BY <1>3, <1>4, <1>14 DEF DeleteRead
<1>15. CASE DispatchExit(q) \/ Rollback(q) \/ Respond(q)
  BY <1>15 DEF DispatchExit, Rollback, Respond
<1> QED
  BY <1>1, <1>2, <1>6, <1>7, <1>9, <1>10, <1>11, <1>12, <1>13, <1>14, <1>15, <1>16
     DEF Acts, Server, Handler

\* What writing a row does to a transaction.
LEMMA WriteRow ==
  ASSUME IsMap(mine), NEW q \in Requests, NEW i, NEW row, Write(q, i, row)
  PROVE  /\ IsMap(mine') /\ DOMAIN mine'[q] = DOMAIN mine[q] \cup {i}
         /\ mine'[q][i] = row
         /\ \A j \in DOMAIN mine[q] : j # i => mine'[q][j] = mine[q][j]
<1>1. mine' = [mine EXCEPT ![q] = [j \in DOMAIN mine[q] \cup {i} |-> IF j = i THEN row ELSE mine[q][j]]]
  BY DEF Write
<1>2. IsMap(mine') /\ mine'[q] = [j \in DOMAIN mine[q] \cup {i} |-> IF j = i THEN row ELSE mine[q][j]]
  BY <1>1 DEF IsMap
<1> QED
  BY <1>2

\* Whose rows change: they are given up, or a row is added that no other has.
Adds(q, i, row) ==
  /\ i \in Columns /\ row \in Rows \cup {Null} /\ Write(q, i, row)
  /\ \A h \in Requests \ {q} : i \notin DOMAIN mine[h]

LEMMA MineStep ==
  ASSUME SInv, NEW q \in Requests, Acts(q)
  PROVE  \/ mine' = mine
         \/ mine' = [mine EXCEPT ![q] = Nothing]
         \/ RenameDelete(q) /\ found[q] # Null /\ Adds(q, found[q], Null)
         \/ DeleteRow(q) /\ found[q] # Null /\ table[found[q]] # Null /\ Adds(q, found[q], Null)
         \/ /\ BatchWrite(q) /\ ~UniqueViolation(View(q), doc[q])
            /\ Adds(q, doc[q].id, Upserted(View(q), doc[q])) /\ Upserted(View(q), doc[q]) \in Rows
<1>0. Base /\ TypeOK
  BY DEF SInv, Base
<1>1. CASE \E c \in Calls : Receive(q, c)
  BY <1>1 DEF Receive
<1>2. CASE Reads(q)
  BY <1>2, ReadStep
<1>3. CASE StartHandler(q) \/ PostCheck(q) \/ PatchCheck(q) \/ BatchCheck(q) \/ DeleteRead(q)
           \/ DeleteStart(q) \/ DispatchExit(q) \/ Respond(q)
  BY <1>3 DEF StartHandler, PostCheck, PatchCheck, BatchCheck, DeleteRead, DeleteStart, DispatchExit, Respond
<1>4. CASE PostWrite(q) \/ PatchWrite(q)
  BY <1>4 DEF PostWrite, PatchWrite, SingleWrite
<1>5. CASE RenameDelete(q)
  <2>1. found[q] \in Columns
    <3>1. HandlerFits(q) /\ Working(q) /\ pc[q] = "rename"
      BY <1>5 DEF SInv, RenameDelete, At, Working, Async
    <3> QED
      BY <1>0, <3>1 DEF HandlerFits, LineFits, RenameFits, TypeOK
  <2>2. found[q] # Null
    BY <2>1, StoreAssumption
  <2> QED
    BY <1>5, <2>1, <2>2 DEF RenameDelete, Adds
<1>6. CASE BatchWrite(q)
  <2>1. CASE UniqueViolation(View(q), doc[q])
    BY <1>6, <2>1 DEF BatchWrite
  <2>2. CASE ~UniqueViolation(View(q), doc[q])
    <3>1. doc[q] \in Documents /\ View(q) \in Tables
      BY <1>0, <1>6, DocIsThere, ViewIsTable DEF BatchWrite, At
    <3>2. Upserted(View(q), doc[q]) \in Rows /\ doc[q].id \in Columns
      BY <3>1, UpsertedIsRow DEF Documents
    <3> QED
      BY <1>6, <2>2, <3>2 DEF BatchWrite, Adds, Free, Blocks
  <2> QED
    BY <2>1, <2>2
<1>7. CASE BatchCommit(q) \/ DeleteCommit(q) \/ Rollback(q) \/ BatchNullId(q)
  BY <1>7 DEF BatchCommit, DeleteCommit, Rollback, BatchNullId
<1>8. CASE DeleteRow(q)
  <2> DEFINE i == found[q]
             held == Lookup(table, Entity(q), call[q].code)
  <2>1. CASE i = Null \/ held # i
    BY <1>8, <2>1 DEF DeleteRow
  <2>2. CASE ~(i = Null \/ held # i)
    <3>1. call[q] # Null /\ call[q].verb = "delete"
      BY <1>0, <1>8 DEF DeleteRow, At, Base, StageFits
    <3>2. i \in Columns /\ table[i] # Null
      BY <1>0, <2>2, <3>1, CallFits, LookupFinds
    <3> QED
      BY <1>8, <2>2, <3>2 DEF DeleteRow, Adds
  <2> QED
    BY <2>1, <2>2
<1> QED
  BY <1>1, <1>2, <1>3, <1>4, <1>5, <1>6, <1>7, <1>8 DEF Acts, Server, Handler, Reads

\* The rows that a request has written are rows, and nobody else's.
LEMMA RowsStep ==
  ASSUME SInv, NEW q \in Requests, Acts(q)
  PROVE  IsMap(mine') /\ LocksDiffer' /\ \A r \in Requests : TypedRows(r)'
<1>0. IsMap(mine) /\ LocksDiffer /\ \A r \in Requests : TypedRows(r)
  BY TypesMake DEF SInv, Base
<1>1. CASE mine' = mine
  BY <1>0, <1>1 DEF IsMap, LocksDiffer, TypedRows
<1>2. CASE mine' = [mine EXCEPT ![q] = Nothing]
  <2>1. IsMap(mine') /\ DOMAIN mine'[q] = {} /\ \A r \in Requests \ {q} : mine'[r] = mine[r]
    BY <1>0, <1>2 DEF IsMap, Nothing
  <2> QED
    BY <1>0, <2>1 DEF LocksDiffer, TypedRows
<1>3. ASSUME NEW i, NEW row, Adds(q, i, row)
      PROVE  IsMap(mine') /\ LocksDiffer' /\ \A r \in Requests : TypedRows(r)'
  <2>1. /\ IsMap(mine') /\ DOMAIN mine'[q] = DOMAIN mine[q] \cup {i} /\ mine'[q][i] = row
        /\ \A j \in DOMAIN mine[q] : j # i => mine'[q][j] = mine[q][j]
    BY <1>0, <1>3, WriteRow DEF Adds
  <2>2. \A r \in Requests \ {q} : mine'[r] = mine[r]
    BY <1>0, <1>3 DEF Adds, Write, IsMap
  <2>3. LocksDiffer'
    BY <1>0, <1>3, <2>1, <2>2 DEF LocksDiffer, Adds
  <2>4. \A r \in Requests : TypedRows(r)'
    BY <1>0, <1>3, <2>1, <2>2 DEF TypedRows, Adds
  <2> QED
    BY <2>1, <2>3, <2>4
<1> QED
  BY <1>1, <1>2, <1>3, MineStep

\* A row with the uuid of no other may be added.
LEMMA UpsertDiffers ==
  ASSUME NEW T \in Tables, NEW d \in Documents, UuidsDiffer(T), ~UniqueViolation(T, d)
  PROVE  UuidsDiffer([T EXCEPT ![d.id] = Upserted(T, d)])
<1> DEFINE U == [T EXCEPT ![d.id] = Upserted(T, d)]
<1>1. d.id \in Columns /\ Upserted(T, d).uuid = d.uuid
  BY UpsertedIsRow DEF Documents
<1>2. U[d.id].uuid = d.uuid /\ \A j \in Columns \ {d.id} : U[j] = T[j] /\ (T[j] # Null => T[j].uuid # d.uuid)
  BY <1>1 DEF Tables, UniqueViolation
<1> HIDE DEF U
<1>3. UuidsDiffer(U)
  BY <1>2 DEF UuidsDiffer
<1> QED
  BY <1>3 DEF U

\* Rows that go leave the others different.
Shrinks(T, U) == \A i \in Columns : U[i] = T[i] \/ U[i] = Null

LEMMA ShrinkDiffers ==
  ASSUME NEW T, NEW U, Shrinks(T, U), UuidsDiffer(T)
  PROVE  UuidsDiffer(U)
BY DEF Shrinks, UuidsDiffer

\* A commit makes a table, whose products have different uuids.
LEMMA TableIsKept ==
  ASSUME SInv, NEW q \in Requests, Acts(q)
  PROVE  table' \in Tables /\ UuidsDiffer(table') /\ gone' \subseteq Columns \cup Uuids
<1>0. Base /\ TypeOK /\ UuidsDiffer(table) /\ table \in Tables /\ gone \subseteq Columns \cup Uuids
      /\ View(q) \in Tables
      /\ \A i \in Columns : View(q)[i] = IF i \in DOMAIN mine[q] THEN mine[q][i] ELSE table[i]
  BY ViewIsTable DEF SInv, Base, TypeOK
<1>1. CASE table' = table /\ (gone' = gone \/ StartHandler(q))
  BY <1>0, <1>1 DEF StartHandler
<1>2. CASE Stores(q)
  <2>1. doc[q] \in Documents
    BY <1>0, <1>2, DocIsThere DEF Stores
  <2>2. UuidsDiffer(View(q))
    BY <1>2 DEF Stores, SInv, HandlerFits, Working, Async
  <2> QED
    BY <1>0, <1>2, <2>1, <2>2, UpsertedIsRow, UpsertDiffers DEF Stores
<1>3. CASE BatchCommit(q)
  BY <1>0, <1>3 DEF BatchCommit, At, SInv, HandlerFits, Working, Async
<1>4. CASE DeleteCommit(q)
  <2>1. \A i \in DOMAIN mine[q] : i \in Columns /\ mine[q][i] = Null /\ table[i] # Null
    <3>1. call[q] # Null /\ call[q].verb = "delete"
      BY <1>0, <1>4 DEF DeleteCommit, At, Base, StageFits
    <3>2. \A i \in DOMAIN mine[q] : mine[q][i] = Null /\ table[i] # Null
      BY <1>0, <3>1 DEF Base, MineFits, Async, Batch
    <3> QED
      BY <1>0, <3>2 DEF TypeOK
  <2>2. Shrinks(table, View(q))
    BY <1>0, <2>1 DEF Shrinks
  <2>3. \A i \in DOMAIN mine[q] : table[i].uuid \in Uuids
    BY <1>0, <2>1 DEF Tables, Rows
  <2> QED
    BY <1>0, <1>4, <2>1, <2>2, <2>3, ShrinkDiffers DEF DeleteCommit
<1> QED
  BY <1>1, <1>2, <1>3, <1>4, TableStep

\* What one request has written no other changes in the table.
LEMMA LockedRowsStay ==
  ASSUME SInv, NEW q \in Requests, Acts(q), NEW r \in Requests, r # q, NEW i \in DOMAIN mine[r]
  PROVE  table'[i] = table[i]
<1>0. Base /\ TypeOK /\ i \in Columns /\ i \notin DOMAIN mine[q]
      /\ View(q) \in Tables /\ View(q)[i] = table[i]
  <2>1. Base /\ TypeOK /\ i \in Columns
    BY DEF SInv, Base, TypeOK
  <2>2. i \notin DOMAIN mine[q]
    BY <2>1 DEF Base, LocksDiffer
  <2> QED
    BY <2>1, <2>2, ViewIsTable
<1>1. CASE Stores(q)
  <2>1. i # doc[q].id
    BY <1>1 DEF Stores, Free, Blocks
  <2> QED
    BY <1>0, <1>1, <2>1 DEF Stores, Tables
<1>2. CASE BatchCommit(q) \/ DeleteCommit(q)
  BY <1>0, <1>2 DEF BatchCommit, DeleteCommit
<1> QED
  BY <1>1, <1>2, TableStep

----------------------------------------------------------------------------
(* Every step keeps where a request can be and what it has written. *)

\* The stages of the request that acts.
LEMMA StageStep ==
  ASSUME SInv, NEW q \in Requests, Acts(q)
  PROVE  StageFits(q)'
<1>0. Base /\ TypeOK /\ StageFits(q) /\ Null \notin Requests /\ Null \notin Calls /\ Locals'
  BY LocalsStep, StoreAssumption, CallsAssumption DEF SInv, Base
<1>1. pc \in [Requests -> Stages] /\ call \in [Requests -> Calls \cup {Null}] /\ at \in [Requests -> Nat \ {0}]
      /\ reply \in [Requests -> {0, 200, 201, 204, 404, 409, 422, 500}]
      /\ doc \in [Requests -> Documents \cup {Null}] /\ table \in Tables
  BY <1>0 DEF TypeOK
<1>2. ASSUME NEW c \in Calls, Receive(q, c) PROVE StageFits(q)'
  <2>1. /\ call'[q] = c /\ at'[q] = 1 /\ c # Null
        /\ pc'[q] = IF c.verb = "delete" THEN "read" ELSE "received"
    BY <1>0, <1>1, <1>2 DEF Receive, Goto
  <2> QED
    BY <2>1 DEF StageFits, Working, Async, Batch
<1>3. CASE StartHandler(q)
  <2>1. pc'[q] = "read" /\ loop' = q /\ call' = call /\ at' = at /\ pc[q] = "received"
    BY <1>1, <1>3 DEF StartHandler, Goto, local
  <2>2. call[q] # Null /\ Async(q) /\ at[q] = 1
    BY <1>0, <2>1 DEF StageFits
  <2>3. 1 \in DOMAIN call[q].lines
    BY <1>0, <2>2, CallFits, LenProperties
  <2> QED
    BY <2>1, <2>2, <2>3 DEF StageFits, Working, Async, Batch
<1>4. ASSUME NEW code \in {404, 409, 422, 500}, Raise(q, code), pc[q] # "idle" PROVE StageFits(q)'
  <2>1. pc'[q] = "raised" /\ reply'[q] = code /\ call' = call
    BY <1>1, <1>4 DEF Raise, Settle, Goto
  <2> QED
    BY <1>0, <1>4, <2>1 DEF StageFits, Working, Async, Batch
<1>5. ASSUME NEW stage \in {"check", "rename", "write", "lock", "commit"}, Continue(q, stage),
             pc[q] \in {"read", "check", "rename", "write", "lock"}, at' = at,
             stage = "check" => Async(q),
             stage = "rename" => call[q].verb = "patch" /\ Entity(q) = "products-uuid",
             stage \in {"lock", "commit"} => ~Async(q),
             Async(q) => Working(q), doc'[q] # Null
      PROVE StageFits(q)'
  <2>1. pc'[q] = stage /\ call' = call /\ loop' = loop
    BY <1>1, <1>5 DEF Continue, Goto
  <2>2. pc[q] # "commit" /\ pc[q] # "idle"
    BY <1>5
  <2> QED
    BY <1>0, <1>5, <2>1, <2>2 DEF StageFits, Working, Async, Batch, Entity
<1>6. ASSUME NEW status, NextLine(q, status), Batch(q), pc[q] \in {"read", "check", "write"}
      PROVE  StageFits(q)'
  <2>1. Working(q) /\ loop = q /\ at[q] \in DOMAIN call[q].lines /\ call[q] # Null
    BY <1>0, <1>6 DEF StageFits, Working, Batch, Async
  <2>2. /\ at'[q] = at[q] + 1 /\ call' = call /\ loop' = loop
        /\ pc'[q] = IF at[q] = Len(call[q].lines) THEN "commit" ELSE "read"
    BY <1>1, <1>6 DEF NextLine, Goto
  <2>3. pc'[q] = "read" => at'[q] \in DOMAIN call[q].lines
    <3>1. call[q].lines \in Seq(Body)
      BY <1>0, <2>1, CallFits DEF Working
    <3> QED
      BY <2>1, <2>2, <3>1, LenProperties
  <2> QED
    BY <1>6, <2>1, <2>2, <2>3 DEF StageFits, Working, Async, Batch
<1>7. ASSUME NEW code, Settle(q, "done", code), call' = call, pc[q] # "idle" PROVE StageFits(q)'
  <2>1. pc'[q] = "done"
    BY <1>1, <1>7 DEF Settle, Goto
  <2> QED
    BY <1>0, <1>7, <2>1 DEF StageFits, Working, Async, Batch
<1>8. CASE Reads(q)
  <2>1. Outcome(q) /\ pc[q] = "read" /\ Async(q) /\ Working(q)
    BY <1>8, ReadStep DEF Working
  <2>2. CASE \E code \in {409, 422} : Raise(q, code)
    BY <1>4, <2>1, <2>2
  <2>3. CASE Batch(q) /\ NextLine(q, 400)
    BY <1>6, <2>1, <2>3
  <2>4. ASSUME NEW i \in Columns \cup {Null}, NEW d \in Documents, NEW stage \in {"check", "write"},
               Prepare(q, i, d), Continue(q, stage), at' = at
        PROVE  StageFits(q)'
    <3>1. doc'[q] # Null
      BY <1>1, <2>4, StoreAssumption DEF Prepare
    <3> QED
      BY <1>5, <2>1, <2>4, <3>1
  <2> QED
    BY <2>1, <2>2, <2>3, <2>4 DEF Outcome
<1>9. ASSUME NEW stage \in {"rename", "write", "commit"}, Continue(q, stage), UNCHANGED local,
             pc[q] \in {"check", "rename", "lock"},
             stage = "rename" => call[q].verb = "patch" /\ Entity(q) = "products-uuid",
             stage = "commit" => ~Async(q)
      PROVE StageFits(q)'
  <2>1. doc'[q] # Null /\ at' = at /\ (Async(q) => Working(q))
    BY <1>0, <1>9 DEF StageFits, local, Working
  <2> QED
    BY <1>5, <1>9, <2>1
<1>10. CASE PostCheck(q) \/ PatchCheck(q)
  <2>1. pc[q] = "check"
    BY <1>10 DEF PostCheck, PatchCheck, At
  <2>2. CASE Raise(q, 409)
    BY <1>4, <2>1, <2>2
  <2>3. CASE ~Raise(q, 409)
    BY <1>9, <1>10, <2>1, <2>3 DEF PostCheck, PatchCheck, At
  <2> QED
    BY <2>2, <2>3
<1>11. ASSUME NEW code, NEW action, SingleWrite(q, code, action), pc[q] = "write" PROVE StageFits(q)'
  <2>1. CASE \E refused \in {422, 500} : Settle(q, "raised", refused)
    <3>1. pc'[q] = "raised" /\ reply'[q] \in {422, 500} /\ call' = call
      BY <1>1, <1>11, <2>1 DEF SingleWrite, Settle, Goto
    <3> QED
      BY <1>0, <1>11, <3>1 DEF StageFits, Working, Async, Batch
  <2>2. CASE Settle(q, "done", code)
    BY <1>7, <1>11, <2>2 DEF SingleWrite
  <2> QED
    BY <1>11, <2>1, <2>2 DEF SingleWrite
<1>12. CASE PostWrite(q) \/ PatchWrite(q)
  BY <1>11, <1>12 DEF PostWrite, PatchWrite, At
<1>13. CASE RenameDelete(q)
  BY <1>9, <1>13 DEF RenameDelete, At
<1>14. CASE BatchCheck(q)
  <2>1. CASE NextLine(q, 409)
    BY <1>6, <1>14, <2>1 DEF BatchCheck, At, Batch
  <2>2. CASE ~NextLine(q, 409)
    <3>1. Continue(q, "write") /\ UNCHANGED local /\ pc[q] = "check"
      BY <1>14, <2>2 DEF BatchCheck, At, local
    <3> QED
      BY <1>9, <3>1
  <2> QED
    BY <2>1, <2>2
<1>15. CASE BatchWrite(q)
  <2>1. pc[q] = "write" /\ Batch(q)
    BY <1>15 DEF BatchWrite, At, Batch
  <2>2. CASE Raise(q, 500)
    BY <1>4, <2>1, <2>2
  <2>3. CASE ~Raise(q, 500)
    BY <1>6, <1>15, <2>1, <2>3 DEF BatchWrite
  <2> QED
    BY <2>2, <2>3
<1>22. CASE BatchNullId(q)
  BY <1>4, <1>22 DEF BatchNullId, At
<1>16. CASE BatchCommit(q) \/ DeleteCommit(q)
  BY <1>7, <1>16 DEF BatchCommit, DeleteCommit, At
<1>17. CASE DeleteRead(q)
  <2> DEFINE i == Lookup(table, Entity(q), call[q].code)
             d == [id |-> i, uuid |-> table[i].uuid, val |-> Absent]
  <2>1. pc[q] = "read" /\ ~Async(q)
    BY <1>17 DEF DeleteRead, At, Async
  <2>2. CASE Raise(q, 404)
    BY <1>4, <2>1, <2>2
  <2>3. CASE ~Raise(q, 404)
    <3>1. Prepare(q, i, d) /\ Continue(q, "write") /\ at' = at /\ i # Null
      BY <1>17, <2>3 DEF DeleteRead
    <3>2. call[q] # Null /\ call[q].verb = "delete"
      BY <1>0, <1>17 DEF DeleteRead, At, Base, StageFits
    <3>3. i \in Columns /\ table[i] \in Rows
      BY <1>0, <1>1, <3>1, <3>2, CallFits, LookupFinds DEF Tables
    <3>4. d \in Documents
      BY <3>3 DEF Documents, Rows
    <3> HIDE DEF i, d
    <3>5. doc'[q] # Null
      BY <1>1, <3>1, <3>4, StoreAssumption DEF Prepare
    <3> QED
      BY <1>5, <2>1, <3>1, <3>5
  <2> QED
    BY <2>2, <2>3
<1>18. CASE DeleteStart(q)
  <2>1. /\ pc[q] = "write" /\ ~Async(q) /\ Continue(q, "lock") /\ at' = at
        /\ doc'[q] = doc[q] /\ doc[q] # Null
    BY <1>0, <1>18 DEF DeleteStart, At, Async, StageFits
  <2> QED
    BY <1>5, <2>1
<1>19. CASE DeleteRow(q)
  BY <1>9, <1>19 DEF DeleteRow, At, Async
<1>20. CASE DispatchExit(q) \/ Rollback(q)
  <2>1. /\ pc[q] \in {"raised", "exiting"} /\ pc'[q] \in {"exiting", "done"}
        /\ call' = call /\ reply' = reply
    BY <1>1, <1>20 DEF DispatchExit, Rollback, Goto
  <2> QED
    BY <1>0, <2>1 DEF StageFits, Working, Async, Batch
<1>21. CASE Respond(q)
  <2>1. pc'[q] = "idle" /\ call'[q] = Null
    BY <1>1, <1>21 DEF Respond, Goto
  <2> QED
    BY <2>1 DEF StageFits, Working
<1> QED
  BY <1>2, <1>3, <1>8, <1>10, <1>12, <1>13, <1>14, <1>15, <1>16, <1>17, <1>18, <1>19, <1>20, <1>21,
     <1>22 DEF Acts, Server, Handler, Reads

\* What the request that acts has written.
LEMMA MineFitsStep ==
  ASSUME SInv, NEW q \in Requests, Acts(q)
  PROVE  MineFits(q)'
<1>0. Base /\ IsMap(mine) /\ StageFits(q) /\ MineFits(q)
      /\ pc \in [Requests -> Stages] /\ call \in [Requests -> Calls \cup {Null}]
  BY DEF SInv, Base, TypeOK
<1>1. ASSUME DOMAIN mine'[q] = {} PROVE MineFits(q)'
  BY <1>1 DEF MineFits
<1>2. ASSUME mine' = [mine EXCEPT ![q] = Nothing] PROVE MineFits(q)'
  BY <1>0, <1>1, <1>2 DEF IsMap, Nothing
<1>3. ASSUME mine' = mine, DOMAIN mine[q] = {} PROVE MineFits(q)'
  BY <1>1, <1>3
<1>4. ASSUME mine' = mine, call' = call, call[q] # Null, Async(q),
             pc'[q] \in {"read", "check", "write", "commit", "raised", "exiting"},
             Batch(q) \/ pc'[q] \in {"raised", "exiting"}
      PROVE  MineFits(q)'
  BY <1>0, <1>4 DEF MineFits, Async, Batch
<1>5. ASSUME ~Batch(q), call[q] # Null, pc[q] \in {"read", "check", "rename", "lock"}
      PROVE  DOMAIN mine[q] = {}
  BY <1>0, <1>5 DEF MineFits
<1>6. CASE \E c \in Calls : Receive(q, c)
  BY <1>0, <1>3, <1>6 DEF Receive, MineFits
<1>7. CASE StartHandler(q) \/ Respond(q)
  BY <1>0, <1>3, <1>7 DEF StartHandler, Respond, MineFits
<1>8. CASE Reads(q)
  <2>1. Outcome(q) /\ pc[q] = "read" /\ Async(q) /\ mine' = mine /\ call[q] # Null
    BY <1>0, <1>8, ReadStep DEF StageFits
  <2>2. CASE ~Batch(q)
    BY <1>3, <1>5, <2>1, <2>2
  <2>3. CASE Batch(q)
    <3>1. call' = call /\ pc'[q] \in {"read", "check", "write", "commit", "raised"}
      BY <1>0, <2>1 DEF Outcome, Raise, Settle, NextLine, Continue, Goto
    <3> QED
      BY <1>4, <2>1, <2>3, <3>1
  <2> QED
    BY <2>2, <2>3
<1>9. CASE PostCheck(q) \/ PatchCheck(q)
  BY <1>0, <1>3, <1>5, <1>9 DEF PostCheck, PatchCheck, At, Batch, StageFits
<1>10. ASSUME NEW code, NEW action, SingleWrite(q, code, action), pc[q] = "write",
              call[q].verb \in {"post", "patch"}
       PROVE  MineFits(q)'
  <2>1. CASE mine' = [mine EXCEPT ![q] = Nothing]
    BY <1>2, <2>1
  <2>2. CASE mine' = mine /\ Settle(q, "raised", 422)
    <3>1. pc'[q] = "raised" /\ call' = call /\ call[q] # Null /\ Async(q)
      BY <1>0, <1>10, <2>2 DEF SingleWrite, Settle, Goto, StageFits, Async
    <3> QED
      BY <1>4, <2>2, <3>1
  <2> QED
    BY <1>10, <2>1, <2>2 DEF SingleWrite
<1>11. CASE PostWrite(q) \/ PatchWrite(q)
  BY <1>10, <1>11 DEF PostWrite, PatchWrite, At
<1>12. ASSUME NEW i, Adds(q, i, Null), call[q] # Null, call' = call, DOMAIN mine[q] = {},
              call[q].verb = "delete" /\ pc'[q] = "commit" /\ table'[i] # Null
       PROVE  MineFits(q)'
  <2>1. DOMAIN mine'[q] = {i} /\ mine'[q][i] = Null
    BY <1>0, <1>12, WriteRow DEF Adds
  <2> QED
    BY <1>12, <2>1 DEF MineFits, Async, Batch
<1>13. CASE RenameDelete(q)
  <2>1. /\ call[q] # Null /\ DOMAIN mine[q] = {} /\ call[q].verb = "patch" /\ call' = call
        /\ pc'[q] = "write"
    BY <1>0, <1>5, <1>13 DEF RenameDelete, At, StageFits, Batch, Continue, Goto
  <2>2. CASE mine' = mine
    BY <1>3, <2>1, <2>2
  <2>3. CASE mine' = [mine EXCEPT ![q] = Nothing]
    BY <1>2, <2>3
  <2>4. CASE Adds(q, found[q], Null)
    <3>1. PICK i : i = found[q]
      OBVIOUS
    <3>2. Adds(q, i, Null)
      BY <2>4, <3>1 DEF Adds, Write
    <3>3. DOMAIN mine'[q] = {i} /\ mine'[q][i] = Null
      BY <1>0, <2>1, <3>2, WriteRow DEF Adds
    <3> QED
      BY <2>1, <3>3 DEF MineFits, Async, Batch
  <2> QED
    BY <1>13, <2>1, <2>2, <2>3, <2>4, MineStep DEF DeleteRow, BatchWrite, At
<1>14. CASE BatchCheck(q)
  <2>1. call[q] # Null /\ call' = call /\ Batch(q) /\ Async(q) /\ mine' = mine
        /\ pc'[q] \in {"read", "write", "commit"}
    BY <1>0, <1>14 DEF BatchCheck, At, StageFits, Batch, Async, NextLine, Continue, Goto
  <2> QED
    BY <1>4, <2>1
<1>15. CASE BatchWrite(q)
  <2>1. CASE mine' = [mine EXCEPT ![q] = Nothing]
    BY <1>2, <2>1
  <2>2. CASE mine' = mine
    <3>1. call[q] # Null /\ call' = call /\ Batch(q) /\ Async(q)
          /\ pc'[q] \in {"read", "raised", "commit"}
      BY <1>0, <1>15 DEF BatchWrite, At, StageFits, Batch, Async, NextLine, Raise, Settle, Goto
    <3> QED
      BY <1>4, <2>2, <3>1
  <2>3. ASSUME NEW i, NEW row \in Rows, Adds(q, i, row), call[q].verb = "batch", pc[q] = "write"
        PROVE  MineFits(q)'
    <3>1. call[q] # Null /\ call' = call /\ pc'[q] \in {"read", "raised", "commit"}
      BY <1>0, <1>15 DEF BatchWrite, At, StageFits, NextLine, Raise, Settle, Goto
    <3>2. /\ DOMAIN mine'[q] = DOMAIN mine[q] \cup {i} /\ mine'[q][i] # Null
          /\ \A j \in DOMAIN mine[q] : j # i => mine'[q][j] = mine[q][j]
      BY <1>0, <2>3, WriteRow, StoreAssumption DEF Adds
    <3>3. \A j \in DOMAIN mine[q] : mine[q][j] # Null
      BY <1>0, <2>3, <3>1 DEF MineFits, Batch
    <3> QED
      BY <2>3, <3>1, <3>2, <3>3 DEF MineFits, Batch, Async
  <2>4. call[q].verb = "batch" /\ pc[q] = "write"
    BY <1>15 DEF BatchWrite, At
  <2> QED
    BY <2>1, <2>2, <2>3, <2>4, MineStep DEF RenameDelete, DeleteRow, At
<1>16. CASE BatchCommit(q) \/ DeleteCommit(q) \/ Rollback(q) \/ BatchNullId(q)
  BY <1>2, <1>16 DEF BatchCommit, DeleteCommit, Rollback, BatchNullId
<1>17. CASE DeleteRead(q) \/ DeleteStart(q)
  <2>1. mine' = mine /\ call[q] # Null /\ ~Async(q) /\ pc[q] # "commit"
    BY <1>0, <1>17 DEF DeleteRead, DeleteStart, At, Async, StageFits
  <2> QED
    BY <1>0, <1>3, <2>1 DEF MineFits
<1>18. CASE DeleteRow(q)
  <2>1. /\ call[q] # Null /\ DOMAIN mine[q] = {} /\ call[q].verb = "delete" /\ call' = call
        /\ pc'[q] = "commit" /\ table' = table
    BY <1>0, <1>5, <1>18 DEF DeleteRow, At, StageFits, Batch, Continue, Goto, committed
  <2>2. CASE mine' = mine
    BY <1>3, <2>1, <2>2
  <2>3. CASE mine' = [mine EXCEPT ![q] = Nothing]
    BY <1>2, <2>3
  <2>4. CASE table[found[q]] # Null /\ Adds(q, found[q], Null)
    BY <1>12, <2>1, <2>4
  <2> QED
    BY <1>18, <2>1, <2>2, <2>3, <2>4, MineStep DEF RenameDelete, BatchWrite, At
<1>19. CASE DispatchExit(q)
  <2>1. mine' = mine /\ call' = call /\ call[q] # Null /\ pc'[q] = "exiting" /\ pc[q] = "raised"
    BY <1>0, <1>19 DEF DispatchExit, Goto, StageFits
  <2>2. CASE Async(q)
    BY <1>4, <2>1, <2>2
  <2>3. CASE ~Async(q)
    BY <1>0, <1>3, <2>1, <2>3 DEF MineFits
  <2> QED
    BY <2>2, <2>3
<1> QED
  BY <1>6, <1>7, <1>8, <1>9, <1>11, <1>13, <1>14, <1>15, <1>16, <1>17, <1>18, <1>19
     DEF Acts, Server, Handler, Reads

\* Types, stages and rows, all together.
LEMMA BaseStep ==
  ASSUME SInv, NEW q \in Requests, Acts(q)
  PROVE  Base' /\ UuidsDiffer(table')
<1>1. TypeOK'
  <2>1. Locals' /\ table' \in Tables /\ gone' \subseteq Columns \cup Uuids /\ \A r \in Requests : TypedRows(r)'
    BY LocalsStep, TableIsKept, RowsStep
  <2> QED
    BY <2>1 DEF TypeOK, Locals, TypedRows, Answers, Statuses
<1>2. ASSUME NEW r \in Requests PROVE StageFits(r)' /\ MineFits(r)'
  <2>1. CASE r = q
    BY <2>1, StageStep, MineFitsStep
  <2>2. CASE r # q
    <3>1. Unmoved(r) /\ StageFits(r) /\ MineFits(r)
      BY <2>2, OthersUnmoved DEF SInv, Base
    <3>2. \A i \in DOMAIN mine[r] : table'[i] = table[i]
      BY <2>2, LockedRowsStay
    <3>3. StageFits(r)'
      BY <3>1 DEF Unmoved, StageFits, Working, Async, Batch, Entity
    <3>4. MineFits(r)'
      BY <3>1, <3>2 DEF Unmoved, MineFits, Async, Batch
    <3> QED
      BY <3>3, <3>4
  <2> QED
    BY <2>1, <2>2
<1> QED
  BY <1>1, <1>2, RowsStep, TableIsKept DEF Base

----------------------------------------------------------------------------
(* While a handler has the loop, only DELETEs commit. *)

Fades ==
  /\ Shrinks(table, table') /\ gone \subseteq gone'
  /\ \A i \in Columns : table[i] # Null /\ table'[i] = Null => i \in gone' /\ table[i].uuid \in gone'

LEMMA LoopAlone ==
  ASSUME SInv, NEW q \in Requests, Acts(q), NEW r \in Requests, r # q, Working(r)
  PROVE  Fades
<1>0. Base /\ loop = r /\ loop # Null /\ ~(Working(q))
  BY StoreAssumption DEF SInv, Base, StageFits
<1>1. ~StartHandler(q) /\ ~Stores(q) /\ ~BatchCommit(q)
  BY <1>0 DEF StartHandler, Stores, BatchCommit, At, Working, Async
<1>2. CASE table' = table /\ gone' = gone
  BY <1>2 DEF Fades, Shrinks
<1>3. CASE DeleteCommit(q)
  <2>1. \A i \in DOMAIN mine[q] : mine[q][i] = Null
    <3>1. call[q] # Null /\ call[q].verb = "delete"
      BY <1>0, <1>3 DEF DeleteCommit, At, Base, StageFits
    <3> QED
      BY <1>0, <3>1 DEF Base, MineFits, Batch
  <2>2. \A i \in Columns : View(q)[i] = IF i \in DOMAIN mine[q] THEN mine[q][i] ELSE table[i]
    BY <1>0, ViewIsTable DEF Base
  <2> QED
    BY <1>3, <2>1, <2>2 DEF DeleteCommit, Fades, Shrinks
<1> QED
  BY <1>1, <1>2, <1>3, TableStep

\* What was there is still there or gone.
LEMMA WasStays ==
  ASSUME Fades, NEW i \in Columns, NEW u, Was(i, u)
  PROVE  Was(i, u)'
<1>1. CASE table[i] # Null
  BY <1>1 DEF Was, Fades, Shrinks
<1>2. ASSUME NEW j \in Columns, table[j] # Null, table[j].uuid = u PROVE Was(i, u)'
  BY <1>2 DEF Was, Fades, Shrinks, HasUuid
<1>3. CASE {i, u} \cap gone # {}
  BY <1>3 DEF Was, Fades
<1> QED
  BY <1>1, <1>2, <1>3 DEF Was, HasUuid

\* So a handler's knowledge stays true while others go on.
LEMMA HandlerStays ==
  ASSUME Base, Base', NEW r \in Requests, Working(r), HandlerFits(r), Fades, Unmoved(r)
  PROVE  HandlerFits(r)'
<1> DEFINE V == View(r)
           W == View(r)'
           d == doc[r]
<1>1. /\ call'[r] = call[r] /\ at'[r] = at[r] /\ found'[r] = found[r] /\ doc'[r] = doc[r]
      /\ mine'[r] = mine[r] /\ tasks'[r] = tasks[r] /\ pc'[r] = pc[r]
  BY DEF Unmoved
<1>2. /\ \A i \in Columns : V[i] = IF i \in DOMAIN mine[r] THEN mine[r][i] ELSE table[i]
      /\ \A i \in Columns : W[i] = IF i \in DOMAIN mine[r] THEN mine[r][i] ELSE table'[i]
  BY <1>1 DEF View
<1> HIDE DEF V, W
<1>3. Shrinks(V, W)
  BY <1>2 DEF Shrinks, Fades
<1>4. UuidsDiffer(W)
  BY <1>3, ShrinkDiffers DEF HandlerFits, V
<1>5. BatchFits(r)'
  <2>1. BatchFits(r) /\ TypedRows(r) /\ tasks[r] \in Seq(Events)
    BY TypesMake DEF HandlerFits, Base, Locals
  <2>2. ASSUME NEW n \in DOMAIN tasks[r]
        PROVE  /\ tasks[r][n].id \in DOMAIN mine[r]
               /\ (\A m \in DOMAIN tasks[r] : m > n => tasks[r][m].id # tasks[r][n].id)
                    => mine[r][tasks[r][n].id].uuid = tasks[r][n].uuid
               /\ tasks[r][n].action = "created" => Entity(r) = "products-uuid" \/ table'[tasks[r][n].id] = Null
               /\ tasks[r][n].action = "updated" =>
                    Was(tasks[r][n].id, tasks[r][n].uuid)' \/ \E m \in 1..(n - 1) : tasks[r][m].id = tasks[r][n].id
    <3> DEFINE e == tasks[r][n]
    <3>1. /\ e.id \in DOMAIN mine[r]
          /\ (\A m \in DOMAIN tasks[r] : m > n => tasks[r][m].id # e.id) => mine[r][e.id].uuid = e.uuid
          /\ e.action = "created" => Entity(r) = "products-uuid" \/ table[e.id] = Null
          /\ e.action = "updated" => Was(e.id, e.uuid) \/ \E m \in 1..(n - 1) : tasks[r][m].id = e.id
      BY <2>1 DEF BatchFits
    <3>2. e.id \in Columns
      BY <2>1, <3>1 DEF TypedRows
    <3>3. PICK i, u : i = e.id /\ u = e.uuid
      OBVIOUS
    <3>4. Was(e.id, e.uuid) => Was(i, u)'
      BY <3>2, <3>3, WasStays DEF Was
    <3>5. Was(i, u)' => Was(e.id, e.uuid)'
      BY <1>1, <3>3 DEF Was
    <3>6. table[e.id] = Null => table'[e.id] = Null
      BY <3>2 DEF Fades, Shrinks
    <3> QED
      BY <3>1, <3>4, <3>5, <3>6
  <2>3. ASSUME NEW i \in DOMAIN mine[r], mine[r][i] # Null
        PROVE  /\ \E m \in DOMAIN tasks[r] : tasks[r][m].id = i
               /\ table'[i] # Null => mine[r][i].uuid = table'[i].uuid \/ Named(r, i, mine[r][i].uuid)
    BY <2>1, <2>3 DEF BatchFits, TypedRows, Fades, Shrinks
  <2> QED
    BY <1>1, <2>2, <2>3 DEF BatchFits, Was, Named, IsAbout, Entity
<1>6. ASSUME pc[r] \in {"check", "rename", "write"} PROVE LineFits(r)'
  <2>1. LineFits(r) /\ d.id \in Columns
    BY <1>6, DocIsThere DEF HandlerFits, Documents
  <2>2. Seen(r, d) => (Seen(r, d))'
    <3>1. PICK i, u : i = d.id /\ u = d.uuid
      OBVIOUS
    <3>2. Was(d.id, d.uuid) => Was(i, u)'
      BY <2>1, <3>1, WasStays DEF Was
    <3>3. Was(i, u)' => Was(d.id, d.uuid)'
      BY <1>1, <3>1 DEF Was
    <3> QED
      BY <1>1, <3>2, <3>3 DEF Seen, Was
  <2>3. KeepsUuid(r, d) => KeepsUuid(r, d)'
    <3> SUFFICES ASSUME KeepsUuid(r, d), W[d.id] # Null
                 PROVE  W[d.id].uuid = d.uuid \/ Named(r, d.id, d.uuid)
      BY <1>1 DEF KeepsUuid, Named, IsAbout, Entity, W
    <3> QED
      BY <1>3, <2>1 DEF Shrinks, KeepsUuid, V
  <2>4. ASSUME NEW i, i = found[r], Owns(V, d.uuid, i) PROVE Owns(W, d.uuid, i)
    BY <1>3, <2>4 DEF Owns, Shrinks
  <2>5. UniqueViolation(W, d) => UniqueViolation(V, d)
    BY <1>3 DEF UniqueViolation, Shrinks
  <2>6. V[d.id] = Null => W[d.id] = Null
    BY <1>3, <2>1 DEF Shrinks
  <2>7. CASE pc[r] = "check"
    <3>1. CheckFits(r, found[r], doc[r])
      BY <2>1, <2>7 DEF LineFits
    <3>2. CheckFits(r, found[r], doc[r])'
      BY <1>1, <2>2, <2>3, <2>4, <2>6, <3>1 DEF CheckFits, Batch, Entity, Line, V, W
    <3> QED
      BY <1>1, <2>7, <3>2 DEF LineFits
  <2>8. CASE pc[r] = "rename"
    <3>1. RenameFits(r, found[r], doc[r])
      BY <2>1, <2>8 DEF LineFits
    <3>2. RenameFits(r, found[r], doc[r])'
      BY <1>1, <2>2, <2>4, <2>6, <3>1 DEF RenameFits, V, W
    <3> QED
      BY <1>1, <2>8, <3>2 DEF LineFits
  <2>9. CASE pc[r] = "write"
    <3>1. WriteFits(r, found[r], doc[r])
      BY <2>1, <2>9 DEF LineFits
    <3>2. WriteFits(r, found[r], doc[r])'
      BY <1>1, <2>2, <2>3, <2>5, <2>6, <3>1 DEF WriteFits, Batch, Entity, Line, V, W
    <3> QED
      BY <1>1, <2>9, <3>2 DEF LineFits
  <2> QED
    BY <1>6, <2>7, <2>8, <2>9
<1>7. LineFits(r)'
  <2>1. CASE pc[r] \notin {"check", "rename", "write"}
    BY <1>1, <2>1 DEF LineFits
  <2> QED
    BY <1>6, <2>1
<1> QED
  BY <1>4, <1>5, <1>7 DEF HandlerFits, W

----------------------------------------------------------------------------
(* Every step of a handler keeps what it knows. *)

\* What is known of a document carries over to the next state when neither rows nor
\* events nor the line change.
LEMMA FitsStay ==
  ASSUME NEW q \in Requests, UNCHANGED <<table, mine, call, at, gone, tasks>>
  PROVE  /\ View(q)' = View(q)
         /\ UuidsDiffer(View(q)) /\ BatchFits(q) => UuidsDiffer(View(q))' /\ BatchFits(q)'
         /\ \A i, d : /\ CheckFits(q, i, d) => (found'[q] = i /\ doc'[q] = d => CheckFits(q, found[q], doc[q])')
                      /\ RenameFits(q, i, d) => (found'[q] = i /\ doc'[q] = d => RenameFits(q, found[q], doc[q])')
                      /\ WriteFits(q, i, d) => (found'[q] = i /\ doc'[q] = d => WriteFits(q, found[q], doc[q])')
<1>1. View(q)' = View(q)
  BY DEF View
<1>2. UuidsDiffer(View(q)) /\ BatchFits(q) => UuidsDiffer(View(q))' /\ BatchFits(q)'
  <2>1. UuidsDiffer(View(q)) => UuidsDiffer(View(q))'
    BY <1>1 DEF UuidsDiffer
  <2>2. BatchFits(q) => BatchFits(q)'
    BY DEF BatchFits, Was, HasUuid, Named, IsAbout, Entity
  <2> QED
    BY <2>1, <2>2
<1>3. ASSUME NEW i, NEW d, found'[q] = i, doc'[q] = d
      PROVE  /\ CheckFits(q, i, d) => CheckFits(q, found[q], doc[q])'
             /\ RenameFits(q, i, d) => RenameFits(q, found[q], doc[q])'
             /\ WriteFits(q, i, d) => WriteFits(q, found[q], doc[q])'
  <2>1. Seen(q, d) => Seen(q, doc[q])'
    BY <1>3 DEF Seen, Was, HasUuid
  <2>2. KeepsUuid(q, d) => KeepsUuid(q, doc[q])'
    BY <1>1, <1>3 DEF KeepsUuid, Named, IsAbout, Entity
  <2>3. Owns(View(q), d.uuid, i) => Owns(View(q), doc[q].uuid, found[q])'
    BY <1>1, <1>3 DEF Owns
  <2>4. UniqueViolation(View(q), doc[q])' => UniqueViolation(View(q), d)
    BY <1>1, <1>3 DEF UniqueViolation
  <2> QED
    BY <1>1, <1>3, <2>1, <2>2, <2>3, <2>4 DEF CheckFits, RenameFits, WriteFits, Batch, Entity, Line
<1> QED
  BY <1>1, <1>2, <1>3

\* A handler that goes on with the same rows and events.
LEMMA GoesOn ==
  ASSUME SInv, NEW q \in Requests, Working(q), UNCHANGED <<table, mine, call, at, gone, tasks>>, LineFits(q)'
  PROVE  HandlerFits(q)'
BY FitsStay DEF SInv, HandlerFits

\* The batch writes a line.
LEMMA LineIsWritten ==
  ASSUME SInv, NEW q \in Requests, BatchWrite(q), ~UniqueViolation(View(q), doc[q])
  PROVE  HandlerFits(q)'
<1> DEFINE V == View(q)
           W == View(q)'
           d == doc[q]
<1>1. /\ Base /\ TypeOK /\ Locals /\ Batch(q) /\ pc[q] = "write" /\ call[q] # Null /\ Working(q)
      /\ d \in Documents /\ V \in Tables /\ TypedRows(q)
      /\ \A i \in Columns : V[i] = IF i \in DOMAIN mine[q] THEN mine[q][i] ELSE table[i]
  BY DocIsThere, ViewIsTable, TypesMake DEF SInv, Base, BatchWrite, At, Batch, StageFits, Working, Async
<1>2. UuidsDiffer(V) /\ BatchFits(q) /\ WriteFits(q, found[q], d) /\ IsMap(mine)
      /\ \A i \in DOMAIN mine[q] : mine[q][i] # Null
  BY <1>1 DEF SInv, HandlerFits, LineFits, Base, MineFits
<1>3. /\ Write(q, d.id, Upserted(V, d)) /\ Upserted(V, d) \in Rows /\ Upserted(V, d).uuid = d.uuid
      /\ Announce(q, IF found[q] = Null THEN "created" ELSE "updated", doc[q])
      /\ table' = table /\ gone' = gone /\ call' = call
      /\ pc'[q] \in {"read", "commit"}
  <2>1. /\ Write(q, d.id, Upserted(V, d))
        /\ Announce(q, IF found[q] = Null THEN "created" ELSE "updated", doc[q])
        /\ table' = table /\ gone' = gone /\ call' = call
        /\ pc' = [pc EXCEPT ![q] = IF at[q] = Len(call[q].lines) THEN "commit" ELSE "read"]
    BY DEF BatchWrite, NextLine, committed, Goto
  <2>2. pc'[q] \in {"read", "commit"}
    BY <1>1, <2>1 DEF TypeOK
  <2>3. Upserted(V, d) \in Rows /\ Upserted(V, d).uuid = d.uuid
    BY <1>1, UpsertedIsRow
  <2> QED
    BY <2>1, <2>2, <2>3
<1>4. PICK u : u = Upserted(V, d)
  OBVIOUS
<1>5. /\ DOMAIN mine'[q] = DOMAIN mine[q] \cup {d.id} /\ mine'[q][d.id].uuid = d.uuid
      /\ \A j \in DOMAIN mine[q] : j # d.id => mine'[q][j] = mine[q][j]
      /\ mine'[q][d.id] = Upserted(V, d)
  <2>1. PICK i : i = d.id
    OBVIOUS
  <2>2. Write(q, i, u)
    BY <1>3, <1>4, <2>1 DEF Write
  <2> QED
    BY <1>2, <1>3, <1>4, <2>1, <2>2, WriteRow
<1>6. PICK e \in Events : /\ tasks' \in [Requests -> Seq(Events)] /\ tasks'[q] = Append(tasks[q], e)
                          /\ e.action = IF found[q] = Null THEN "created" ELSE "updated"
                          /\ e.id = d.id /\ e.uuid = d.uuid
  <2>1. PICK action \in {"created", "updated", "deleted"} : action = IF found[q] = Null THEN "created" ELSE "updated"
    OBVIOUS
  <2>2. Announce(q, action, doc[q])
    BY <1>3, <2>1 DEF Announce
  <2> QED
    BY <1>1, <2>1, <2>2, AnnounceTypes
<1>7. d.id \in Columns
  BY <1>1 DEF Documents
<1>8. W = [V EXCEPT ![d.id] = Upserted(V, d)]
  <2>1. \A i \in Columns : W[i] = IF i = d.id THEN Upserted(V, d) ELSE V[i]
    BY <1>1, <1>3, <1>5 DEF View
  <2>2. W = [i \in Columns |-> W[i]] /\ V = [i \in Columns |-> V[i]]
    BY <1>3 DEF View
  <2> HIDE DEF V, W
  <2> QED
    BY <1>7, <2>1, <2>2
<1>9. UuidsDiffer(W)
  BY <1>1, <1>2, <1>8, UpsertDiffers
<1>10. /\ tasks[q] \in Seq(Events) /\ DOMAIN tasks[q] = 1..Len(tasks[q]) /\ Len(tasks[q]) \in Nat
       /\ DOMAIN tasks'[q] = 1..(Len(tasks[q]) + 1)
       /\ \A n \in DOMAIN tasks[q] : tasks'[q][n] = tasks[q][n]
       /\ tasks'[q][Len(tasks[q]) + 1] = e /\ Len(tasks[q]) + 1 \in DOMAIN tasks'[q]
       /\ \A n \in DOMAIN tasks[q] : n < Len(tasks[q]) + 1
  <2>1. tasks[q] \in Seq(Events)
    BY <1>1 DEF Locals
  <2> QED
    BY <1>6, <2>1, AppendProperties, LenProperties
<1>11. ASSUME NEW n \in DOMAIN tasks[q]
       PROVE  LET f == tasks'[q][n] IN
              /\ f.id \in DOMAIN mine'[q]
              /\ (\A m \in DOMAIN tasks'[q] : m > n => tasks'[q][m].id # f.id) => mine'[q][f.id].uuid = f.uuid
              /\ f.action = "created" => Entity(q) = "products-uuid" \/ table[f.id] = Null
              /\ f.action = "updated" =>
                   Was(f.id, f.uuid) \/ \E m \in 1..(n - 1) : tasks'[q][m].id = f.id
  <2> DEFINE f == tasks[q][n]
  <2>1. tasks'[q][n] = f /\ \A m \in 1..(n - 1) : m \in DOMAIN tasks[q]
    BY <1>10
  <2>2. /\ f.id \in DOMAIN mine[q]
        /\ (\A m \in DOMAIN tasks[q] : m > n => tasks[q][m].id # f.id) => mine[q][f.id].uuid = f.uuid
        /\ f.action = "created" => Entity(q) = "products-uuid" \/ table[f.id] = Null
        /\ f.action = "updated" => Was(f.id, f.uuid) \/ \E m \in 1..(n - 1) : tasks[q][m].id = f.id
    BY <1>2 DEF BatchFits
  <2> HIDE DEF f
  <2>3. (\A m \in DOMAIN tasks'[q] : m > n => tasks'[q][m].id # f.id) => mine'[q][f.id].uuid = f.uuid
    <3> SUFFICES ASSUME \A m \in DOMAIN tasks'[q] : m > n => tasks'[q][m].id # f.id
                 PROVE  mine'[q][f.id].uuid = f.uuid
      OBVIOUS
    <3>1. f.id # d.id
      <4>1. PICK m \in DOMAIN tasks'[q] : m > n /\ tasks'[q][m] = e
        BY <1>10
      <4> QED
        BY <1>6, <4>1
    <3>2. \A m \in DOMAIN tasks[q] : m > n => tasks[q][m].id # f.id
      BY <1>10
    <3> QED
      BY <1>5, <2>2, <3>1, <3>2
  <2>4. (\E m \in 1..(n - 1) : tasks[q][m].id = f.id) => \E m \in 1..(n - 1) : tasks'[q][m].id = f.id
    BY <1>10, <2>1
  <2> QED
    BY <1>5, <2>1, <2>2, <2>3, <2>4
<1>12. LET n == Len(tasks[q]) + 1 IN
       /\ e.id \in DOMAIN mine'[q] /\ mine'[q][e.id].uuid = e.uuid
       /\ e.action = "created" => Entity(q) = "products-uuid" \/ table[e.id] = Null
       /\ e.action = "updated" =>
            Was(e.id, e.uuid) \/ \E m \in 1..(n - 1) : tasks'[q][m].id = e.id
  <2>1. ASSUME e.action = "created" PROVE Entity(q) = "products-uuid" \/ table[e.id] = Null
    BY <1>1, <1>2, <1>6, <1>7, <2>1 DEF WriteFits
  <2>2. ASSUME e.action = "updated" PROVE Was(e.id, e.uuid) \/ \E m \in DOMAIN tasks[q] : tasks'[q][m].id = e.id
    <3>1. Seen(q, d)
      BY <1>2, <1>6, <2>2 DEF WriteFits
    <3>2. ~\E j \in DOMAIN mine[q] \ {d.id} : mine[q][j] # Null /\ mine[q][j].uuid = d.uuid
      BY <1>1 DEF UniqueViolation, TypedRows
    <3>3. Was(d.id, d.uuid) => Was(e.id, e.uuid)
      BY <1>6 DEF Was
    <3> QED
      BY <1>6, <1>10, <3>1, <3>2, <3>3 DEF Seen
  <2> QED
    BY <1>5, <1>6, <1>10, <2>1, <2>2
<1>13. ASSUME NEW i \in DOMAIN mine'[q], mine'[q][i] # Null
       PROVE  /\ \E m \in DOMAIN tasks'[q] : tasks'[q][m].id = i
              /\ table[i] # Null => mine'[q][i].uuid = table[i].uuid \/ Named(q, i, mine'[q][i].uuid)
  <2>1. CASE i # d.id
    <3>1. i \in DOMAIN mine[q] /\ mine'[q][i] = mine[q][i]
      BY <1>5, <2>1
    <3>2. /\ \E m \in DOMAIN tasks[q] : tasks[q][m].id = i
          /\ table[i] # Null => mine[q][i].uuid = table[i].uuid \/ Named(q, i, mine[q][i].uuid)
      BY <1>2, <3>1 DEF BatchFits
    <3> QED
      BY <1>10, <3>1, <3>2
  <2>2. CASE i = d.id
    <3>1. \E m \in DOMAIN tasks'[q] : tasks'[q][m].id = i
      <4>1. PICK m \in DOMAIN tasks'[q] : tasks'[q][m] = e
        BY <1>10
      <4> QED
        BY <1>6, <2>2, <4>1
    <3>2. ASSUME table[i] # Null, ~Named(q, i, d.uuid) PROVE d.uuid = table[i].uuid
      <4>1. V[i] # Null => V[i].uuid = d.uuid
        BY <1>2, <2>2, <3>2 DEF WriteFits, KeepsUuid
      <4>2. CASE i \in DOMAIN mine[q]
        <5>1. mine[q][i].uuid = table[i].uuid \/ Named(q, i, mine[q][i].uuid)
          BY <1>2, <3>2, <4>2 DEF BatchFits
        <5>2. mine[q][i].uuid = d.uuid
          BY <1>1, <1>2, <1>7, <2>2, <4>1, <4>2
        <5> QED
          BY <3>2, <5>1, <5>2
      <4>3. CASE i \notin DOMAIN mine[q]
        BY <1>1, <1>7, <2>2, <3>2, <4>1, <4>3
      <4> QED
        BY <4>2, <4>3
    <3> QED
      BY <1>5, <2>2, <3>1, <3>2
  <2> QED
    BY <2>1, <2>2
<1>14. BatchFits(q)'
  <2>1. \A i, v : Was(i, v) => Was(i, v)'
    BY <1>3 DEF Was, HasUuid
  <2>2. \A i, v : Named(q, i, v) => Named(q, i, v)'
    BY <1>3 DEF Named, IsAbout, Entity
  <2>3. Entity(q)' = Entity(q)
    BY <1>3 DEF Entity
  <2>4. ASSUME NEW n \in DOMAIN tasks'[q]
        PROVE  LET f == tasks'[q][n] IN
               /\ f.id \in DOMAIN mine'[q]
               /\ (\A m \in DOMAIN tasks'[q] : m > n => tasks'[q][m].id # f.id) => mine'[q][f.id].uuid = f.uuid
               /\ f.action = "created" => Entity(q) = "products-uuid" \/ table[f.id] = Null
               /\ f.action = "updated" =>
                    Was(f.id, f.uuid) \/ \E m \in 1..(n - 1) : tasks'[q][m].id = f.id
    <3>1. CASE n \in DOMAIN tasks[q]
      BY <1>11, <3>1
    <3>2. CASE n = Len(tasks[q]) + 1
      BY <1>10, <1>12, <3>2
    <3> QED
      BY <1>10, <3>1, <3>2
  <2> QED
    BY <1>3, <1>13, <2>1, <2>2, <2>3, <2>4 DEF BatchFits
<1> QED
  BY <1>3, <1>9, <1>14 DEF HandlerFits, LineFits

\* The handler deletes the row of the identifier that the product had.
LEMMA RowIsRenamed ==
  ASSUME SInv, NEW q \in Requests, RenameDelete(q)
  PROVE  HandlerFits(q)'
<1> DEFINE V == View(q)
           W == View(q)'
           d == doc[q]
<1>1. /\ Base /\ TypeOK /\ pc[q] = "rename" /\ call[q].verb = "patch" /\ Working(q) /\ call[q] # Null
      /\ d \in Documents /\ V \in Tables /\ DOMAIN mine[q] = {} /\ V = table /\ tasks[q] = <<>>
      /\ IsMap(mine)
  <2>1. /\ Base /\ TypeOK /\ pc[q] = "rename" /\ call[q].verb = "patch" /\ Working(q) /\ call[q] # Null
    BY DEF SInv, Base, RenameDelete, At, Working, Async, StageFits
  <2>2. DOMAIN mine[q] = {} /\ tasks[q] = <<>> /\ IsMap(mine)
    BY <2>1 DEF Base, MineFits, SInv, TasksFit, Batch
  <2> QED
    BY <2>1, <2>2, DocIsThere, ViewIsTable, ViewOfNothing
<1>2. UuidsDiffer(V) /\ RenameFits(q, found[q], d)
  BY <1>1 DEF SInv, HandlerFits, LineFits
<1>3. /\ found[q] \in Columns /\ found[q] # d.id /\ d.id \in Columns /\ V[d.id] = Null
      /\ Owns(V, d.uuid, found[q]) /\ Was(d.id, d.uuid)
  BY <1>1, <1>2 DEF RenameFits, TypeOK, Documents, Seen
<1>4. /\ table' = table /\ gone' = gone /\ call' = call /\ UNCHANGED <<local, tasks>> /\ pc'[q] = "write"
  BY <1>1 DEF RenameDelete, Continue, committed, Goto, TypeOK
<1>5. /\ \A i \in Columns : W[i] = IF i = found[q] THEN Null ELSE V[i]
      /\ \A i \in DOMAIN mine'[q] : mine'[q][i] = Null
      /\ DOMAIN mine'[q] \subseteq {found[q]}
  <2>1. CASE table[found[q]] # Null
    <3>1. PICK i : i = found[q]
      OBVIOUS
    <3>2. Write(q, i, Null)
      BY <2>1, <3>1 DEF RenameDelete, Write
    <3>3. DOMAIN mine'[q] = {i} /\ mine'[q][i] = Null
      BY <1>1, <3>2, WriteRow
    <3> QED
      BY <1>1, <1>4, <3>1, <3>3 DEF View
  <2>2. CASE table[found[q]] = Null
    <3>1. mine' = mine
      BY <2>2 DEF RenameDelete
    <3> QED
      BY <1>1, <1>4, <2>2, <3>1 DEF View
  <2> QED
    BY <2>1, <2>2
<1> HIDE DEF V, W
<1>6. UuidsDiffer(W)
  <2>1. Shrinks(V, W)
    BY <1>5 DEF Shrinks
  <2> QED
    BY <1>2, <2>1, ShrinkDiffers
<1>7. doc'[q] = d /\ found'[q] = found[q] /\ tasks'[q] = <<>> /\ at' = at
  BY <1>1, <1>4 DEF local
<1>8. BatchFits(q)'
  BY <1>5, <1>7 DEF BatchFits
<1>9. WriteFits(q, found[q], doc[q])'
  <2>1. ~UniqueViolation(View(q), doc[q])'
    BY <1>3, <1>5, <1>7 DEF UniqueViolation, Owns, W
  <2>2. KeepsUuid(q, doc[q])'
    BY <1>3, <1>5, <1>7 DEF KeepsUuid, W
  <2>3. Seen(q, doc[q])'
    BY <1>3, <1>4, <1>7 DEF Seen, Was, HasUuid
  <2>4. ~Batch(q)'
    BY <1>1, <1>4 DEF Batch
  <2>5. found'[q] # Null /\ doc'[q].id \notin DOMAIN mine'[q] /\ call'[q].verb # "post"
    BY <1>1, <1>3, <1>4, <1>5, <1>7, StoreAssumption
  <2> QED
    BY <2>1, <2>2, <2>3, <2>4, <2>5 DEF WriteFits
<1> QED
  BY <1>4, <1>6, <1>8, <1>9 DEF HandlerFits, LineFits, W

\* What passes the checks of a POST, a PATCH or a new line may be written.
LEMMA ChecksPass ==
  ASSUME SInv, NEW q \in Requests, pc[q] = "check", Working(q)
  PROVE  LET d == doc[q] IN
         /\ CheckFits(q, found[q], d) /\ UuidsDiffer(View(q)) /\ d \in Documents
         /\ call[q].verb \in {"post", "batch"} /\ ByUuid(View(q), d.uuid) = Null => WriteFits(q, found[q], d)
         /\ call[q].verb = "patch" /\ Entity(q) = "products" /\ ByUuid(View(q), d.uuid) \in {Null, d.id}
              => WriteFits(q, found[q], d)
         /\ call[q].verb = "patch" /\ Entity(q) = "products-uuid"
              /\ (found[q] = d.id \/ View(q)[d.id] = Null)
              => IF found[q] \in {Null, d.id} THEN WriteFits(q, found[q], d) ELSE RenameFits(q, found[q], d)
<1> DEFINE d == doc[q]
           V == View(q)
<1>1. CheckFits(q, found[q], d) /\ UuidsDiffer(V) /\ d \in Documents /\ d.id \in Columns
  BY DocIsThere DEF SInv, HandlerFits, LineFits, Documents
<1>2. (call[q].verb = "batch" <=> Batch(q)) /\ (~Batch(q) => d.id \notin DOMAIN mine[q])
  BY DEF Batch, SInv, Base, StageFits, MineFits
<1>3. ASSUME call[q].verb \in {"post", "batch"}, ByUuid(V, d.uuid) = Null PROVE WriteFits(q, found[q], d)
  <2>1. ~HasUuid(V, d.uuid) /\ found[q] = Null /\ V[d.id] = Null
    BY <1>1, <1>2, <1>3, ByUuidFinds DEF CheckFits
  <2>2. ~UniqueViolation(V, d) /\ KeepsUuid(q, d)
    BY <2>1 DEF UniqueViolation, HasUuid, KeepsUuid
  <2> QED
    BY <1>1, <1>2, <2>1, <2>2 DEF WriteFits, CheckFits, Given
<1>4. ASSUME call[q].verb = "patch", Entity(q) = "products", ByUuid(V, d.uuid) \in {Null, d.id}
      PROVE  WriteFits(q, found[q], d)
  <2>1. ~UniqueViolation(V, d)
    <3> SUFFICES ASSUME NEW j \in Columns \ {d.id}, V[j] # Null, V[j].uuid = d.uuid PROVE FALSE
      BY DEF UniqueViolation
    <3>1. ByUuid(V, d.uuid) = j
      BY <1>1, OwnerIsFound
    <3> QED
      BY <1>4, <3>1, StoreAssumption
  <2>2. KeepsUuid(q, d)
    BY <1>1, <1>4 DEF CheckFits, KeepsUuid
  <2> QED
    BY <1>1, <1>2, <1>4, <2>1, <2>2 DEF WriteFits, CheckFits
<1>5. ASSUME call[q].verb = "patch", Entity(q) = "products-uuid", found[q] = d.id \/ V[d.id] = Null
      PROVE  IF found[q] \in {Null, d.id} THEN WriteFits(q, found[q], d) ELSE RenameFits(q, found[q], d)
  <2>1. Owns(V, d.uuid, found[q]) /\ (found[q] # Null => Seen(q, d)) /\ d.id # Null
    BY <1>1, <1>5, StoreAssumption DEF CheckFits
  <2>2. CASE found[q] \in {Null, d.id}
    <3>1. ~UniqueViolation(V, d)
      BY <2>1, <2>2, StoreAssumption DEF UniqueViolation, Owns
    <3>2. KeepsUuid(q, d)
      BY <1>1, <1>5, <2>1 DEF KeepsUuid, Owns
    <3> QED
      BY <1>2, <1>5, <2>1, <2>2, <3>1, <3>2 DEF WriteFits
  <2>3. CASE found[q] \notin {Null, d.id}
    BY <1>5, <2>1, <2>3 DEF RenameFits
  <2> QED
    BY <2>2, <2>3
<1> QED
  BY <1>1, <1>3, <1>4, <1>5

\* Every step of q keeps what its handler knows.
LEMMA HandlerStep ==
  ASSUME SInv, NEW q \in Requests, Acts(q)
  PROVE  HandlerFits(q)'
<1>0. /\ Base /\ pc \in [Requests -> Stages] /\ call \in [Requests -> Calls \cup {Null}]
      /\ found \in [Requests -> Columns \cup {Null}] /\ doc \in [Requests -> Documents \cup {Null}]
  BY DEF SInv, Base, TypeOK
<1>1. ASSUME pc'[q] \in {"idle", "received", "lock", "raised", "exiting", "done"} PROVE HandlerFits(q)'
  BY <1>1 DEF HandlerFits, Working
<1>2. ASSUME call' = call, ~Async(q) PROVE HandlerFits(q)'
  BY <1>2 DEF HandlerFits, Working, Async
<1>3. CASE \E c \in Calls : Receive(q, c)
  <2>1. PICK c \in Calls : Receive(q, c)
    BY <1>3
  <2>2. call'[q] = c /\ pc'[q] = IF c.verb = "delete" THEN "read" ELSE "received"
    BY <1>0, <2>1 DEF Receive, Goto
  <2> QED
    BY <2>2 DEF HandlerFits, Working, Async
<1>4. CASE StartHandler(q)
  <2>1. /\ pc[q] = "received" /\ pc'[q] = "read" /\ UNCHANGED <<table, mine, call, tasks>>
    BY <1>0, <1>4 DEF StartHandler, Goto
  <2>2. DOMAIN mine[q] = {} /\ tasks[q] = <<>> /\ View(q) = table /\ UuidsDiffer(table)
    BY <1>0, <2>1, ViewOfNothing DEF SInv, Base, MineFits, TasksFit
  <2>3. View(q)' = View(q)
    BY <2>1 DEF View
  <2>4. UuidsDiffer(View(q))'
    BY <2>2, <2>3 DEF UuidsDiffer
  <2>5. BatchFits(q)'
    BY <2>1, <2>2 DEF BatchFits
  <2> QED
    BY <2>1, <2>4, <2>5 DEF HandlerFits, LineFits
<1>5. ASSUME NEW code, Raise(q, code) PROVE HandlerFits(q)'
  <2>1. pc'[q] = "raised"
    BY <1>0, <1>5 DEF Raise, Settle, Goto
  <2> QED
    BY <1>1, <2>1
<1>6. ASSUME NEW status, NextLine(q, status), UNCHANGED <<mine, tasks>>, Working(q) PROVE HandlerFits(q)'
  <2>1. pc'[q] \in {"read", "commit"} /\ UNCHANGED <<table, gone, call>>
    BY <1>0, <1>6 DEF NextLine, Goto, committed
  <2>2. UuidsDiffer(View(q)) /\ BatchFits(q)
    BY <1>6 DEF SInv, HandlerFits
  <2>3. UuidsDiffer(View(q))'
    BY <1>6, <2>1, <2>2 DEF UuidsDiffer, View
  <2>4. BatchFits(q)'
    BY <1>6, <2>1, <2>2 DEF BatchFits, Was, HasUuid, Named, IsAbout, Entity
  <2> QED
    BY <2>1, <2>3, <2>4 DEF HandlerFits, LineFits
<1>7. CASE Reads(q)
  <2>1. Outcome(q) /\ mine' = mine /\ Working(q)
    BY <1>7, ReadStep DEF Working
  <2>2. CASE \E code \in {409, 422} : Raise(q, code)
    BY <1>5, <2>2
  <2>3. CASE NextLine(q, 400) /\ UNCHANGED <<found, doc, tasks>>
    BY <1>6, <2>1, <2>3
  <2>4. ASSUME NEW i \in Columns \cup {Null}, NEW d \in Documents, NEW stage \in {"check", "write"},
               Prepare(q, i, d), Continue(q, stage), UNCHANGED <<at, results, tasks>>,
               stage = "check" => CheckFits(q, i, d), stage = "write" => WriteFits(q, i, d)
        PROVE  HandlerFits(q)'
    <3>1. /\ found'[q] = i /\ doc'[q] = d /\ pc'[q] = stage
          /\ UNCHANGED <<table, mine, call, at, gone, tasks>>
      BY <1>0, <2>1, <2>4 DEF Prepare, Continue, Goto, committed
    <3>2. LineFits(q)'
      <4>1. CASE stage = "check"
        BY <2>4, <3>1, <4>1, FitsStay DEF LineFits
      <4>2. CASE stage = "write"
        BY <2>4, <3>1, <4>2, FitsStay DEF LineFits
      <4> QED
        BY <4>1, <4>2
    <3> QED
      BY <2>1, <3>1, <3>2, GoesOn
  <2> QED
    BY <2>1, <2>2, <2>3, <2>4 DEF Outcome
<1>8. ASSUME NEW stage \in {"rename", "write"}, Continue(q, stage), UNCHANGED <<mine, local, tasks>>, Working(q),
             stage = "rename" => RenameFits(q, found[q], doc[q]), stage = "write" => WriteFits(q, found[q], doc[q])
      PROVE  HandlerFits(q)'
  <2>1. PICK i, d : i = found[q] /\ d = doc[q]
    OBVIOUS
  <2>2. /\ found'[q] = i /\ doc'[q] = d /\ pc'[q] = stage
        /\ UNCHANGED <<table, mine, call, at, gone, tasks>>
    BY <1>0, <1>8, <2>1 DEF Continue, Goto, committed, local
  <2>3. CASE stage = "rename"
    <3>1. RenameFits(q, i, d)
      BY <1>8, <2>1, <2>3 DEF RenameFits, Seen
    <3>2. LineFits(q)'
      BY <2>2, <2>3, <3>1, FitsStay DEF LineFits
    <3> QED
      BY <1>8, <2>2, <3>2, GoesOn
  <2>4. CASE stage = "write"
    <3>1. WriteFits(q, i, d)
      BY <1>8, <2>1, <2>4 DEF WriteFits, Seen, KeepsUuid
    <3>2. LineFits(q)'
      BY <2>2, <2>4, <3>1, FitsStay DEF LineFits
    <3> QED
      BY <1>8, <2>2, <3>2, GoesOn
  <2> QED
    BY <2>3, <2>4
<1>9. CASE PostCheck(q)
  <2>1. pc[q] = "check" /\ call[q].verb = "post" /\ Working(q) /\ UNCHANGED mine
    BY <1>9 DEF PostCheck, At, Working, Async
  <2>2. CASE Raise(q, 409)
    BY <1>5, <2>2
  <2>3. CASE ~Raise(q, 409)
    <3>1. ByUuid(View(q), doc[q].uuid) = Null /\ Continue(q, "write") /\ UNCHANGED <<local, tasks>>
      BY <1>9, <2>3 DEF PostCheck
    <3> QED
      BY <1>8, <2>1, <3>1, ChecksPass
  <2> QED
    BY <2>2, <2>3
<1>10. CASE PatchCheck(q)
  <2>1. pc[q] = "check" /\ call[q].verb = "patch" /\ Working(q) /\ UNCHANGED mine
    BY <1>10 DEF PatchCheck, At, Working, Async
  <2>2. CASE Raise(q, 409)
    BY <1>5, <2>2
  <2>3. CASE ~Raise(q, 409)
    <3>1. /\ Entity(q) = "products" => ByUuid(View(q), doc[q].uuid) \in {Null, doc[q].id}
          /\ Entity(q) = "products-uuid" => found[q] = doc[q].id \/ View(q)[doc[q].id] = Null
          /\ Continue(q, IF Entity(q) = "products-uuid" /\ found[q] \notin {Null, doc[q].id}
                         THEN "rename" ELSE "write")
          /\ UNCHANGED <<local, tasks>>
      BY <1>10, <2>3 DEF PatchCheck
    <3>2. Entity(q) \in {"products", "products-uuid"}
      BY <1>0, <2>1, CallFits DEF Base, StageFits, Entities
    <3>3. CASE Entity(q) = "products-uuid" /\ found[q] \notin {Null, doc[q].id}
      BY <1>8, <2>1, <3>1, <3>3, ChecksPass
    <3>4. CASE ~(Entity(q) = "products-uuid" /\ found[q] \notin {Null, doc[q].id})
      BY <1>8, <2>1, <3>1, <3>2, <3>4, ChecksPass
    <3> QED
      BY <3>3, <3>4
  <2> QED
    BY <2>2, <2>3
<1>11. ASSUME NEW code, NEW action, SingleWrite(q, code, action) PROVE HandlerFits(q)'
  <2>1. pc'[q] \in {"raised", "done"}
    BY <1>0, <1>11 DEF SingleWrite, Settle, Goto
  <2> QED
    BY <1>1, <2>1
<1>12. CASE PostWrite(q) \/ PatchWrite(q)
  BY <1>11, <1>12 DEF PostWrite, PatchWrite
<1>13. CASE RenameDelete(q)
  BY <1>13, RowIsRenamed
<1>14. CASE BatchCheck(q)
  <2>1. pc[q] = "check" /\ call[q].verb = "batch" /\ Working(q) /\ UNCHANGED <<mine, found, doc, tasks>>
    BY <1>14 DEF BatchCheck, At, Working, Async
  <2>2. CASE NextLine(q, 409)
    BY <1>6, <2>1, <2>2
  <2>3. CASE ~NextLine(q, 409)
    <3>1. ByUuid(View(q), doc[q].uuid) = Null /\ Continue(q, "write") /\ UNCHANGED <<local, tasks>>
      BY <1>14, <2>3 DEF BatchCheck, local
    <3> QED
      BY <1>8, <2>1, <3>1, ChecksPass
  <2> QED
    BY <2>2, <2>3
<1>15. CASE BatchWrite(q)
  <2>1. CASE Raise(q, 500)
    BY <1>5, <2>1
  <2>2. CASE ~Raise(q, 500)
    BY <1>15, <2>2, LineIsWritten DEF BatchWrite
  <2> QED
    BY <2>1, <2>2
<1>20. CASE BatchNullId(q)
  BY <1>5, <1>20 DEF BatchNullId
<1>16. CASE BatchCommit(q) \/ DeleteCommit(q)
  BY <1>0, <1>1, <1>16 DEF BatchCommit, DeleteCommit, Settle, Goto
<1>17. CASE DeleteRead(q)
  BY <1>2, <1>17 DEF DeleteRead, At, Async, Raise, Settle, Continue
<1>18. CASE DeleteStart(q) \/ DeleteRow(q)
  BY <1>2, <1>18 DEF DeleteStart, DeleteRow, At, Async, Continue
<1>19. CASE DispatchExit(q) \/ Rollback(q) \/ Respond(q)
  BY <1>0, <1>1, <1>19 DEF DispatchExit, Rollback, Respond, Goto
<1> QED
  BY <1>3, <1>4, <1>7, <1>9, <1>10, <1>12, <1>13, <1>14, <1>15, <1>16, <1>17, <1>18, <1>19,
     <1>20 DEF Acts, Server, Handler, Reads

\* Only a batch has announced anything.
LEMMA TasksStep ==
  ASSUME SInv, NEW q \in Requests, Acts(q)
  PROVE  TasksFit(q)'
<1>0. /\ TasksFit(q) /\ StageFits(q) /\ pc \in [Requests -> Stages]
      /\ call \in [Requests -> Calls \cup {Null}] /\ tasks \in [Requests -> Seq(Events)]
  BY DEF SInv, Base, TypeOK
<1>1. ASSUME tasks'[q] = <<>> PROVE TasksFit(q)'
  BY <1>1 DEF TasksFit
<1>2. ASSUME pc'[q] = "done" PROVE TasksFit(q)'
  BY <1>2 DEF TasksFit
<1>3. ASSUME UNCHANGED <<call, tasks>>, pc[q] \notin {"idle", "done"}, pc'[q] \notin {"idle", "received"}
      PROVE  TasksFit(q)'
  BY <1>0, <1>3 DEF TasksFit, Batch
<1>4. ASSUME Batch(q), call' = call, pc'[q] \notin {"idle", "received"} PROVE TasksFit(q)'
  BY <1>4 DEF TasksFit, Batch
<1>5. ASSUME NEW code, Raise(q, code), pc[q] \notin {"idle", "done"} PROVE TasksFit(q)'
  BY <1>0, <1>3, <1>5 DEF Raise, Settle, Goto
<1>6. ASSUME NEW stage \in {"check", "rename", "write", "lock", "commit"}, Continue(q, stage),
             UNCHANGED tasks, pc[q] \notin {"idle", "done"} PROVE TasksFit(q)'
  BY <1>0, <1>3, <1>6 DEF Continue, Goto
<1>7. ASSUME NEW status, NextLine(q, status), Batch(q) PROVE TasksFit(q)'
  BY <1>0, <1>4, <1>7 DEF NextLine, Goto
<1>8. CASE \E c \in Calls : Receive(q, c)
  BY <1>0, <1>1, <1>8 DEF Receive, TasksFit
<1>9. CASE StartHandler(q)
  BY <1>0, <1>1, <1>9 DEF StartHandler, TasksFit
<1>10. CASE Reads(q)
  <2>1. Outcome(q) /\ pc[q] = "read"
    BY <1>10, ReadStep
  <2> QED
    BY <1>5, <1>6, <1>7, <2>1 DEF Outcome
<1>11. CASE PostCheck(q) \/ PatchCheck(q) \/ RenameDelete(q) \/ DeleteRead(q) \/ DeleteStart(q) \/ DeleteRow(q)
  BY <1>5, <1>6, <1>11 DEF PostCheck, PatchCheck, RenameDelete, DeleteRead, DeleteStart, DeleteRow, At
<1>12. ASSUME NEW code, NEW action, SingleWrite(q, code, action), pc[q] = "write" PROVE TasksFit(q)'
  BY <1>0, <1>2, <1>3, <1>12 DEF SingleWrite, Settle, Goto
<1>13. CASE PostWrite(q) \/ PatchWrite(q)
  BY <1>12, <1>13 DEF PostWrite, PatchWrite, At
<1>14. CASE BatchCheck(q)
  BY <1>6, <1>7, <1>14 DEF BatchCheck, At, Batch
<1>15. CASE BatchWrite(q)
  BY <1>5, <1>7, <1>15 DEF BatchWrite, At, Batch
<1>19. CASE BatchNullId(q)
  BY <1>5, <1>19 DEF BatchNullId, At
<1>16. CASE BatchCommit(q) \/ DeleteCommit(q)
  BY <1>0, <1>2, <1>16 DEF BatchCommit, DeleteCommit, Settle, Goto
<1>17. CASE DispatchExit(q)
  BY <1>0, <1>3, <1>17 DEF DispatchExit, Goto
<1>18. CASE Rollback(q) \/ Respond(q)
  BY <1>0, <1>1, <1>18 DEF Rollback, Respond
<1> QED
  BY <1>8, <1>9, <1>10, <1>11, <1>13, <1>14, <1>15, <1>16, <1>17, <1>18, <1>19
     DEF Acts, Server, Handler, Reads

\* The request that acts takes away the row of its document.
LEMMA OwnRowStep ==
  ASSUME SInv, NEW q \in Requests, Acts(q)
  PROVE  OwnRow(q)'
<1>0. /\ Base /\ TypeOK /\ StageFits(q) /\ MineFits(q) /\ IsMap(mine) /\ OwnRow(q) /\ Locals'
      /\ pc \in [Requests -> Stages] /\ doc \in [Requests -> Documents \cup {Null}]
  BY LocalsStep DEF SInv, Base, TypeOK
<1>1. ASSUME pc'[q] \notin {"write", "lock", "commit"} PROVE OwnRow(q)'
  BY <1>1 DEF OwnRow
<1>2. ASSUME call' = call, Async(q), DOMAIN mine'[q] = {} \/ Batch(q) PROVE OwnRow(q)'
  BY <1>2 DEF OwnRow, Async, Batch
<1>3. CASE (\E c \in Calls : Receive(q, c)) \/ StartHandler(q) \/ DispatchExit(q) \/ Rollback(q) \/ Respond(q)
  BY <1>0, <1>1, <1>3 DEF Receive, StartHandler, DispatchExit, Rollback, Respond, Goto
<1>4. ASSUME NEW stage, NEW code, Settle(q, stage, code), stage \in {"raised", "done"} PROVE OwnRow(q)'
  BY <1>0, <1>1, <1>4 DEF Settle, Goto
<1>5. CASE PostWrite(q) \/ PatchWrite(q) \/ BatchCommit(q) \/ DeleteCommit(q) \/ BatchNullId(q)
  BY <1>4, <1>5 DEF PostWrite, PatchWrite, SingleWrite, BatchCommit, DeleteCommit, BatchNullId, Raise
<1>6. ASSUME NEW code, Raise(q, code) PROVE OwnRow(q)'
  BY <1>4, <1>6 DEF Raise
<1>7. CASE BatchCheck(q) \/ BatchWrite(q)
  <2>1. Batch(q) /\ Async(q)
    BY <1>7 DEF BatchCheck, BatchWrite, At, Batch, Async
  <2>2. CASE Raise(q, 500)
    BY <1>6, <2>2
  <2>3. CASE ~Raise(q, 500)
    <3>1. call' = call
      BY <1>7, <2>3 DEF BatchCheck, BatchWrite, NextLine, Continue
    <3> QED
      BY <1>2, <2>1, <3>1
  <2> QED
    BY <2>2, <2>3
<1>8. CASE Reads(q)
  <2>1. Outcome(q) /\ pc[q] = "read" /\ Async(q) /\ mine' = mine
    BY <1>8, ReadStep
  <2>2. call' = call
    BY <2>1 DEF Outcome, Raise, NextLine, Continue
  <2>3. DOMAIN mine[q] = {} \/ Batch(q)
    BY <1>0, <2>1 DEF StageFits, MineFits
  <2> QED
    BY <1>2, <2>1, <2>2, <2>3
<1>9. CASE PostCheck(q) \/ PatchCheck(q)
  <2>1. pc[q] = "check" /\ Async(q) /\ ~Batch(q) /\ mine' = mine
    BY <1>9 DEF PostCheck, PatchCheck, At, Async, Batch
  <2>2. DOMAIN mine[q] = {}
    BY <1>0, <2>1 DEF StageFits, MineFits
  <2>3. call' = call
    BY <1>9 DEF PostCheck, PatchCheck, Raise, Continue
  <2> QED
    BY <1>2, <2>1, <2>2, <2>3
<1>10. CASE RenameDelete(q)
  <2>1. /\ pc[q] = "rename" /\ call[q].verb = "patch" /\ Working(q) /\ ~Batch(q)
        /\ UNCHANGED <<table, call, doc>>
    BY <1>10 DEF RenameDelete, At, Working, Async, Batch, Continue, committed, local
  <2>2. DOMAIN mine[q] = {} /\ RenameFits(q, found[q], doc[q])
    BY <1>0, <2>1 DEF StageFits, MineFits, SInv, HandlerFits, LineFits
  <2>3. View(q) = table /\ found[q] \in Columns
    <3>1. found[q] \in Columns \cup {Null} /\ found[q] # Null
      BY <1>0, <2>2 DEF RenameFits, TypeOK
    <3> QED
      BY <1>0, <2>2, <3>1, ViewOfNothing
  <2>4. table[found[q]] # Null => table[found[q]].uuid = doc[q].uuid
    BY <2>2, <2>3 DEF RenameFits, Owns
  <2>5. \A j \in DOMAIN mine'[q] : j = found[q]
    <3>1. CASE mine' = mine
      BY <2>2, <3>1
    <3>2. CASE mine' # mine
      <4>1. PICK i : i = found[q]
        OBVIOUS
      <4>2. Write(q, i, Null)
        BY <1>10, <3>2, <4>1 DEF RenameDelete, Write
      <4> QED
        BY <1>0, <2>2, <4>1, <4>2, WriteRow
    <3> QED
      BY <3>1, <3>2
  <2> QED
    BY <2>1, <2>4, <2>5 DEF OwnRow, Async
<1>11. CASE DeleteRead(q)
  <2> DEFINE i == Lookup(table, Entity(q), call[q].code)
  <2>1. CASE Raise(q, 404)
    BY <1>6, <2>1
  <2>2. CASE ~Raise(q, 404)
    <3>1. /\ i # Null /\ doc' = [doc EXCEPT ![q] = [id |-> i, uuid |-> table[i].uuid, val |-> Absent]]
          /\ Continue(q, "write") /\ mine' = mine
      BY <1>11, <2>2 DEF DeleteRead, Prepare
    <3>2. call[q] # Null /\ call[q].verb = "delete" /\ pc[q] = "read"
      BY <1>0, <1>11 DEF DeleteRead, At, StageFits
    <3>3. IF Entity(q) = "products" THEN i = call[q].code ELSE table[i].uuid = call[q].code
      BY <1>0, <3>1, <3>2, CallFits, LookupFinds
    <3>4. DOMAIN mine'[q] = {}
      BY <1>0, <3>1, <3>2 DEF MineFits, Async
    <3>5. call' = call /\ doc'[q].id = i /\ doc'[q].uuid = table[i].uuid
      BY <1>0, <3>1 DEF Continue
    <3> HIDE DEF i
    <3> QED
      BY <3>3, <3>4, <3>5 DEF OwnRow, Entity
  <2> QED
    BY <2>1, <2>2
<1>12. CASE DeleteStart(q)
  <2>1. call' = call /\ doc' = doc /\ pc[q] = "write" /\ pc'[q] = "lock"
    BY <1>0, <1>12 DEF DeleteStart, At, Continue, Goto
  <2> QED
    BY <1>0, <2>1 DEF OwnRow, Async, Entity
<1>13. CASE DeleteRow(q)
  <2>1. /\ call' = call /\ doc' = doc /\ table' = table /\ pc[q] = "lock" /\ pc'[q] = "commit"
        /\ call[q].verb = "delete" /\ call[q] # Null /\ ~Async(q)
    BY <1>0, <1>13 DEF DeleteRow, At, Continue, Goto, committed, local, StageFits, Async
  <2>2. DOMAIN mine[q] = {} /\ call[q].code = IF Entity(q) = "products" THEN doc[q].id ELSE doc[q].uuid
    BY <1>0, <2>1 DEF MineFits, OwnRow
  <2>3. CASE mine' = mine
    BY <2>1, <2>2, <2>3 DEF OwnRow, Entity
  <2>4. CASE mine' # mine
    <3>1. PICK i : i = found[q]
      OBVIOUS
    <3>2. Write(q, i, Null) /\ i # Null /\ Lookup(table, Entity(q), call[q].code) = i
      BY <1>13, <2>4, <3>1 DEF DeleteRow, Write
    <3>3. \A j \in DOMAIN mine'[q] : j = i
      BY <1>0, <2>2, <3>2, WriteRow
    <3>4. IF Entity(q) = "products" THEN i = call[q].code ELSE table[i].uuid = call[q].code
      BY <1>0, <2>1, <3>2, CallFits, LookupFinds
    <3>5. i = doc[q].id \/ table[i].uuid = doc[q].uuid
      BY <2>2, <3>4
    <3> QED
      BY <2>1, <2>2, <3>3, <3>5 DEF OwnRow, Entity
  <2> QED
    BY <2>3, <2>4
<1> QED
  BY <1>3, <1>5, <1>7, <1>8, <1>9, <1>10, <1>11, <1>12, <1>13 DEF Acts, Server, Handler, Reads

----------------------------------------------------------------------------
(* The invariant. *)

LEMMA SInvInit == Init => SInv
<1> SUFFICES ASSUME Init PROVE SInv
  OBVIOUS
<1> USE StoreAssumption, EmptySeq DEF Init
<1>1. \A r \in Requests : DOMAIN mine[r] = {} /\ pc[r] = "idle" /\ call[r] = Null /\ tasks[r] = <<>>
  BY DEF Nothing
<1>2. TypeOK /\ IsMap(mine)
  <2>1. table \in Tables /\ gone \subseteq Columns \cup Uuids /\ IsMap(mine)
    BY DEF IsMap
  <2>2. /\ loop \in Requests \cup {Null} /\ pc \in [Requests -> Stages]
        /\ call \in [Requests -> Calls \cup {Null}] /\ at \in [Requests -> Nat \ {0}]
    BY DEF Stages
  <2>3. /\ found \in [Requests -> Columns \cup {Null}] /\ doc \in [Requests -> Documents \cup {Null}]
        /\ reply \in [Requests -> {0, 200, 201, 204, 404, 409, 422, 500}]
    OBVIOUS
  <2>4. results \in [Requests -> Seq({201, 204, 400, 409})] /\ tasks \in [Requests -> Seq(Events)]
    OBVIOUS
  <2>5. \A r \in Requests : TypedRows(r)
    BY <1>1 DEF TypedRows
  <2> QED
    BY <2>1, <2>2, <2>3, <2>4, <2>5 DEF TypeOK, TypedRows
<1>3. LocksDiffer /\ \A r \in Requests : StageFits(r) /\ MineFits(r)
  BY <1>1 DEF LocksDiffer, StageFits, MineFits, Working
<1>4. UuidsDiffer(table) /\ \A r \in Requests : TasksFit(r) /\ OwnRow(r) /\ HandlerFits(r)
  BY <1>1 DEF TasksFit, OwnRow, HandlerFits, Working
<1> QED
  BY <1>2, <1>3, <1>4 DEF SInv, Base

LEMMA NextIsActs == Next <=> \E q \in Requests : Acts(q)
BY DEF Next, Acts

LEMMA SInvStep == SInv /\ [Next]_vars => SInv'
<1> SUFFICES ASSUME SInv, [Next]_vars PROVE SInv'
  OBVIOUS
<1>1. CASE UNCHANGED vars
  <2>1. Base' /\ UuidsDiffer(table)'
    BY <1>1 DEF vars, SInv, Base, TypeOK, IsMap, LocksDiffer, StageFits, MineFits, Working, Async, Batch,
                Entity, UuidsDiffer
  <2>2. \A r \in Requests : TasksFit(r)' /\ OwnRow(r)'
    BY <1>1 DEF vars, SInv, TasksFit, OwnRow, Batch, Async, Entity
  <2>3. ASSUME NEW r \in Requests PROVE HandlerFits(r)'
    <3>1. CASE ~Working(r)
      BY <1>1, <3>1 DEF vars, HandlerFits, Working, Async
    <3>2. CASE Working(r)
      <4>1. UNCHANGED <<table, mine, call, at, gone, tasks>> /\ LineFits(r)
        BY <1>1, <3>2 DEF vars, SInv, HandlerFits
      <4>2. LineFits(r)'
        <5>1. PICK i, d : i = found[r] /\ d = doc[r]
          OBVIOUS
        <5>2. /\ pc[r] = "check" => CheckFits(r, i, d)
              /\ pc[r] = "rename" => RenameFits(r, i, d)
              /\ pc[r] = "write" => WriteFits(r, i, d)
          BY <4>1, <5>1 DEF LineFits, CheckFits, RenameFits, WriteFits, Seen, KeepsUuid
        <5>3. found'[r] = i /\ doc'[r] = d /\ pc' = pc
          BY <1>1, <5>1 DEF vars
        <5> QED
          BY <4>1, <5>2, <5>3, FitsStay DEF LineFits
      <4> QED
        BY <3>2, <4>1, <4>2, GoesOn
    <3> QED
      BY <3>1, <3>2
  <2> QED
    BY <2>1, <2>2, <2>3 DEF SInv
<1>2. ASSUME NEW q \in Requests, Acts(q) PROVE SInv'
  <2>1. Base' /\ UuidsDiffer(table')
    BY <1>2, BaseStep
  <2>2. ASSUME NEW r \in Requests PROVE TasksFit(r)' /\ OwnRow(r)' /\ HandlerFits(r)'
    <3>1. CASE r = q
      BY <1>2, <3>1, TasksStep, OwnRowStep, HandlerStep
    <3>2. CASE r # q
      <4>1. Unmoved(r) /\ TasksFit(r) /\ OwnRow(r) /\ HandlerFits(r) /\ Base
        BY <1>2, <3>2, OthersUnmoved DEF SInv
      <4>2. TasksFit(r)'
        BY <4>1 DEF Unmoved, TasksFit, Batch
      <4>4. OwnRow(r)'
        <5>1. \A i \in DOMAIN mine[r] : table'[i] = table[i]
          BY <1>2, <3>2, LockedRowsStay
        <5> QED
          BY <4>1, <5>1 DEF Unmoved, OwnRow, Batch, Async, Entity
      <4>3. HandlerFits(r)'
        <5>1. CASE ~Working(r)
          BY <4>1, <5>1 DEF Unmoved, HandlerFits, Working, Async
        <5>2. CASE Working(r)
          BY <1>2, <2>1, <3>2, <4>1, <5>2, LoopAlone, HandlerStays
        <5> QED
          BY <5>1, <5>2
      <4> QED
        BY <4>2, <4>3, <4>4
    <3> QED
      BY <3>1, <3>2
  <2> QED
    BY <2>1, <2>2 DEF SInv, UuidsDiffer
<1> QED
  BY <1>1, <1>2, NextIsActs

LEMMA Invariance == Spec => []SInv
BY SInvInit, SInvStep, PTL DEF Spec

\* TypeOK: what the endpoints keep is always well typed.
THEOREM StoreTypeCorrect == Spec => []TypeOK
<1>1. SInv => TypeOK
  BY DEF SInv, Base
<1> QED
  BY <1>1, Invariance, PTL

----------------------------------------------------------------------------
(* What steps do, one by one. *)

\* What is done has stored its document, its batch or its DELETE, or has rolled back.
LEMMA DoneIs ==
  ASSUME SInv, NEW q \in Requests, Acts(q), NEW r \in Requests, pc[r] # "done", pc'[r] = "done"
  PROVE  r = q /\ (Stores(q) \/ BatchCommit(q) \/ DeleteCommit(q) \/ Rollback(q))
<1>0. Base /\ pc \in [Requests -> Stages]
  BY DEF SInv, Base, TypeOK
<1>1. r = q
  BY <1>0, OthersUnmoved DEF Unmoved
<1>2. ASSUME NEW stage, Goto(q, stage), stage # "done" PROVE FALSE
  BY <1>0, <1>1, <1>2 DEF Goto
<1>3. ASSUME NEW code, Raise(q, code) PROVE FALSE
  BY <1>2, <1>3 DEF Raise, Settle
<1>4. ASSUME NEW stage, Continue(q, stage), stage # "done" PROVE FALSE
  BY <1>2, <1>4 DEF Continue
<1>5. ASSUME NEW status, NextLine(q, status) PROVE FALSE
  BY <1>2, <1>5 DEF NextLine
<1>6. CASE (\E c \in Calls : Receive(q, c)) \/ StartHandler(q) \/ DispatchExit(q) \/ Respond(q)
  BY <1>2, <1>6 DEF Receive, StartHandler, DispatchExit, Respond
<1>7. CASE Reads(q)
  BY <1>3, <1>4, <1>5, <1>7, ReadStep DEF Outcome
<1>8. CASE PostCheck(q) \/ PatchCheck(q) \/ RenameDelete(q) \/ DeleteRead(q) \/ DeleteStart(q) \/ DeleteRow(q)
  BY <1>3, <1>4, <1>8 DEF PostCheck, PatchCheck, RenameDelete, DeleteRead, DeleteStart, DeleteRow
<1>9. CASE BatchCheck(q) \/ BatchWrite(q) \/ BatchNullId(q)
  BY <1>3, <1>4, <1>5, <1>9 DEF BatchCheck, BatchWrite, BatchNullId
<1>10. ASSUME NEW code \in {201, 204}, NEW action \in {"created", "updated"}, SingleWrite(q, code, action),
              pc[q] = "write", call[q].verb \in {"post", "patch"},
              action = "created" => call[q].verb = "post" \/ found[q] = Null,
              action = "updated" => found[q] # Null
       PROVE  Stores(q)
  BY <1>2, <1>10 DEF SingleWrite, Stores, Settle, Goto
<1>11. CASE PostWrite(q) \/ PatchWrite(q)
  BY <1>1, <1>10, <1>11 DEF PostWrite, PatchWrite, At
<1> QED
  BY <1>1, <1>6, <1>7, <1>8, <1>9, <1>11 DEF Acts, Server, Handler, Reads

\* What commits has not rolled back.
LEMMA CommitIs ==
  ASSUME SInv, NEW q \in Requests, Acts(q), NEW r \in Requests, Commits(r)
  PROVE  r = q /\ (Stores(q) \/ BatchCommit(q) \/ DeleteCommit(q))
<1>1. r = q /\ (Stores(q) \/ BatchCommit(q) \/ DeleteCommit(q) \/ Rollback(q))
  BY DoneIs DEF Commits
<1>2. CASE Rollback(q)
  <2>1. pc[q] = "exiting" /\ reply' = reply /\ reply[q] \in {404, 409, 422, 500}
    BY <1>2 DEF Rollback, SInv, Base, StageFits
  <2> QED
    BY <1>1, <2>1 DEF Commits
<1> QED
  BY <1>1, <1>2

\* What a POST or PATCH commits.
LEMMA StoreCommits ==
  ASSUME SInv, NEW q \in Requests, Acts(q), Stores(q)
  PROVE  LET d == doc[q] IN
         /\ d.id \in Columns /\ d.uuid \in Uuids /\ WriteFits(q, found[q], d)
         /\ Commits(q) /\ ~Batch(q) /\ call[q].verb # "delete"
         /\ table'[d.id] # Null /\ table'[d.id].uuid = d.uuid
         /\ View(q)[d.id] = table[d.id]
         /\ \A j \in Columns \ {d.id} : table'[j] \in {table[j], Null}
         /\ \A j \in Columns \ {d.id} : table'[j] # table[j] => table[j].uuid = d.uuid
         /\ \A j \in DOMAIN mine[q] : mine[q][j] = Null
         /\ \E e \in Events : /\ tasks'[q] = <<e>> /\ e.id = d.id /\ e.uuid = d.uuid
                              /\ e.action = "created" => found[q] = Null
                              /\ e.action = "updated" => found[q] # Null
                              /\ e.action # "deleted"
<1> DEFINE d == doc[q]
<1>1. /\ Base /\ TypeOK /\ Locals /\ pc[q] = "write" /\ Working(q) /\ ~Batch(q) /\ call[q] # Null
      /\ call[q].verb \in {"post", "patch"} /\ call[q].verb # "delete"
  BY TypesMake DEF SInv, Base, Stores, Working, Async, Batch, StageFits
<1>2. d \in Documents /\ d.id \in Columns /\ d.uuid \in Uuids /\ View(q) \in Tables
  BY <1>1, DocIsThere, ViewIsTable DEF Documents
<1>3. WriteFits(q, found[q], d) /\ tasks[q] = <<>> /\ \A j \in DOMAIN mine[q] : mine[q][j] = Null
  BY <1>1 DEF SInv, HandlerFits, LineFits, TasksFit, Base, MineFits
<1>4. Commits(q)
  BY <1>1 DEF Stores, TypeOK, Commits
<1>5. table'[d.id] # Null /\ table'[d.id].uuid = d.uuid
      /\ \A j \in Columns \ {d.id} : table'[j] = View(q)[j]
  <2>1. Upserted(View(q), d) \in Rows /\ Upserted(View(q), d).uuid = d.uuid
    BY <1>2, UpsertedIsRow
  <2>2. table' = [View(q) EXCEPT ![d.id] = Upserted(View(q), d)]
    BY DEF Stores
  <2> QED
    BY <1>2, <2>1, <2>2, StoreAssumption DEF Tables
<1>6. \A j \in Columns : View(q)[j] = IF j \in DOMAIN mine[q] THEN mine[q][j] ELSE table[j]
  BY <1>1, ViewIsTable
<1>7. View(q)[d.id] = table[d.id]
  BY <1>1, <1>2, <1>3, <1>6 DEF WriteFits
<1>8. \E e \in Events : /\ tasks'[q] = <<e>> /\ e.id = d.id /\ e.uuid = d.uuid
                        /\ e.action = "created" => found[q] = Null
                        /\ e.action = "updated" => found[q] # Null
                        /\ e.action # "deleted"
  <2>1. PICK action \in {"created", "updated"} :
          /\ Announce(q, action, doc[q]) /\ (action = "created" => call[q].verb = "post" \/ found[q] = Null)
          /\ (action = "updated" => found[q] # Null)
    BY DEF Stores
  <2>2. action \in {"created", "updated", "deleted"}
    OBVIOUS
  <2>3. PICK e \in Events : tasks'[q] = Append(tasks[q], e) /\ e.action = action /\ e.id = d.id /\ e.uuid = d.uuid
    BY <1>1, <1>2, <2>1, <2>2, AnnounceTypes
  <2>4. tasks'[q] = <<e>>
    BY <1>3, <2>3
  <2> QED
    BY <1>1, <1>3, <2>1, <2>3, <2>4 DEF WriteFits
<1> QED
  <2>1. \A j \in Columns \ {d.id} : table'[j] # table[j] => table[j].uuid = d.uuid
    <3>1. OwnRow(q)
      BY DEF SInv
    <3> QED
      BY <1>1, <1>3, <1>5, <1>6, <3>1 DEF OwnRow
  <2> QED
    BY <1>1, <1>2, <1>3, <1>4, <1>5, <1>6, <1>7, <1>8, <2>1

\* What a batch commits.
LEMMA BatchCommits ==
  ASSUME SInv, NEW q \in Requests, BatchCommit(q)
  PROVE  /\ Commits(q) /\ Batch(q) /\ BatchFits(q) /\ tasks' = tasks /\ tasks[q] \in Seq(Events)
         /\ \A i \in DOMAIN mine[q] : mine[q][i] # Null /\ table'[i] = mine[q][i]
         /\ \A i \in Columns \ DOMAIN mine[q] : table'[i] = table[i]
<1>1. Base /\ TypeOK /\ pc[q] = "commit" /\ Batch(q) /\ Working(q) /\ call[q] # Null
  BY DEF SInv, Base, BatchCommit, At, Batch, Working, Async, StageFits
<1>2. BatchFits(q) /\ DOMAIN mine[q] \subseteq Columns /\ \A i \in DOMAIN mine[q] : mine[q][i] # Null
  BY <1>1 DEF SInv, HandlerFits, Base, MineFits, TypeOK
<1>3. Commits(q) /\ tasks[q] \in Seq(Events) /\ tasks' = tasks /\ table' = View(q)
  BY <1>1 DEF BatchCommit, Settle, Goto, TypeOK, Commits
<1> QED
  BY <1>1, <1>2, <1>3, ViewIsTable

\* What a DELETE commits.
LEMMA DeleteCommits ==
  ASSUME SInv, NEW q \in Requests, DeleteCommit(q)
  PROVE  /\ Commits(q) /\ call[q].verb = "delete"
         /\ \A i \in Columns : table'[i] \in {table[i], Null}
         /\ \A i \in Columns : table'[i] # table[i] => i = doc[q].id \/ table[i].uuid = doc[q].uuid
         /\ \E e \in Events : tasks'[q] = <<e>> /\ e.action = "deleted" /\ e.id = doc[q].id /\ e.uuid = doc[q].uuid
<1>1. /\ Base /\ TypeOK /\ Locals /\ pc[q] = "commit" /\ call[q].verb = "delete" /\ call[q] # Null
      /\ ~Batch(q)
  BY TypesMake DEF SInv, Base, DeleteCommit, At, Batch, StageFits
<1>2. tasks[q] = <<>> /\ doc[q] \in Documents /\ \A i \in DOMAIN mine[q] : mine[q][i] = Null
  BY <1>1, DocIsThere DEF SInv, TasksFit, Base, MineFits
<1>3. Commits(q) /\ table' = View(q) /\ Announce(q, "deleted", doc[q])
  BY <1>1 DEF DeleteCommit, Settle, Goto, TypeOK, Commits
<1>4. PICK e \in Events : /\ tasks'[q] = Append(tasks[q], e) /\ e.action = "deleted"
                        /\ e.id = doc[q].id /\ e.uuid = doc[q].uuid
  BY <1>1, <1>2, <1>3, AnnounceTypes
<1>5. tasks'[q] = <<e>>
  BY <1>2, <1>4
<1>6. \A i \in Columns : View(q)[i] = IF i \in DOMAIN mine[q] THEN mine[q][i] ELSE table[i]
  BY <1>1, ViewIsTable
<1>7. \A i \in Columns : table'[i] # table[i] => i = doc[q].id \/ table[i].uuid = doc[q].uuid
  <2>1. OwnRow(q)
    BY DEF SInv
  <2> QED
    BY <1>1, <1>2, <1>3, <1>6, <2>1 DEF OwnRow
<1> QED
  BY <1>1, <1>2, <1>3, <1>4, <1>5, <1>6, <1>7

----------------------------------------------------------------------------
(* What steps may never do. *)

\* ChangesAreAnnounced: a row changes only as a request that succeeds commits and announces
\* it, and only such a request has anything dispatched.
THEOREM OnlyCommitsChange == Spec => ChangesAreAnnounced
<1>1. ASSUME SInv, [Next]_vars, NEW i \in Columns, table'[i] # table[i]
      PROVE  \E r \in Requests : Commits(r) /\
               \E n \in DOMAIN tasks'[r] :
                 \/ tasks'[r][n].id = i
                 \/ table[i] # Null /\ table[i].uuid = tasks'[r][n].uuid
  <2>1. PICK q \in Requests : Acts(q)
    BY <1>1, NextIsActs DEF vars
  <2>2. Stores(q) \/ BatchCommit(q) \/ DeleteCommit(q)
    BY <1>1, <2>1, TableStep
  <2>3. CASE Stores(q)
    <3>1. PICK e \in Events : tasks'[q] = <<e>> /\ e.id = doc[q].id /\ e.uuid = doc[q].uuid
      BY <1>1, <2>1, <2>3, StoreCommits
    <3>2. 1 \in DOMAIN tasks'[q] /\ tasks'[q][1] = e
      BY <3>1
    <3>3. Commits(q) /\ (i = doc[q].id \/ (table[i] # Null /\ table[i].uuid = doc[q].uuid))
      BY <1>1, <2>1, <2>3, StoreCommits
    <3> QED
      BY <3>1, <3>2, <3>3
  <2>4. CASE BatchCommit(q)
    <3>1. i \in DOMAIN mine[q] /\ mine[q][i] # Null /\ BatchFits(q) /\ Commits(q) /\ tasks' = tasks
      BY <1>1, <2>4, BatchCommits
    <3>2. PICK n \in DOMAIN tasks[q] : tasks[q][n].id = i
      BY <3>1 DEF BatchFits
    <3> QED
      BY <3>1, <3>2
  <2>5. CASE DeleteCommit(q)
    <3>1. PICK e \in Events : tasks'[q] = <<e>> /\ e.id = doc[q].id /\ e.uuid = doc[q].uuid
      BY <1>1, <2>5, DeleteCommits
    <3>2. 1 \in DOMAIN tasks'[q] /\ tasks'[q][1] = e
      BY <3>1
    <3>3. Commits(q) /\ (i = doc[q].id \/ (table[i] # Null /\ table[i].uuid = doc[q].uuid))
      BY <1>1, <2>5, DeleteCommits
    <3> QED
      BY <3>1, <3>2, <3>3
  <2> QED
    BY <2>2, <2>3, <2>4, <2>5
<1>2. ASSUME SInv, [Next]_vars, NEW r \in Requests, pc[r] # "done", pc'[r] = "done", tasks'[r] # <<>>
      PROVE  Commits(r)
  <2>1. PICK q \in Requests : Acts(q)
    BY <1>2, NextIsActs DEF vars
  <2>2. Base /\ pc \in [Requests -> Stages] /\ tasks \in [Requests -> Seq(Events)]
    BY <1>2 DEF SInv, Base, TypeOK
  <2>3. r = q
    BY <1>2, <2>1, <2>2, OthersUnmoved DEF Unmoved
  <2>4. ~Rollback(q)
    BY <1>2, <2>2, <2>3 DEF Rollback
  <2>5. Stores(q) \/ BatchCommit(q) \/ DeleteCommit(q)
    BY <1>2, <2>1, <2>4, DoneIs
  <2> QED
    BY <1>2, <2>1, <2>3, <2>5, StoreCommits, BatchCommits, DeleteCommits
<1>3. SInv /\ [Next]_vars =>
        /\ \A i \in Columns : table'[i] # table[i] =>
             \E r \in Requests : Commits(r) /\
               \E n \in DOMAIN tasks'[r] :
                 \/ tasks'[r][n].id = i
                 \/ table[i] # Null /\ table[i].uuid = tasks'[r][n].uuid
        /\ \A r \in Requests : pc[r] # "done" /\ pc'[r] = "done" /\ tasks'[r] # <<>> => Commits(r)
  BY <1>1, <1>2
<1> QED
  BY <1>3, Invariance, PTL DEF Spec, ChangesAreAnnounced

\* UuidKept: only a line about a product that names another uuid, or one that is none,
\* gives it another.
THEOREM UuidsAreKept == Spec => UuidKept
<1>1. ASSUME SInv, [Next]_vars, NEW i \in Columns, table[i] # Null, table'[i] # Null,
             table'[i].uuid # table[i].uuid
      PROVE  \E r \in Requests : Commits(r) /\ Named(r, i, table'[i].uuid)
  <2>1. PICK q \in Requests : Acts(q)
    BY <1>1, NextIsActs DEF vars
  <2>2. Stores(q) \/ BatchCommit(q) \/ DeleteCommit(q)
    BY <1>1, <2>1, TableStep
  <2>3. CASE Stores(q)
    <3>1. i = doc[q].id
      BY <1>1, <2>1, <2>3, StoreCommits
    <3>2. KeepsUuid(q, doc[q]) /\ table'[i].uuid = doc[q].uuid /\ View(q)[i] = table[i] /\ Commits(q)
      BY <1>1, <2>1, <2>3, <3>1, StoreCommits DEF WriteFits
    <3> QED
      BY <1>1, <3>1, <3>2 DEF KeepsUuid
  <2>4. CASE BatchCommit(q)
    <3>1. i \in DOMAIN mine[q] /\ mine[q][i] # Null /\ table'[i] = mine[q][i] /\ BatchFits(q) /\ Commits(q)
      BY <1>1, <2>4, BatchCommits
    <3> QED
      BY <1>1, <3>1 DEF BatchFits
  <2>5. CASE DeleteCommit(q)
    BY <1>1, <2>5, DeleteCommits
  <2> QED
    BY <2>2, <2>3, <2>4, <2>5
<1>2. SInv /\ [Next]_vars =>
        \A i \in Columns :
          table[i] # Null /\ table'[i] # Null /\ table'[i].uuid # table[i].uuid =>
            \E r \in Requests : Commits(r) /\
              \E n \in DOMAIN call[r].lines :
                IsAbout(r, n, i) /\ call[r].lines[n].uuid \in {table'[i].uuid, Nulled}
  BY <1>1 DEF Named
<1> QED
  BY <1>2, Invariance, PTL DEF Spec, UuidKept

\* AcceptedIsStored: what is announced is stored when the request commits.
THEOREM AnnouncedIsStored == Spec => AcceptedIsStored
<1>1. ASSUME SInv, [Next]_vars, NEW r \in Requests, Commits(r), call[r].verb # "delete",
             NEW n \in DOMAIN tasks'[r]
      PROVE  /\ table'[tasks'[r][n].id] # Null
             /\ (\A m \in DOMAIN tasks'[r] : m > n => tasks'[r][m].id # tasks'[r][n].id)
                  => table'[tasks'[r][n].id].uuid = tasks'[r][n].uuid
  <2>1. PICK q \in Requests : Acts(q)
    BY <1>1, NextIsActs DEF vars, Commits
  <2>2. r = q /\ (Stores(q) \/ BatchCommit(q) \/ DeleteCommit(q))
    BY <1>1, <2>1, CommitIs
  <2>3. CASE Stores(q)
    <3>1. PICK e \in Events : tasks'[q] = <<e>> /\ e.id = doc[q].id /\ e.uuid = doc[q].uuid
      BY <1>1, <2>1, <2>3, StoreCommits
    <3>2. tasks'[q][n] = e
      BY <1>1, <2>2, <3>1
    <3> QED
      BY <1>1, <2>1, <2>2, <2>3, <3>1, <3>2, StoreCommits
  <2>4. CASE BatchCommit(q)
    <3>1. /\ BatchFits(q) /\ tasks' = tasks
          /\ \A i \in DOMAIN mine[q] : mine[q][i] # Null /\ table'[i] = mine[q][i]
      BY <1>1, <2>4, BatchCommits
    <3>2. /\ tasks[q][n].id \in DOMAIN mine[q]
          /\ (\A m \in DOMAIN tasks[q] : m > n => tasks[q][m].id # tasks[q][n].id)
               => mine[q][tasks[q][n].id].uuid = tasks[q][n].uuid
      BY <1>1, <2>2, <3>1 DEF BatchFits
    <3> QED
      BY <2>2, <3>1, <3>2
  <2>5. CASE DeleteCommit(q)
    BY <1>1, <2>2, <2>5, DeleteCommits
  <2> QED
    BY <2>2, <2>3, <2>4, <2>5
<1>2. SInv /\ [Next]_vars =>
        \A r \in Requests :
          Commits(r) /\ call[r].verb # "delete" =>
            \A n \in DOMAIN tasks'[r] :
              LET e == tasks'[r][n] IN
              /\ table'[e.id] # Null
              /\ (\A m \in DOMAIN tasks'[r] : m > n => tasks'[r][m].id # e.id)
                   => table'[e.id].uuid = e.uuid
  BY <1>1
<1> QED
  BY <1>2, Invariance, PTL DEF Spec, AcceptedIsStored

\* EventsMatchRows: an event says what was there when its request committed.
THEOREM EventsTellTheRows == Spec => EventsMatchRows
<1> DEFINE Tells(r, n) ==
      LET e == tasks'[r][n] IN
      CASE e.action = "created" ->
             \/ call[r].verb = "batch" /\ Entity(r) = "products-uuid"
             \/ table[e.id] = Null
        [] e.action = "updated" ->
             \/ \E m \in 1..(n - 1) : tasks'[r][m].id = e.id
             \/ table[e.id] # Null \/ HasUuid(table, e.uuid)
             \/ {e.id, e.uuid} \cap gone # {}
        [] OTHER -> TRUE
<1>1. ASSUME SInv, [Next]_vars, NEW r \in Requests, Commits(r), NEW n \in DOMAIN tasks'[r]
      PROVE  Tells(r, n)
  <2>1. PICK q \in Requests : Acts(q)
    BY <1>1, NextIsActs DEF vars, Commits
  <2>2. r = q /\ (Stores(q) \/ BatchCommit(q) \/ DeleteCommit(q))
    BY <1>1, <2>1, CommitIs
  <2>3. CASE Stores(q)
    <3> DEFINE d == doc[q]
    <3>1. PICK e \in Events : /\ tasks'[q] = <<e>> /\ e.id = d.id /\ e.uuid = d.uuid
                              /\ e.action = "created" => found[q] = Null
                              /\ e.action = "updated" => found[q] # Null
      BY <1>1, <2>1, <2>3, StoreCommits
    <3>2. tasks'[r][n] = e
      BY <1>1, <2>2, <3>1
    <3>3. /\ WriteFits(q, found[q], d) /\ View(q)[d.id] = table[d.id] /\ tasks[q] = <<>>
          /\ ~Batch(q) /\ \A j \in DOMAIN mine[q] : mine[q][j] = Null
      <4>1. tasks[q] = <<>>
        BY <1>1, <2>1, <2>3, StoreCommits DEF SInv, TasksFit, Stores, Base, StageFits
      <4> QED
        BY <1>1, <2>1, <2>3, <4>1, StoreCommits
    <3>4. found[q] = Null => table[d.id] = Null
      BY <3>3 DEF WriteFits
    <3>5. found[q] # Null => Was(d.id, d.uuid)
      BY <3>3 DEF WriteFits, Seen
    <3> HIDE DEF d
    <3> QED
      BY <3>1, <3>2, <3>4, <3>5 DEF Was
  <2>4. CASE BatchCommit(q)
    <3>1. Batch(q) /\ BatchFits(q) /\ tasks' = tasks
      BY <1>1, <2>4, BatchCommits
    <3> DEFINE e == tasks[q][n]
    <3>2. /\ e.action = "created" => Entity(q) = "products-uuid" \/ table[e.id] = Null
          /\ e.action = "updated" => Was(e.id, e.uuid) \/ \E m \in 1..(n - 1) : tasks[q][m].id = e.id
      BY <1>1, <2>2, <3>1 DEF BatchFits
    <3>3. tasks'[r][n] = e
      BY <2>2, <3>1
    <3> HIDE DEF e
    <3> QED
      BY <2>2, <3>1, <3>2, <3>3 DEF Was, Batch
  <2>5. CASE DeleteCommit(q)
    <3>1. tasks'[r][n].action = "deleted"
      BY <1>1, <2>2, <2>5, DeleteCommits
    <3> QED
      BY <3>1
  <2> QED
    BY <2>2, <2>3, <2>4, <2>5
<1>2. SInv /\ [Next]_vars =>
        \A r \in Requests : Commits(r) =>
          \A n \in DOMAIN tasks'[r] :
            LET e == tasks'[r][n] IN
            CASE e.action = "created" ->
                   \/ call[r].verb = "batch" /\ Entity(r) = "products-uuid"
                   \/ table[e.id] = Null
              [] e.action = "updated" ->
                   \/ \E m \in 1..(n - 1) : tasks'[r][m].id = e.id
                   \/ table[e.id] # Null \/ HasUuid(table, e.uuid)
                   \/ {e.id, e.uuid} \cap gone # {}
              [] OTHER -> TRUE
  BY <1>1
<1> QED
  BY <1>2, Invariance, PTL DEF Spec, EventsMatchRows

\* A request that comes to answer 500 has a null id, or is writing, and its uuid is taken.
LEMMA ViolationIs ==
  ASSUME SInv, NEW q \in Requests, Acts(q), reply[q] # 500, reply'[q] = 500
  PROVE  \/ BatchNullId(q)
         \/ Working(q) /\ pc[q] = "write" /\ UniqueViolation(View(q), doc[q])
<1>0. reply \in [Requests -> {0, 200, 201, 204, 404, 409, 422, 500}]
  BY DEF SInv, Base, TypeOK
<1>1. ASSUME NEW stage, NEW code \in {200, 201, 204, 404, 409, 422}, Settle(q, stage, code) PROVE FALSE
  BY <1>0, <1>1 DEF Settle
<1>2. ASSUME NEW code \in {404, 409, 422}, Raise(q, code) PROVE FALSE
  BY <1>1, <1>2 DEF Raise
<1>3. ASSUME NEW stage, Continue(q, stage) PROVE FALSE
  BY <1>3 DEF Continue
<1>4. ASSUME NEW status, NextLine(q, status) PROVE FALSE
  BY <1>4 DEF NextLine
<1>5. CASE (\E c \in Calls : Receive(q, c)) \/ StartHandler(q) \/ DispatchExit(q) \/ Rollback(q)
  BY <1>5 DEF Receive, StartHandler, DispatchExit, Rollback
<1>6. CASE Respond(q)
  BY <1>0, <1>6 DEF Respond
<1>7. CASE Reads(q)
  BY <1>2, <1>3, <1>4, <1>7, ReadStep DEF Outcome
<1>8. CASE PostCheck(q) \/ PatchCheck(q) \/ RenameDelete(q) \/ DeleteRead(q) \/ DeleteStart(q) \/ DeleteRow(q)
  BY <1>2, <1>3, <1>8 DEF PostCheck, PatchCheck, RenameDelete, DeleteRead, DeleteStart, DeleteRow
<1>9. CASE BatchCheck(q)
  BY <1>3, <1>4, <1>9 DEF BatchCheck
<1>10. CASE BatchWrite(q)
  <2>1. UniqueViolation(View(q), doc[q])
    BY <1>4, <1>10 DEF BatchWrite
  <2> QED
    BY <1>10, <2>1 DEF BatchWrite, At, Working, Async
<1>11. ASSUME NEW code \in {201, 204}, NEW action, SingleWrite(q, code, action)
       PROVE  UniqueViolation(View(q), doc[q])
  BY <1>1, <1>11 DEF SingleWrite
<1>12. CASE PostWrite(q) \/ PatchWrite(q)
  <2>1. UniqueViolation(View(q), doc[q])
    BY <1>11, <1>12 DEF PostWrite, PatchWrite
  <2> QED
    BY <1>12, <2>1 DEF PostWrite, PatchWrite, At, Working, Async
<1>13. CASE BatchCommit(q) \/ DeleteCommit(q)
  BY <1>1, <1>13 DEF BatchCommit, DeleteCommit
<1>14. CASE BatchNullId(q)
  BY <1>14
<1> QED
  BY <1>5, <1>6, <1>7, <1>8, <1>9, <1>10, <1>12, <1>13, <1>14 DEF Acts, Server, Handler, Reads

\* Only500s: only a line that mixes up two products, or names none, meets a 500.
THEOREM OnlyMixedLines500 == Spec => Only500s
<1>1. ASSUME SInv, [Next]_vars, NEW r \in Requests, reply[r] # 500, reply'[r] = 500
      PROVE  call[r].verb = "batch" /\ ByUuid(View(r), Line(r).uuid) \notin {Null, Line(r).identifier}
  <2>1. PICK q \in Requests : Acts(q)
    BY <1>1, NextIsActs DEF vars
  <2>2. r = q
    BY <1>1, <2>1, OthersUnmoved DEF Unmoved, SInv
  <2>0. CASE BatchNullId(q)
    <3>1. /\ At(q, "read", "batch") /\ Entity(q) = "products-uuid" /\ Line(q).identifier = Nulled
          /\ Lookup(View(q), Entity(q), Line(q).uuid) # Null
      BY <2>0 DEF BatchNullId
    <3>2. PICK i : i = ByUuid(View(q), Line(q).uuid)
      OBVIOUS
    <3>3. i \in Columns /\ i # Null
      BY <3>1, <3>2, ByUuidFinds DEF Lookup
    <3>4. Nulled \notin Columns \cup {Null}
      BY StoreAssumption DEF Columns
    <3> QED
      BY <2>2, <3>1, <3>2, <3>3, <3>4 DEF At
  <2>3. CASE ~BatchNullId(q)
    <3>1. Working(q) /\ pc[q] = "write" /\ UniqueViolation(View(q), doc[q])
      BY <1>1, <2>1, <2>2, <2>3, ViolationIs
    <3>2. UuidsDiffer(View(q)) /\ WriteFits(q, found[q], doc[q]) /\ doc[q].id \in Columns
      BY <1>1, <3>1, DocIsThere DEF SInv, HandlerFits, LineFits, Documents
    <3>3. Batch(q) /\ Line(q).uuid = doc[q].uuid /\ Line(q).identifier \in {doc[q].id, Absent}
      BY <3>1, <3>2 DEF WriteFits
    <3>4. PICK j \in Columns \ {doc[q].id} : View(q)[j] # Null /\ View(q)[j].uuid = doc[q].uuid
      BY <3>1 DEF UniqueViolation
    <3>5. ByUuid(View(q), Line(q).uuid) = j
      BY <3>2, <3>3, <3>4, OwnerIsFound
    <3>6. j # Null /\ j # Absent
      BY <3>4, StoreAssumption
    <3> QED
      BY <2>2, <3>3, <3>4, <3>5, <3>6 DEF Batch
  <2> QED
    BY <2>0, <2>3
<1>2. SInv /\ [Next]_vars =>
        \A r \in Requests :
          reply[r] # 500 /\ reply'[r] = 500 =>
            LET line == Line(r)
                holder == ByUuid(View(r), line.uuid) IN
            call[r].verb = "batch" /\ holder \notin {Null, line.identifier}
  BY <1>1
<1> QED
  BY <1>2, Invariance, PTL DEF Spec, Only500s


----------------------------------------------------------------------------
(* Who waits for whom. *)

\* The loop is taken only by an async handler that has yet to settle on its answer.
LoopWorks == loop # Null => Working(loop)

LEMMA LoopWorksStep ==
  ASSUME SInv, SInv', LoopWorks, NEW q \in Requests, Acts(q)
  PROVE  LoopWorks'
<1>0. /\ pc \in [Requests -> Stages] /\ call \in [Requests -> Calls \cup {Null}]
      /\ loop \in Requests \cup {Null} /\ Null \notin Requests /\ Base
      /\ loop = q => Working(q)
  <2>1. Base
    BY DEF SInv
  <2>2. TypeOK
    BY <2>1 DEF Base
  <2>3. /\ pc \in [Requests -> Stages] /\ call \in [Requests -> Calls \cup {Null}]
        /\ loop \in Requests \cup {Null}
    BY <2>2 DEF TypeOK
  <2>4. Null \notin Requests
    BY StoreAssumption
  <2>5. loop = q => Working(q)
    BY <2>4 DEF LoopWorks
  <2> QED
    BY <2>1, <2>3, <2>4, <2>5
<1>1. CASE loop # q /\ loop' = loop
  <2>1. ASSUME loop # Null PROVE Working(loop)'
    <3>1. Unmoved(loop) /\ Working(loop)
      BY <1>0, <1>1, <2>1, OthersUnmoved DEF LoopWorks
    <3> QED
      BY <1>1, <3>1 DEF Unmoved, Working, Async
  <2> QED
    BY <1>1, <2>1 DEF LoopWorks
<1>2. CASE loop' = Null
  BY <1>2 DEF LoopWorks
<1>3. ASSUME loop' = q, call' = call,
             pc'[q] \in {"read", "check", "rename", "write", "commit"}, Async(q)
      PROVE  LoopWorks'
  BY <1>3 DEF LoopWorks, Working, Async
<1>4. ASSUME NEW stage \in {"check", "rename", "write", "lock", "commit"}, Continue(q, stage),
             stage = "lock" => ~Async(q)
      PROVE  LoopWorks'
  <2>1. pc'[q] = stage /\ loop' = loop /\ call' = call
    BY <1>0, <1>4 DEF Continue, Goto
  <2> QED
    BY <1>0, <1>1, <1>3, <1>4, <2>1 DEF Working
<1>5. ASSUME NEW status, NextLine(q, status) PROVE LoopWorks'
  <2>1. pc'[q] \in {"read", "commit"} /\ loop' = loop /\ call' = call
    BY <1>0, <1>5 DEF NextLine, Goto
  <2> QED
    BY <1>0, <1>1, <1>3, <2>1 DEF Working
<1>6. ASSUME NEW stage, NEW code, Settle(q, stage, code) PROVE LoopWorks'
  BY <1>1, <1>2, <1>6 DEF Settle
<1>7. ASSUME NEW code, Raise(q, code) PROVE LoopWorks'
  BY <1>6, <1>7 DEF Raise
<1>8. CASE \E c \in Calls : Receive(q, c)
  BY <1>2, <1>8 DEF Receive
<1>9. CASE StartHandler(q)
  <2>1. pc[q] = "received" /\ pc'[q] = "read" /\ loop' = q /\ call' = call
    BY <1>0, <1>9 DEF StartHandler, Goto
  <2> QED
    BY <1>0, <1>3, <2>1 DEF Base, StageFits
<1>10. CASE Reads(q)
  <2>1. Outcome(q)
    BY <1>10, ReadStep
  <2> QED
    BY <1>4, <1>5, <1>7, <2>1 DEF Outcome
<1>11. CASE PostCheck(q) \/ PatchCheck(q) \/ RenameDelete(q) \/ BatchCheck(q) \/ DeleteRead(q)
  BY <1>4, <1>5, <1>7, <1>11 DEF PostCheck, PatchCheck, RenameDelete, BatchCheck, DeleteRead
<1>12. CASE PostWrite(q) \/ PatchWrite(q) \/ BatchCommit(q) \/ DeleteCommit(q)
  BY <1>6, <1>12 DEF PostWrite, PatchWrite, SingleWrite, BatchCommit, DeleteCommit
<1>13. CASE BatchWrite(q)
  BY <1>5, <1>7, <1>13 DEF BatchWrite
<1>14. CASE DeleteStart(q) \/ DeleteRow(q)
  BY <1>4, <1>14 DEF DeleteStart, DeleteRow, At, Async
<1>15. CASE DispatchExit(q) \/ Rollback(q) \/ Respond(q)
  <2>1. pc[q] \in {"raised", "exiting", "done"} /\ loop' = loop
    BY <1>15 DEF DispatchExit, Rollback, Respond
  <2> QED
    BY <1>0, <1>1, <2>1 DEF Working
<1>16. CASE BatchNullId(q)
  BY <1>7, <1>16 DEF BatchNullId
<1> QED
  BY <1>8, <1>9, <1>10, <1>11, <1>12, <1>13, <1>14, <1>15, <1>16 DEF Acts, Server, Handler, Reads

\* A request that has written a row can end its transaction, unless it has raised and
\* waits for the loop, or has it.
LEMMA HoldersGoOn ==
  ASSUME SInv, NEW h \in Requests, DOMAIN mine[h] # {}, loop # h
  PROVE  pc[h] # "idle" /\ (Waits(h) => pc[h] = "raised" /\ loop # Null)
<1>1. /\ pc[h] \notin {"idle", "received", "lock", "done"} /\ call[h] # Null
      /\ Async(h) => pc[h] \notin {"read", "check", "rename", "write", "commit"}
      /\ ~Async(h) => pc[h] = "commit"
  <2>1. StageFits(h) /\ MineFits(h)
    BY DEF SInv, Base
  <2> QED
    BY <2>1 DEF StageFits, MineFits, Working
<1>2. pc[h] \in Stages
  BY DEF SInv, Base, TypeOK
<1> QED
  BY <1>1, <1>2 DEF Waits, Stages

\* If everyone waits, one waits with the loop for rows of one who waits for the loop.
LEMMA AllWait ==
  ASSUME SInv, LoopWorks, NEW q \in Requests, pc[q] # "idle",
         \A r \in Requests : pc[r] # "idle" => Waits(r)
  PROVE  LoopStuck
<1>0. loop \in Requests \cup {Null} /\ Null \notin Requests
  BY StoreAssumption DEF SInv, Base, TypeOK
<1>1. ASSUME NEW r \in Requests, NEW h \in Requests \ {r}, DOMAIN mine[h] # {}, loop \in {r, Null}
      PROVE  loop = r /\ pc[h] = "raised"
  BY <1>0, <1>1, HoldersGoOn
<1>2. CASE loop = Null
  <2>1. Waits(q) /\ ~Working(q)
    BY <1>0, <1>2 DEF SInv, Base, StageFits
  <2>2. pc[q] = "lock" /\ Held(q, found[q])
    <3>1. pc[q] # "rename"
      BY <2>1 DEF SInv, Base, StageFits, Working, Async
    <3> QED
      BY <1>2, <2>1, <3>1 DEF Waits, Working
  <2>3. PICK h \in Requests \ {q} : found[q] \in DOMAIN mine[h]
    BY <2>2 DEF Held
  <2> QED
    BY <1>0, <1>1, <1>2, <2>3
<1>3. CASE loop # Null
  <2> DEFINE r == loop
  <2>1. r \in Requests /\ Working(r) /\ Waits(r)
    BY <1>0, <1>3 DEF LoopWorks, Working
  <2> HIDE DEF r
  <2>2. loop = r
    BY DEF r
  <2>3. CASE pc[r] = "rename" /\ table[found[r]] # Null /\ Held(r, found[r])
    <3>1. PICK h \in Requests \ {r} : found[r] \in DOMAIN mine[h]
      BY <2>3 DEF Held
    <3>2. pc[h] = "raised"
      BY <1>1, <2>1, <2>2, <3>1
    <3> QED
      BY <2>1, <2>2, <2>3, <3>1, <3>2 DEF LoopStuck
  <2>4. CASE /\ pc[r] = "write"
             /\ call[r].verb = "batch" \/ doc[r].val \notin Invalid
             /\ ~Free(r, doc[r].id, doc[r].uuid)
    <3>1. PICK h \in Requests \ {r} : Blocks(h, doc[r].id, doc[r].uuid)
      BY <2>4 DEF Free
    <3>2. DOMAIN mine[h] # {}
      BY <3>1 DEF Blocks
    <3>3. pc[h] = "raised"
      BY <1>1, <2>1, <2>2, <3>2
    <3> QED
      BY <2>1, <2>2, <2>4, <3>1, <3>3 DEF LoopStuck
  <2> QED
    BY <2>1, <2>3, <2>4 DEF Working, Waits
<1> QED
  BY <1>2, <1>3

\* NeverStuck: unless the loop waits for a transaction whose exit it should dispatch, a
\* request under way has nothing to wait for.
THEOREM SomeoneGoesOn == Spec => []NeverStuck
<1>1. Init => LoopWorks
  BY DEF Init, LoopWorks
<1>2. SInv /\ SInv' /\ LoopWorks /\ [Next]_vars => LoopWorks'
  <2>1. CASE UNCHANGED vars
    BY <2>1 DEF LoopWorks, Working, Async, vars
  <2>2. CASE Next
    BY <2>2, NextIsActs, LoopWorksStep
  <2> QED
    BY <2>1, <2>2
<1>3. SInv /\ LoopWorks => NeverStuck
  BY AllWait DEF NeverStuck
<1> QED
  BY <1>1, <1>2, <1>3, Invariance, PTL DEF Spec

=============================================================================
