---------------------------- MODULE CatalogProofs ----------------------------
(***************************************************************************)
(* Proofs about Catalog, for any codes, contents, requests and rows at the *)
(* start: the types, that children fit their parents when they are         *)
(* committed, that accepted lines are stored, and that events match rows.  *)
(***************************************************************************)
EXTENDS Catalog, SequenceTheorems, TLAPS

Looping == {"parent", "read", "check", "write"}
Working == {"read", "check", "write", "commit"}
Batch(r) == call[r].verb = "batch"

Events == [action : {"created", "updated", "deleted"}, key : Keys, parent : Parents \cup {Null}]

IsMap(f) == f = [r \in Requests |-> f[r]]
Maps ==
  /\ IsMap(mine) /\ IsMap(doc)
  /\ call \in [Requests -> Calls \cup {Null}]
  /\ at \in [Requests -> Nat] /\ tasks \in [Requests -> Seq(Events)]

\* Where a request can be, and who has the loop.
StageFits(r) ==
  /\ pc[r] \in {"parent", "body"} => call[r].kind = "options"
  /\ pc[r] \in {"received", "parent", "body", "read", "check", "write"} => call[r].verb # "delete"
  /\ pc[r] \in {"find", "delete"} => call[r].verb = "delete"
  /\ pc[r] = "commit" => call[r].verb \in {"batch", "delete"}
  /\ pc[r] \in {"raised", "exiting"} => reply[r] \notin {200, 201, 204}
  /\ pc[r] \in Looping \/ (pc[r] = "commit" /\ Batch(r)) => loop = r
  /\ pc[r] \in {"received", "parent", "body"} => at[r] = 1
  /\ pc[r] # "idle" /\ ~(pc[r] \in {"commit", "done", "raised", "exiting"} /\ Batch(r)) =>
       at[r] \in DOMAIN call[r].lines
  /\ pc[r] \in {"check", "write"} => doc[r] \in Documents(call[r])

\* What a request has written before it commits.
MineFits(r) ==
  /\ pc[r] \in {"idle", "received", "parent", "body", "find", "done"} => DOMAIN mine[r] = {}
  /\ call[r] # Null => DOMAIN mine[r] \subseteq Codes(call[r].kind)
  /\ call[r] # Null /\ call[r].verb \in {"post", "patch"} => DOMAIN mine[r] = {}
  /\ call[r] # Null /\ call[r].verb = "delete" =>
       \A k \in DOMAIN mine[r] : k = Line(r).key /\ mine[r][k] = Null
  /\ call[r] # Null /\ call[r].verb = "batch" =>
       \A k \in DOMAIN mine[r] : mine[r][k] \in Rows(call[r].kind) /\ mine[r][k].parent = call[r].parent

Base == TypeOK /\ Maps /\ \A r \in Requests : StageFits(r) /\ MineFits(r)

----------------------------------------------------------------------------
(* Codes. *)

\* A code is of one kind.
LEMMA KindOfCode ==
  ASSUME NEW kind \in Kinds, NEW k \in Codes(kind)
  PROVE  KindOf(k) = kind /\ k \in Keys
<1>1. k \in Keys
  BY DEF Codes, Kinds, Keys, Parents, Children
<1>2. \E other \in Kinds : k \in Codes(other)
  OBVIOUS
<1>3. KindOf(k) \in Kinds /\ k \in Codes(KindOf(k))
  BY <1>2 DEF KindOf
<1>4. QED
  BY <1>1, <1>3, CatalogAssumption

\* And every key has one.
LEMMA KindOfKey ==
  ASSUME NEW k \in Keys
  PROVE  KindOf(k) \in Kinds /\ k \in Codes(KindOf(k))
<1>1. \E other \in Kinds : k \in Codes(other)
  BY DEF Codes, Kinds, Keys, Parents, Children
<1>2. QED
  BY <1>1 DEF KindOf

\* Parents and children are different, and so are the two kinds of each.
LEMMA KindsDiffer ==
  /\ Parents \cap Children = {} /\ Attributes \cap Families = {} /\ Options \cap Variants = {}
  /\ \A kind \in {"attributes", "families"} : Codes(kind) \subseteq Parents
  /\ \A kind \in {"options", "variants"} : Codes(kind) \subseteq Children
<1>1. /\ "attributes" \in Kinds /\ "families" \in Kinds /\ "options" \in Kinds /\ "variants" \in Kinds
      /\ Codes("attributes") = Attributes /\ Codes("families") = Families
      /\ Codes("options") = Options /\ Codes("variants") = Variants
  BY DEF Kinds, Codes
<1>2. /\ Attributes \cap Families = {} /\ Attributes \cap Options = {} /\ Attributes \cap Variants = {}
      /\ Families \cap Options = {} /\ Families \cap Variants = {} /\ Options \cap Variants = {}
  BY <1>1, CatalogAssumption
<1>3. QED
  BY <1>1, <1>2 DEF Parents, Children

\* The rows of a request's kind, and what it says of them.
LEMMA CallFits ==
  ASSUME TypeOK, NEW r \in Requests, call[r] # Null
  PROVE  /\ call[r].kind \in Kinds /\ call[r].parent \in ParentsOf(call[r].kind)
         /\ call[r].verb \in {"post", "patch", "batch", "delete"}
         /\ call[r].lines \in Seq(Lines(call[r].kind)) /\ Len(call[r].lines) \in Nat \ {0}
         /\ call[r].verb # "batch" => Len(call[r].lines) = 1
         /\ call[r].verb \in {"patch", "delete"} => call[r].lines[1].key # Absent
         /\ call[r].verb = "delete" => call[r].kind \in {"attributes", "families"}
<1>1. call[r] \in Calls
  BY DEF TypeOK
<1>2. IsCall(call[r])
  BY <1>1, CatalogAssumption
<1>3. call[r].lines # <<>> /\ call[r].lines \in Seq(Lines(call[r].kind)) => Len(call[r].lines) \in Nat \ {0}
  BY EmptySeq, LenProperties
<1>4. QED
  BY <1>2, <1>3 DEF IsCall

----------------------------------------------------------------------------
(* What a step of one request changes of another, and of the table. *)

Acts(q) == Server(q) \/ \E c \in Calls : Receive(q, c)

\* What r has stays; nobody takes the loop from it, and it may only be added to moved.
Unmoved(r) ==
  /\ pc'[r] = pc[r] /\ call'[r] = call[r] /\ at'[r] = at[r] /\ doc'[r] = doc[r]
  /\ mine'[r] = mine[r] /\ reply'[r] = reply[r] /\ results'[r] = results[r] /\ tasks'[r] = tasks[r]
  /\ loop = r => loop' = r
  /\ r \in moved => r \in moved'

\* A step of q leaves the other requests where they are.
LEMMA OthersUnmoved ==
  ASSUME Base, NEW q \in Requests, Acts(q), NEW r \in Requests, r # q
  PROVE  Unmoved(r)
<1> USE DEF Base, TypeOK, Maps, IsMap, Unmoved
<1>0. Null \notin Requests
  BY CatalogAssumption
<1>1. CASE \E c \in Calls : Receive(q, c)
  BY <1>1 DEF Receive, Goto
<1>2. CASE StartHandler(q) \/ BodyArrives(q)
  BY <1>0, <1>2 DEF StartHandler, BodyArrives, Goto
<1>3. ASSUME NEW code, Raise(q, code) PROVE Unmoved(r)
  BY <1>3 DEF Raise, Settle, Goto
<1>4. ASSUME NEW status, NextLine(q, status), UNCHANGED <<mine, tasks>> PROVE Unmoved(r)
  BY <1>4 DEF NextLine, Goto
<1>5. ASSUME NEW code, Refuse(q, code) PROVE Unmoved(r)
  BY <1>3, <1>4, <1>5 DEF Refuse
<1>6. CASE CheckParent(q)
  <2>1. CASE \E code \in {404, 422} : Raise(q, code)
    BY <1>3, <2>1
  <2>2. CASE ~\E code \in {404, 422} : Raise(q, code)
    <3>1. StageFits(q) /\ pc[q] = "parent"
      BY <1>6 DEF CheckParent
    <3>2. loop = q
      BY <3>1 DEF StageFits, Looping
    <3>3. QED
      BY <1>6, <2>2, <3>2 DEF CheckParent, Goto
  <2>3. QED
    BY <2>1, <2>2
<1>7. ASSUME NEW found, NEW v, Prepare(q, found, v) PROVE Unmoved(r)
  BY <1>7 DEF Prepare, Goto
<1>8. CASE ReadPost(q) \/ ReadPatch(q)
  BY <1>3, <1>5, <1>7, <1>8 DEF ReadPost, ReadPatch
<1>9. CASE Check(q)
  <2>1. \/ Refuse(q, 422)
        \/ Goto(q, "write") /\ UNCHANGED <<table, mine, loop, call, at, doc, reply, results, tasks, moved>>
    BY ONLY <1>9 DEF Check
  <2>2. QED
    BY <1>5, <2>1 DEF Goto
<1>10. CASE Save(q)
  <2>1. CASE Raise(q, 422)
    BY <1>3, <2>1
  <2>2. CASE ~Raise(q, 422) /\ Batch(q)
    BY <1>10, <2>2 DEF Save, Batch, NextLine, Goto, Announce, Write
  <2>3. CASE ~Raise(q, 422) /\ ~Batch(q)
    BY <1>10, <2>3 DEF Save, Batch, Goto, Announce, Settle, Store
  <2>4. QED
    BY <2>1, <2>2, <2>3
<1>11. CASE Commit(q)
  BY <1>11 DEF Commit, Store, Settle, Goto
<1>12. CASE DeleteFind(q)
  <2>1. CASE Raise(q, 404)
    BY <1>3, <2>1
  <2>2. CASE ~Raise(q, 404)
    BY <1>12, <2>2 DEF DeleteFind, Goto
  <2>3. QED
    BY <2>1, <2>2
<1>13. CASE DeleteRow(q)
  BY <1>13 DEF DeleteRow, Write, Goto
<1>14. CASE DeleteCommit(q)
  BY <1>14 DEF DeleteCommit, Store, Settle, Goto, Announce
<1>15. CASE DispatchExit(q) \/ Rollback(q) \/ Respond(q)
  BY <1>15 DEF DispatchExit, Rollback, Respond, Goto
<1>16. QED
  BY <1>1, <1>2, <1>6, <1>8, <1>9, <1>10, <1>11, <1>12, <1>13, <1>14, <1>15 DEF Acts, Server

----------------------------------------------------------------------------
(* Types. *)

\* TypeOK but for the tables.
Types ==
  /\ Maps
  /\ loop \in Requests \cup {Null}
  /\ pc \in [Requests -> Stages]
  /\ \A r \in Requests :
       /\ pc[r] = "idle" <=> call[r] = Null
       /\ call[r] \in Calls \cup {Null}
       /\ doc[r] \in {Null} \cup (IF call[r] = Null THEN {} ELSE Documents(call[r]))
  /\ reply \in [Requests -> {0, 200, 201, 204, 404, 409, 422}]
  /\ results \in [Requests -> Seq({201, 204, 400, 422})]
  /\ moved \subseteq {r \in Requests : call[r] # Null}

\* The upsert makes a row of the request's kind, below its parent.
LEMMA UpsertedIsRow ==
  ASSUME NEW T, IsTable(T), NEW c, c.kind \in Kinds, c.parent \in ParentsOf(c.kind),
         NEW d \in Documents(c), d.val # Bad
  PROVE  Upserted(T, d) \in Rows(c.kind) /\ Upserted(T, d).parent = c.parent
<1>1. d.key \in Codes(c.kind) /\ d.parent = c.parent
      /\ d.val \in Contents(c.kind) \cup {Absent, Nulled}
  BY DEF Documents
<1>2. d.key \in Keys /\ (T[d.key] # Null => T[d.key] \in Rows(c.kind))
  BY <1>1, KindOfCode DEF IsTable
<1>3. T[d.key] # Null => T[d.key].val \in Contents(c.kind) \cup {Absent}
  BY <1>2 DEF Rows
<1>4. QED
  BY <1>1, <1>3 DEF Upserted, Rows

\* What a request has written are rows.
LEMMA WrittenAreRows ==
  ASSUME Types, NEW r \in Requests, MineFits(r), NEW k \in DOMAIN mine[r]
  PROVE  k \in Keys /\ (mine[r][k] = Null \/ mine[r][k] \in Rows(KindOf(k)))
<1>1. call[r] # Null
  BY DEF Types, MineFits
<1>2. call[r] \in Calls /\ IsCall(call[r])
  BY <1>1, CatalogAssumption DEF Types
<1>3. call[r].kind \in Kinds /\ call[r].verb \in {"post", "patch", "batch", "delete"}
  BY <1>2 DEF IsCall
<1>4. k \in Codes(call[r].kind)
  BY <1>1 DEF MineFits
<1>5. k \in Keys /\ KindOf(k) = call[r].kind
  BY <1>3, <1>4, KindOfCode
<1>6. mine[r][k] = Null \/ mine[r][k] \in Rows(call[r].kind)
  BY <1>1, <1>3 DEF MineFits
<1>7. QED
  BY <1>5, <1>6

\* What a request sees is a table.
LEMMA ViewIsTable ==
  ASSUME Types, IsTable(table), NEW r \in Requests, MineFits(r)
  PROVE  IsTable(View(r))
<1>1. \A k \in Keys : View(r)[k] = Null \/ View(r)[k] \in Rows(KindOf(k))
  BY WrittenAreRows DEF View, IsTable
<1>2. View(r) = [k \in Keys |-> View(r)[k]]
  BY DEF View
<1>3. QED
  BY <1>1, <1>2 DEF IsTable

\* The types, put together.
LEMMA TypesMake ==
  TypeOK /\ Maps <=>
    /\ Types /\ IsTable(table)
    /\ \A r \in Requests : \A k \in DOMAIN mine[r] :
         k \in Keys /\ (mine[r][k] = Null \/ mine[r][k] \in Rows(KindOf(k)))
BY DEF TypeOK, Types

\* The parts of Base, one by one.
LEMMA BaseMakes ==
  Types /\ IsTable(table) /\ (\A r \in Requests : StageFits(r) /\ MineFits(r)) <=> Base
BY WrittenAreRows, TypesMake DEF Base

\* Who changes the table.
LEMMA TableStep ==
  ASSUME NEW q \in Requests, Acts(q)
  PROVE  \/ table' = table
         \/ /\ Save(q) /\ call[q].verb # "batch" /\ doc[q].val # Bad
            /\ table' = [table EXCEPT ![doc[q].key] = Upserted(table, doc[q])]
         \/ (Commit(q) \/ DeleteCommit(q)) /\ table' = View(q)
<1>1. CASE \E c \in Calls : Receive(q, c)
  BY <1>1 DEF Receive
<1>2. ASSUME NEW code, Refuse(q, code) PROVE table' = table
  BY <1>2 DEF Refuse, Raise, NextLine
<1>3. CASE StartHandler(q) \/ BodyArrives(q) \/ CheckParent(q) \/ DeleteFind(q) \/ DeleteRow(q)
           \/ DispatchExit(q) \/ Rollback(q) \/ Respond(q)
  BY <1>3 DEF StartHandler, BodyArrives, CheckParent, DeleteFind, DeleteRow, DispatchExit,
              Rollback, Respond, Raise
<1>4. CASE ReadPost(q) \/ ReadPatch(q)
  BY <1>2, <1>4 DEF ReadPost, ReadPatch, Raise, Prepare
<1>5. CASE Check(q)
  <2>1. Refuse(q, 422) \/ UNCHANGED table
    BY ONLY <1>5 DEF Check
  <2>2. QED
    BY <1>2, <2>1
<1>6. CASE Save(q)
  BY <1>6 DEF Save, Raise, NextLine, Store
<1>7. CASE Commit(q) \/ DeleteCommit(q)
  BY <1>7 DEF Commit, DeleteCommit, Store
<1>8. QED
  BY <1>1, <1>3, <1>4, <1>5, <1>6, <1>7 DEF Acts, Server

----------------------------------------------------------------------------
(* Every step keeps the types. *)

\* An EXCEPT of a map is a map.
LEMMA MapStep ==
  ASSUME NEW f, IsMap(f), NEW r \in Requests, NEW v
  PROVE  IsMap([f EXCEPT ![r] = v])
BY DEF IsMap

\* Going on to another stage keeps the types.
LEMMA StageTypes ==
  ASSUME Types, NEW q \in Requests, pc[q] # "idle", NEW stage \in Stages \ {"idle"},
         pc' = [pc EXCEPT ![q] = stage], call' = call, loop' \in Requests \cup {Null},
         IsMap(mine'), doc' = doc, at' = at, tasks' \in [Requests -> Seq(Events)],
         reply' \in [Requests -> {0, 200, 201, 204, 404, 409, 422}], results' = results, moved' \subseteq moved \cup {r \in Requests : call[r] # Null}
  PROVE  Types'
<1> USE DEF Types
<1>1. Maps'
  BY DEF Maps
<1>2. pc' \in [Requests -> Stages] /\ \A r \in Requests : pc'[r] = "idle" <=> call'[r] = Null
  OBVIOUS
<1>3. \A r \in Requests : call'[r] \in Calls \cup {Null}
        /\ doc'[r] \in {Null} \cup (IF call'[r] = Null THEN {} ELSE Documents(call'[r]))
  OBVIOUS
<1>4. results' \in [Requests -> Seq({201, 204, 400, 422})] /\ moved' \subseteq {r \in Requests : call'[r] # Null}
  OBVIOUS
<1>5. QED
  BY <1>1, <1>2, <1>3, <1>4

\* So does raising an HTTPException,
LEMMA RaiseTypes ==
  ASSUME Types, NEW q \in Requests, pc[q] # "idle", NEW code \in {404, 409, 422}, Raise(q, code)
  PROVE  Types'
BY DEF Raise, Settle, Goto, Types, Maps, Stages

\* going on to the next line,
LEMMA NextLineTypes ==
  ASSUME Types, NEW q \in Requests, pc[q] # "idle", NEW status \in {201, 204, 400, 422},
         NextLine(q, status), IsMap(mine'), tasks' \in [Requests -> Seq(Events)]
  PROVE  Types'
<1> USE DEF Types
<1>1. results' \in [Requests -> Seq({201, 204, 400, 422})]
  <2>1. Append(results[q], status) \in Seq({201, 204, 400, 422})
    BY AppendProperties
  <2>2. QED
    BY <2>1 DEF NextLine
<1>2. at' = [at EXCEPT ![q] = @ + 1] /\ UNCHANGED <<loop, call, reply, doc, moved>>
  BY DEF NextLine
<1>3. at' \in [Requests -> Nat]
  BY <1>2 DEF Maps
<1>4. pc' \in [Requests -> Stages] /\ \A r \in Requests : pc'[r] = "idle" <=> call[r] = Null
  BY DEF NextLine, Goto, Stages
<1>5. Maps'
  BY <1>2, <1>3 DEF Maps, IsMap
<1>6. QED
  BY <1>1, <1>2, <1>4, <1>5

\* refusing a line,
LEMMA RefuseTypes ==
  ASSUME Types, NEW q \in Requests, pc[q] # "idle", NEW code \in {400, 422}, Refuse(q, code),
         call[q].verb # "batch" => code # 400
  PROVE  Types'
<1>1. CASE Batch(q)
  <2>1. NextLine(q, code) /\ UNCHANGED <<mine, tasks>>
    BY <1>1 DEF Batch, Refuse
  <2>2. IsMap(mine') /\ tasks' \in [Requests -> Seq(Events)]
    BY <2>1 DEF Types, Maps
  <2>3. QED
    BY <2>1, <2>2, NextLineTypes
<1>2. CASE ~Batch(q)
  BY <1>2, RaiseTypes DEF Batch, Refuse
<1>3. QED
  BY <1>1, <1>2

\* and making the document of a line.
LEMMA PrepareTypes ==
  ASSUME Types, NEW q \in Requests, pc[q] # "idle", NEW found \in BOOLEAN, NEW v, Prepare(q, found, v),
         Line(q).key \in Codes(call[q].kind), v \in Contents(call[q].kind) \cup {Absent, Nulled, Bad}
  PROVE  Types' /\ doc'[q] \in Documents(call[q])
<1>1. [key |-> Line(q).key, parent |-> call[q].parent, val |-> v, isNew |-> ~found] \in Documents(call[q])
  BY DEF Documents
<1>2. call[q] # Null
  BY DEF Types
<1>3. doc' = [doc EXCEPT ![q] = [key |-> Line(q).key, parent |-> call[q].parent, val |-> v, isNew |-> ~found]]
  BY DEF Prepare
<1>4. IsMap(doc') /\ \A r \in Requests : doc'[r] \in {Null} \cup (IF call[r] = Null THEN {} ELSE Documents(call[r]))
  BY <1>1, <1>2, <1>3, MapStep DEF Types, Maps, IsMap
<1>5. UNCHANGED <<mine, loop, call, at, reply, results, tasks, moved>>
  BY DEF Prepare
<1>6. pc' \in [Requests -> Stages] /\ \A r \in Requests : pc'[r] = "idle" <=> call[r] = Null
  BY DEF Prepare, Goto, Types, Stages
<1>7. Maps'
  BY <1>4, <1>5 DEF Types, Maps
<1>8. doc'[q] \in Documents(call[q])
  BY <1>1, <1>3 DEF Types, Maps, IsMap
<1>9. QED
  BY <1>4, <1>5, <1>6, <1>7, <1>8 DEF Types

\* The line a request is working on.
LEMMA LineFits ==
  ASSUME Base, NEW q \in Requests, pc[q] \in {"read", "check", "write", "find", "delete"}
  PROVE  /\ call[q] # Null /\ Line(q) \in Lines(call[q].kind)
         /\ call[q].verb # "batch" => at[q] = 1
<1>1. call[q] # Null
  BY DEF Base, TypeOK
<1>2. at[q] \in DOMAIN call[q].lines
  BY DEF Base, StageFits
<1>3. call[q].lines \in Seq(Lines(call[q].kind)) /\ (call[q].verb # "batch" => Len(call[q].lines) = 1)
  BY <1>1, CallFits DEF Base
<1>4. QED
  BY <1>1, <1>2, <1>3, ElementOfSeq DEF Line

\* What comes of it: a refusal or a document.
LEMMA ReadStep ==
  ASSUME Base, NEW q \in Requests, ReadPost(q) \/ ReadPatch(q)
  PROVE  /\ pc[q] = "read" /\ call[q] # Null /\ Line(q) \in Lines(call[q].kind)
         /\ \/ \E code \in {409, 422} : Raise(q, code)
            \/ call[q].verb = "batch" /\ Refuse(q, 400)
            \/ /\ Line(q).key \in Codes(call[q].kind)
               /\ \E found \in BOOLEAN, v \in Contents(call[q].kind) \cup {Absent, Nulled, Bad} :
                    /\ Prepare(q, found, v)
                    /\ found => Found(q, Line(q).key)
                    /\ Found(q, Line(q).key) =>
                         found \/ (call[q].verb = "post" /\ Line(q).key \notin Parents)
<1>0. Types /\ IsTable(table) /\ MineFits(q)
  BY BaseMakes DEF Base
<1>1. pc[q] = "read"
  BY DEF ReadPost, ReadPatch, At
<1>2. Line(q) \in Lines(call[q].kind) /\ call[q] # Null /\ (call[q].verb # "batch" => at[q] = 1)
  BY <1>1, LineFits
<1>3. Line(q).key \in Codes(call[q].kind) \cup {Absent}
      /\ Line(q).val \in Contents(call[q].kind) \cup {Absent, Nulled, Bad}
  BY <1>2 DEF Lines
<1>4. ASSUME ReadPost(q), ~\E code \in {409, 422} : Raise(q, code)
      PROVE  /\ Line(q).key \in Codes(call[q].kind) /\ Prepare(q, FALSE, Line(q).val)
             /\ Found(q, Line(q).key) => call[q].verb = "post" /\ Line(q).key \notin Parents
  BY <1>3, <1>4 DEF ReadPost, At, Found
<1>5. ASSUME ReadPatch(q), ~Raise(q, 422)
      PROVE  \/ call[q].verb = "batch" /\ Refuse(q, 400)
             \/ /\ Line(q).key \in Codes(call[q].kind)
                /\ \/ Prepare(q, FALSE, Line(q).val) /\ ~Found(q, Line(q).key)
                   \/ /\ Found(q, Line(q).key)
                      /\ Prepare(q, TRUE, PatchVal(View(q)[Line(q).key].val, Line(q).val))
  <2>1. call[q].verb = "patch" => Line(q).key # Absent
    BY <1>2, CallFits DEF Base, Line
  <2>2. QED
    BY <1>3, <1>5, <2>1 DEF ReadPatch, At
<1>6. ASSUME Line(q).key \in Codes(call[q].kind), Found(q, Line(q).key)
      PROVE  PatchVal(View(q)[Line(q).key].val, Line(q).val) \in
               Contents(call[q].kind) \cup {Absent, Nulled, Bad}
  <2>1. View(q)[Line(q).key] \in Rows(call[q].kind)
    BY <1>0, <1>2, <1>6, CallFits, ViewIsTable, KindOfCode DEF IsTable, Found, Base
  <2>2. QED
    BY <1>3, <2>1 DEF PatchVal, Rows
<1>7. QED
  BY <1>1, <1>2, <1>3, <1>4, <1>5, <1>6

\* Every step keeps the types of what is not a row.
LEMMA TypesStep ==
  ASSUME Base, NEW q \in Requests, Acts(q)
  PROVE  Types'
<1>0. Types /\ IsTable(table) /\ StageFits(q) /\ MineFits(q) /\ Null \notin Requests /\ Null \notin Calls
  BY BaseMakes, CatalogAssumption DEF Base
<1>1. ASSUME NEW c \in Calls, Receive(q, c) PROVE Types'
  BY <1>0, <1>1 DEF Receive, Goto, Types, Maps, Stages
<1>2. CASE StartHandler(q) \/ BodyArrives(q)
  <2>1. PICK stage \in {"parent", "read"} : Goto(q, stage)
    BY <1>2 DEF StartHandler, BodyArrives
  <2>2. pc[q] # "idle" /\ loop' = q /\ UNCHANGED <<mine, call, at, doc, reply, results, tasks, moved>>
    BY <1>2 DEF StartHandler, BodyArrives
  <2>3. QED
    BY <1>0, <2>1, <2>2, StageTypes DEF Goto, Types, Maps, Stages
<1>3. CASE CheckParent(q)
  <2>1. CASE \E code \in {404, 422} : Raise(q, code)
    BY <1>0, <1>3, <2>1, RaiseTypes DEF CheckParent
  <2>2. CASE ~\E code \in {404, 422} : Raise(q, code)
    <3>1. /\ Goto(q, "body") /\ pc[q] # "idle" /\ loop' = Null /\ moved' \subseteq moved
          /\ UNCHANGED <<mine, call, at, doc, reply, results, tasks>>
      BY <1>3, <2>2 DEF CheckParent
    <3>2. QED
      BY <1>0, <3>1, StageTypes DEF Goto, Types, Maps, Stages
  <2>3. QED
    BY <2>1, <2>2
<1>4. CASE ReadPost(q) \/ ReadPatch(q)
  BY <1>0, <1>4, ReadStep, RaiseTypes, RefuseTypes, PrepareTypes
<1>6. CASE Check(q)
  <2>1. \/ Refuse(q, 422)
        \/ Goto(q, "write") /\ UNCHANGED <<table, mine, loop, call, at, doc, reply, results, tasks, moved>>
    BY ONLY <1>6 DEF Check
  <2>2. pc[q] # "idle"
    BY <1>6 DEF Check
  <2>3. CASE Refuse(q, 422)
    BY <1>0, <2>2, <2>3, RefuseTypes
  <2>4. CASE Goto(q, "write") /\ UNCHANGED <<table, mine, loop, call, at, doc, reply, results, tasks, moved>>
    BY <1>0, <2>2, <2>4, StageTypes DEF Goto, Types, Maps, Stages
  <2>5. QED
    BY <2>1, <2>3, <2>4
<1>7. CASE Save(q)
  <2>1. CASE Raise(q, 422)
    BY <1>0, <1>7, <2>1, RaiseTypes DEF Save
  <2>2. CASE ~Raise(q, 422)
    <3>1. call[q] # Null /\ doc[q] \in Documents(call[q]) /\ call[q].kind \in Kinds
          /\ call[q].parent \in ParentsOf(call[q].kind) /\ pc[q] # "idle"
      BY <1>0, <1>7, CallFits DEF Save, StageFits, Types, Base
    <3>2. doc[q].key \in Keys /\ doc[q].parent \in Parents \cup {Null}
      BY <3>1, KindOfCode DEF Documents, ParentsOf, Parents, Kinds
    <3> DEFINE e == [action |-> IF doc[q].isNew THEN "created" ELSE "updated",
                     key |-> doc[q].key, parent |-> doc[q].parent]
    <3>3. e \in Events
      BY <3>2 DEF Events
    <3>4. tasks' = [tasks EXCEPT ![q] = Append(@, e)]
      BY <1>7, <2>2 DEF Save, Announce
    <3> HIDE DEF e
    <3>5. tasks' \in [Requests -> Seq(Events)]
      <4>1. Append(tasks[q], e) \in Seq(Events)
        BY <1>0, <3>3, AppendProperties DEF Types, Maps
      <4>2. QED
        BY <1>0, <3>4, <4>1 DEF Types, Maps, IsMap
    <3>6. CASE Batch(q)
      <4>1. IsMap(mine')
        BY <1>0, <1>7, <2>2, <3>6 DEF Save, Batch, Write, Types, Maps, IsMap
      <4>2. \E status \in {201, 204} : NextLine(q, status)
        BY <1>7, <2>2, <3>6 DEF Save, Batch
      <4>3. QED
        BY <1>0, <3>1, <3>5, <4>1, <4>2, NextLineTypes
    <3>7. CASE ~Batch(q)
      <4>1. /\ Goto(q, "done") /\ loop' \in {loop, Null} /\ UNCHANGED <<mine, call, at, doc, results>>
            /\ \E code \in {201, 204} : reply' = [reply EXCEPT ![q] = code]
            /\ moved' \subseteq moved \cup {r \in Requests : call[r] # Null}
        BY <1>7, <2>2, <3>7 DEF Save, Batch, Settle, Store
      <4>2. Maps'
        BY <1>0, <3>5, <4>1 DEF Types, Maps, IsMap
      <4>3. pc' \in [Requests -> Stages] /\ \A r \in Requests : pc'[r] = "idle" <=> call[r] = Null
        BY <1>0, <3>1, <4>1 DEF Goto, Types, Stages
      <4>4. reply' \in [Requests -> {0, 200, 201, 204, 404, 409, 422}]
        BY <1>0, <4>1 DEF Types
      <4>5. QED
        BY <1>0, <4>1, <4>2, <4>3, <4>4 DEF Types
    <3>8. QED
      BY <3>6, <3>7
  <2>3. QED
    BY <2>1, <2>2
<1>8. CASE Commit(q)
  <2>1. /\ Goto(q, "done") /\ pc[q] # "idle" /\ loop' \in {loop, Null}
        /\ reply' = [reply EXCEPT ![q] = 200]
        /\ moved' \subseteq moved \cup {r \in Requests : call[r] # Null}
        /\ mine' = [mine EXCEPT ![q] = Nothing] /\ UNCHANGED <<call, at, doc, results, tasks>>
    BY <1>8 DEF Commit, At, Store, Settle
  <2>2. IsMap(mine') /\ reply' \in [Requests -> {0, 200, 201, 204, 404, 409, 422}]
    BY <1>0, <2>1, MapStep DEF Types, Maps
  <2>3. QED
    BY <1>0, <2>1, <2>2, StageTypes DEF Goto, Types, Maps, Stages
<1>9. CASE DeleteFind(q)
  <2>1. CASE Raise(q, 404)
    BY <1>0, <1>9, <2>1, RaiseTypes DEF DeleteFind, At
  <2>2. CASE ~Raise(q, 404)
    <3>1. /\ Goto(q, "delete") /\ pc[q] # "idle"
          /\ UNCHANGED <<mine, loop, call, at, doc, reply, results, tasks, moved>>
      BY <1>9, <2>2 DEF DeleteFind, At
    <3>2. QED
      BY <1>0, <3>1, StageTypes DEF Goto, Types, Maps, Stages
  <2>3. QED
    BY <2>1, <2>2
<1>10. CASE DeleteRow(q)
  <2>1. /\ Goto(q, "commit") /\ pc[q] # "idle"
        /\ mine' = mine \/ \E f : mine' = [mine EXCEPT ![q] = f]
        /\ UNCHANGED <<loop, call, at, doc, reply, results, tasks, moved>>
    BY <1>10 DEF DeleteRow, At, Write
  <2>2. IsMap(mine')
    BY <1>0, <2>1, MapStep DEF Types, Maps, IsMap
  <2>3. QED
    BY <1>0, <2>1, <2>2, StageTypes DEF Goto, Types, Maps, Stages
<1>11. CASE DeleteCommit(q)
  <2>1. pc[q] # "idle" /\ call[q].verb = "delete" /\ call[q] # Null
    BY <1>0, <1>11 DEF DeleteCommit, At, Types
  <2>2. Line(q).key \in Keys
    <3>1. at[q] \in DOMAIN call[q].lines /\ call[q].lines \in Seq(Lines(call[q].kind))
          /\ Len(call[q].lines) = 1 /\ call[q].lines[1].key # Absent /\ call[q].kind \in Kinds
      BY <1>0, <1>11, <2>1, CallFits DEF DeleteCommit, At, StageFits, Batch, Base
    <3>2. Line(q) \in Lines(call[q].kind) /\ Line(q).key # Absent
      BY <3>1, ElementOfSeq DEF Line
    <3>3. QED
      BY <3>1, <3>2, KindOfCode DEF Lines
  <2> DEFINE e == [action |-> "deleted", key |-> Line(q).key, parent |-> Null]
  <2>3. e \in Events /\ tasks' = [tasks EXCEPT ![q] = Append(@, e)]
    BY <1>11, <2>2 DEF DeleteCommit, Announce, Events
  <2> HIDE DEF e
  <2>4. Append(tasks[q], e) \in Seq(Events)
    BY <1>0, <2>3, AppendProperties DEF Types, Maps
  <2>5. tasks' \in [Requests -> Seq(Events)]
    BY <1>0, <2>3, <2>4 DEF Types, Maps, IsMap
  <2>6. QED
    <3>1. /\ Goto(q, "done") /\ loop' \in {loop, Null} /\ reply' = [reply EXCEPT ![q] = 204]
          /\ moved' \subseteq moved \cup {r \in Requests : call[r] # Null}
          /\ mine' = [mine EXCEPT ![q] = Nothing] /\ UNCHANGED <<call, at, doc, results>>
      BY <1>11 DEF DeleteCommit, Store, Settle
    <3>2. IsMap(mine') /\ reply' \in [Requests -> {0, 200, 201, 204, 404, 409, 422}]
      BY <1>0, <3>1, MapStep DEF Types, Maps
    <3>3. QED
      BY <1>0, <2>1, <2>5, <3>1, <3>2, StageTypes DEF Goto, Types, Maps, Stages
<1>12. CASE DispatchExit(q) \/ Rollback(q)
  <2>1. PICK stage \in {"exiting", "done"} : Goto(q, stage)
    BY <1>12 DEF DispatchExit, Rollback
  <2>2. /\ pc[q] # "idle" /\ UNCHANGED <<loop, call, at, doc, reply, results, moved>>
        /\ mine' = mine \/ mine' = [mine EXCEPT ![q] = Nothing]
        /\ tasks' = tasks \/ tasks' = [tasks EXCEPT ![q] = <<>>]
    BY <1>12 DEF DispatchExit, Rollback
  <2>3. IsMap(mine')
    BY <1>0, <2>2, MapStep DEF Types, Maps, IsMap
  <2>4. tasks' \in [Requests -> Seq(Events)]
    <3> DEFINE none == <<>>
    <3>1. none \in Seq(Events)
      BY EmptySeq
    <3>2. tasks' = tasks \/ tasks' = [tasks EXCEPT ![q] = none]
      BY <2>2
    <3> HIDE DEF none
    <3>3. tasks \in [Requests -> Seq(Events)]
      BY <1>0 DEF Types, Maps
    <3>4. QED
      BY <3>1, <3>2, <3>3
  <2>5. QED
    BY <1>0, <2>1, <2>2, <2>3, <2>4, StageTypes DEF Goto, Types, Maps, Stages
<1>13. CASE Respond(q)
  <2>1. UNCHANGED <<mine, loop>>
    BY <1>13 DEF Respond
  <2>2. IsMap(doc') /\ \A r \in Requests : doc'[r] = IF r = q THEN Null ELSE doc[r]
    BY <1>0, <1>13, MapStep DEF Respond, Types, Maps, IsMap
  <2>3. /\ tasks' \in [Requests -> Seq(Events)] /\ at' \in [Requests -> Nat]
        /\ results' \in [Requests -> Seq({201, 204, 400, 422})]
        /\ reply' \in [Requests -> {0, 200, 201, 204, 404, 409, 422}]
    BY <1>0, <1>13, EmptySeq DEF Respond, Types, Maps
  <2>4. /\ call' = [call EXCEPT ![q] = Null] /\ call' \in [Requests -> Calls \cup {Null}]
        /\ moved' \subseteq {r \in Requests : call'[r] # Null}
    BY <1>0, <1>13 DEF Respond, Types, Maps
  <2>5. pc' \in [Requests -> Stages] /\ \A r \in Requests : pc'[r] = "idle" <=> call'[r] = Null
    BY <1>0, <1>13, <2>4 DEF Respond, Goto, Types, Maps, Stages
  <2>6. QED
    BY <1>0, <2>1, <2>2, <2>3, <2>4, <2>5 DEF Types, Maps
<1>14. QED
  BY <1>1, <1>2, <1>3, <1>4, <1>6, <1>7, <1>8, <1>9, <1>10, <1>11, <1>12, <1>13 DEF Acts, Server

----------------------------------------------------------------------------
(* Every step keeps what a request has and where it can be. *)

\* A commit of rows makes a table of rows.
LEMMA TableIsKept ==
  ASSUME Base, NEW q \in Requests, Acts(q)
  PROVE  IsTable(table')
<1>0. Types /\ IsTable(table) /\ StageFits(q) /\ MineFits(q)
  BY BaseMakes DEF Base
<1>1. CASE table' = table
  BY <1>0, <1>1 DEF IsTable
<1>2. CASE /\ Save(q) /\ doc[q].val # Bad
           /\ table' = [table EXCEPT ![doc[q].key] = Upserted(table, doc[q])]
  <2>1. call[q] # Null /\ doc[q] \in Documents(call[q])
    BY <1>0, <1>2 DEF Save, StageFits, Types
  <2>2. call[q].kind \in Kinds /\ call[q].parent \in ParentsOf(call[q].kind)
    BY <2>1, CallFits DEF Base
  <2>3. Upserted(table, doc[q]) \in Rows(call[q].kind)
    BY <1>0, <1>2, <2>1, <2>2, UpsertedIsRow
  <2>4. doc[q].key \in Keys /\ KindOf(doc[q].key) = call[q].kind
    BY <2>1, <2>2, KindOfCode DEF Documents
  <2>5. QED
    BY <1>0, <1>2, <2>3, <2>4 DEF IsTable
<1>3. CASE table' = View(q)
  BY <1>0, <1>3, ViewIsTable
<1>4. QED
  BY <1>1, <1>2, <1>3, TableStep

\* The request that acts ends in a stage that fits it.
LEMMA StageStep ==
  ASSUME Base, NEW q \in Requests, Acts(q)
  PROVE  StageFits(q)'
<1>0. Types /\ StageFits(q) /\ Null \notin Requests /\ Null \notin Calls
  BY BaseMakes, CatalogAssumption DEF Base
<1>1. pc \in [Requests -> Stages] /\ reply \in [Requests -> {0, 200, 201, 204, 404, 409, 422}]
      /\ call \in [Requests -> Calls \cup {Null}] /\ at \in [Requests -> Nat]
  BY <1>0 DEF Types, Maps
<1>2. ASSUME NEW c \in Calls, Receive(q, c) PROVE StageFits(q)'
  <2>1. IsCall(c)
    BY CatalogAssumption
  <2>2. c.lines \in Seq(Lines(c.kind)) /\ c.lines # <<>>
    BY <2>1 DEF IsCall
  <2>3. 1 \in DOMAIN c.lines
    BY <2>2, EmptySeq, LenProperties
  <2>4. call'[q] = c /\ at'[q] = 1 /\ pc'[q] = IF c.verb = "delete" THEN "find" ELSE "received"
    BY <1>1, <1>2 DEF Receive, Goto
  <2>5. QED
    BY <2>3, <2>4 DEF StageFits, Looping, Batch
<1>3. ASSUME NEW code \in {404, 409, 422}, Raise(q, code), pc[q] # "idle",
             pc[q] # "commit" /\ pc[q] # "done" /\ pc[q] # "raised" /\ pc[q] # "exiting"
      PROVE  StageFits(q)'
  <2>1. pc'[q] = "raised" /\ reply'[q] = code /\ call' = call /\ at' = at
    BY <1>1, <1>3 DEF Raise, Settle, Goto
  <2>2. QED
    BY <1>0, <1>3, <2>1 DEF StageFits, Looping, Batch
<1>4. ASSUME NEW status, NextLine(q, status), Batch(q), pc[q] \in {"read", "check", "write"}
      PROVE  StageFits(q)'
  <2>1. call[q] # Null
    BY <1>0, <1>4 DEF Types
  <2>2. call[q].lines \in Seq(Lines(call[q].kind))
    BY <2>1, CallFits DEF Base
  <2>3. at[q] \in DOMAIN call[q].lines /\ loop = q /\ call[q].verb = "batch"
    BY <1>0, <1>4 DEF StageFits, Looping, Batch
  <2>4. /\ at'[q] = at[q] + 1 /\ call' = call /\ loop' = loop
        /\ pc'[q] = IF at[q] = Len(call[q].lines) THEN "commit" ELSE "read"
    BY <1>1, <1>4 DEF NextLine, Goto
  <2>5. pc'[q] = "read" => at'[q] \in DOMAIN call[q].lines
    BY <2>2, <2>3, <2>4, LenProperties
  <2>6. QED
    BY <2>3, <2>4, <2>5 DEF StageFits, Looping, Batch
<1>5. ASSUME NEW code \in {400, 422}, Refuse(q, code), call[q].verb # "batch" => code # 400,
             pc[q] \in {"read", "check", "write"}
      PROVE  StageFits(q)'
  <2>1. CASE Batch(q)
    BY <1>4, <1>5, <2>1 DEF Refuse, Batch
  <2>2. CASE ~Batch(q)
    BY <1>3, <1>5, <2>2 DEF Refuse, Batch
  <2>3. QED
    BY <2>1, <2>2
<1>6. CASE StartHandler(q) \/ BodyArrives(q)
  BY <1>0, <1>1, <1>6 DEF StartHandler, BodyArrives, Goto, StageFits, Looping, Batch
<1>7. CASE CheckParent(q)
  <2>1. CASE \E code \in {404, 422} : Raise(q, code)
    BY <1>3, <1>7, <2>1 DEF CheckParent
  <2>2. CASE ~\E code \in {404, 422} : Raise(q, code)
    BY <1>0, <1>1, <1>7, <2>2 DEF CheckParent, Goto, StageFits, Looping, Batch
  <2>3. QED
    BY <2>1, <2>2
<1>8. CASE ReadPost(q) \/ ReadPatch(q)
  <2>1. CASE \E code \in {409, 422} : Raise(q, code)
    BY <1>3, <1>8, <2>1, ReadStep
  <2>2. CASE call[q].verb = "batch" /\ Refuse(q, 400)
    BY <1>5, <1>8, <2>2, ReadStep
  <2>3. ASSUME Line(q).key \in Codes(call[q].kind), NEW found \in BOOLEAN,
               NEW v \in Contents(call[q].kind) \cup {Absent, Nulled, Bad}, Prepare(q, found, v)
        PROVE  StageFits(q)'
    <3>1. doc'[q] \in Documents(call[q]) /\ pc[q] = "read"
      BY <1>0, <1>8, <2>3, ReadStep, PrepareTypes
    <3>2. pc'[q] = "check" /\ call' = call /\ at' = at /\ loop' = loop
      BY <1>1, <2>3 DEF Prepare, Goto
    <3>3. QED
      BY <1>0, <3>1, <3>2 DEF StageFits, Looping, Batch
  <2>4. QED
    BY <1>8, <2>1, <2>2, <2>3, ReadStep
<1>9. CASE Check(q)
  <2>1. \/ Refuse(q, 422)
        \/ Goto(q, "write") /\ UNCHANGED <<table, mine, loop, call, at, doc, reply, results, tasks, moved>>
    BY ONLY <1>9 DEF Check
  <2>2. pc[q] = "check"
    BY <1>9 DEF Check
  <2>3. CASE Refuse(q, 422)
    BY <1>5, <2>2, <2>3
  <2>4. CASE Goto(q, "write") /\ UNCHANGED <<table, mine, loop, call, at, doc, reply, results, tasks, moved>>
    BY <1>0, <1>1, <2>2, <2>4 DEF Goto, StageFits, Looping, Batch
  <2>5. QED
    BY <2>1, <2>3, <2>4
<1>10. CASE Save(q)
  <2>1. CASE Raise(q, 422)
    BY <1>3, <1>10, <2>1 DEF Save
  <2>2. CASE ~Raise(q, 422) /\ Batch(q)
    BY <1>4, <1>10, <2>2 DEF Save, Batch
  <2>3. CASE ~Raise(q, 422) /\ ~Batch(q)
    <3>1. pc[q] = "write" /\ pc'[q] = "done" /\ call' = call /\ at' = at
      BY <1>1, <1>10, <2>3 DEF Save, Batch, Settle, Goto
    <3>2. QED
      BY <1>0, <2>3, <3>1 DEF StageFits, Looping, Batch
  <2>4. QED
    BY <2>1, <2>2, <2>3
<1>11. CASE Commit(q) \/ DeleteCommit(q)
  <2>1. pc[q] = "commit" /\ pc'[q] = "done" /\ call' = call /\ at' = at
    BY <1>1, <1>11 DEF Commit, DeleteCommit, At, Settle, Goto
  <2>2. QED
    BY <1>0, <2>1 DEF StageFits, Looping, Batch
<1>12. CASE DeleteFind(q)
  <2>1. CASE Raise(q, 404)
    BY <1>3, <1>12, <2>1 DEF DeleteFind, At
  <2>2. CASE ~Raise(q, 404)
    BY <1>0, <1>1, <1>12, <2>2 DEF DeleteFind, At, Goto, StageFits, Looping, Batch
  <2>3. QED
    BY <2>1, <2>2
<1>13. CASE DeleteRow(q)
  BY <1>0, <1>1, <1>13 DEF DeleteRow, At, Goto, StageFits, Looping, Batch
<1>14. CASE DispatchExit(q) \/ Rollback(q)
  BY <1>0, <1>1, <1>14 DEF DispatchExit, Rollback, Goto, StageFits, Looping, Batch
<1>15. CASE Respond(q)
  BY <1>0, <1>1, <1>15 DEF Respond, Goto, StageFits, Looping, Batch
<1>16. QED
  BY <1>2, <1>6, <1>7, <1>8, <1>9, <1>10, <1>11, <1>12, <1>13, <1>14, <1>15 DEF Acts, Server

\* Steps that leave what the request has written.
LEMMA MineStays ==
  ASSUME Types, NEW q \in Requests, MineFits(q), mine'[q] = mine[q], call'[q] = call[q],
         call[q] # Null, call[q].verb = "delete" => at'[q] = at[q],
         pc'[q] \in {"idle", "received", "parent", "body", "find", "done"} => DOMAIN mine[q] = {}
  PROVE  MineFits(q)'
BY DEF MineFits, Line

\* What the request that acts has written fits it.
LEMMA MineStep ==
  ASSUME Base, NEW q \in Requests, Acts(q)
  PROVE  MineFits(q)'
<1>0. Types /\ IsTable(table) /\ StageFits(q) /\ MineFits(q) /\ Null \notin Requests /\ Null \notin Calls
  BY BaseMakes, CatalogAssumption DEF Base
<1>1. pc \in [Requests -> Stages] /\ call \in [Requests -> Calls \cup {Null}] /\ at \in [Requests -> Nat]
      /\ mine = [r \in Requests |-> mine[r]] /\ (pc[q] = "idle" <=> call[q] = Null)
  BY <1>0 DEF Types, Maps, IsMap
<1>2. ASSUME NEW c \in Calls, Receive(q, c) PROVE MineFits(q)'
  <2>1. DOMAIN mine'[q] = {}
    BY <1>0, <1>2 DEF Receive, MineFits
  <2>2. QED
    BY <2>1 DEF MineFits
<1>3. ASSUME NEW code, Raise(q, code), pc[q] # "idle" PROVE MineFits(q)'
  <2>1. pc'[q] = "raised" /\ mine' = mine /\ call' = call /\ at' = at
    BY <1>1, <1>3 DEF Raise, Settle, Goto
  <2>2. QED
    BY <1>0, <1>1, <1>3, <2>1, MineStays
<1>4. ASSUME NEW code, Refuse(q, code), pc[q] # "idle" PROVE MineFits(q)'
  <2>1. CASE Batch(q)
    <3>1. pc'[q] \in {"commit", "read"} /\ mine' = mine /\ call' = call /\ call[q].verb = "batch"
      BY <1>1, <1>4, <2>1 DEF Batch, Refuse, NextLine, Goto
    <3>2. QED
      BY <1>0, <1>1, <1>4, <3>1, MineStays
  <2>2. CASE ~Batch(q)
    BY <1>3, <1>4, <2>2 DEF Batch, Refuse
  <2>3. QED
    BY <2>1, <2>2
<1>5. CASE StartHandler(q) \/ BodyArrives(q)
  <2>1. /\ pc[q] \in {"received", "body"} /\ pc'[q] \in {"parent", "read"}
        /\ mine' = mine /\ call' = call /\ at' = at
    BY <1>1, <1>5 DEF StartHandler, BodyArrives, Goto
  <2>2. DOMAIN mine[q] = {}
    BY <1>0, <2>1 DEF MineFits
  <2>3. QED
    BY <1>0, <1>1, <2>1, <2>2, MineStays
<1>6. CASE CheckParent(q)
  <2>1. CASE \E code \in {404, 422} : Raise(q, code)
    BY <1>3, <1>6, <2>1 DEF CheckParent
  <2>2. CASE ~\E code \in {404, 422} : Raise(q, code)
    <3>1. pc[q] = "parent" /\ pc'[q] = "body" /\ mine' = mine /\ call' = call /\ at' = at
      BY <1>1, <1>6, <2>2 DEF CheckParent, Goto
    <3>2. DOMAIN mine[q] = {}
      BY <1>0, <3>1 DEF MineFits
    <3>3. QED
      BY <1>0, <1>1, <3>1, <3>2, MineStays
  <2>3. QED
    BY <2>1, <2>2
<1>7. CASE ReadPost(q) \/ ReadPatch(q)
  <2>1. ASSUME NEW found, NEW v, Prepare(q, found, v), pc[q] = "read" PROVE MineFits(q)'
    <3>1. pc'[q] = "check" /\ mine' = mine /\ call' = call /\ at' = at
      BY <1>1, <2>1 DEF Prepare, Goto
    <3>2. QED
      BY <1>0, <1>1, <2>1, <3>1, MineStays
  <2>2. QED
    BY <1>3, <1>4, <1>7, <2>1, ReadStep
<1>8. CASE Check(q)
  <2>1. \/ Refuse(q, 422)
        \/ Goto(q, "write") /\ UNCHANGED <<table, mine, loop, call, at, doc, reply, results, tasks, moved>>
    BY ONLY <1>8 DEF Check
  <2>2. pc[q] = "check"
    BY <1>8 DEF Check
  <2>3. CASE Goto(q, "write") /\ UNCHANGED <<table, mine, loop, call, at, doc, reply, results, tasks, moved>>
    BY <1>0, <1>1, <2>2, <2>3, MineStays DEF Goto
  <2>4. QED
    BY <1>4, <2>1, <2>2, <2>3
<1>9. CASE Save(q)
  <2>0. /\ pc[q] = "write" /\ call[q] # Null /\ doc[q] \in Documents(call[q])
        /\ call[q].kind \in Kinds /\ call[q].parent \in ParentsOf(call[q].kind)
    BY <1>0, <1>1, <1>9, CallFits DEF Save, StageFits, Base
  <2>1. CASE Raise(q, 422)
    BY <1>3, <2>0, <2>1
  <2>2. CASE ~Raise(q, 422) /\ Batch(q)
    <3> DEFINE row == Upserted(View(q), doc[q])
    <3>1. row \in Rows(call[q].kind) /\ row.parent = call[q].parent
      BY <1>0, <1>9, <2>0, <2>2, ViewIsTable, UpsertedIsRow DEF Save
    <3>2. doc[q].key \in Codes(call[q].kind)
      BY <2>0 DEF Documents
    <3>3. /\ pc'[q] \in {"read", "commit"} /\ call' = call /\ call[q].verb = "batch"
          /\ Write(q, doc[q].key, row)
      BY <1>1, <1>9, <2>2 DEF Save, Batch, NextLine, Goto
    <3> HIDE DEF row
    <3>4. mine'[q] = [j \in DOMAIN mine[q] \cup {doc[q].key} |-> IF j = doc[q].key THEN row ELSE mine[q][j]]
      BY <1>1, <3>3 DEF Write
    <3>5. QED
      BY <1>0, <2>0, <3>1, <3>2, <3>3, <3>4 DEF MineFits
  <2>3. CASE ~Raise(q, 422) /\ ~Batch(q)
    <3>1. pc'[q] = "done" /\ call' = call /\ at' = at /\ mine' = mine /\ call[q].verb # "batch"
      BY <1>1, <1>9, <2>3 DEF Save, Batch, Settle, Goto
    <3>2. DOMAIN mine[q] = {}
      <4>1. call[q].verb # "delete"
        BY <1>9 DEF Save
      <4>2. call[q].verb \in {"post", "patch", "batch", "delete"}
        BY <2>0, CallFits DEF Base
      <4>3. QED
        BY <1>0, <2>0, <3>1, <4>1, <4>2 DEF MineFits
    <3>3. QED
      BY <1>0, <2>0, <3>1, <3>2, MineStays
  <2>4. QED
    BY <2>1, <2>2, <2>3
<1>10. CASE Commit(q) \/ DeleteCommit(q) \/ Rollback(q)
  <2>1. mine'[q] = Nothing
    BY <1>1, <1>10 DEF Commit, DeleteCommit, Rollback
  <2>2. DOMAIN mine'[q] = {}
    BY <2>1 DEF Nothing
  <2>3. QED
    BY <2>2 DEF MineFits
<1>11. CASE DeleteFind(q)
  <2>1. CASE Raise(q, 404)
    BY <1>3, <1>11, <2>1 DEF DeleteFind, At
  <2>2. CASE ~Raise(q, 404)
    <3>1. pc[q] = "find" /\ pc'[q] = "delete" /\ mine' = mine /\ call' = call /\ at' = at
      BY <1>1, <1>11, <2>2 DEF DeleteFind, At, Goto
    <3>2. QED
      BY <1>0, <1>1, <3>1, MineStays
  <2>3. QED
    BY <2>1, <2>2
<1>12. CASE DeleteRow(q)
  <2> DEFINE k == Line(q).key
  <2>1. pc[q] = "delete" /\ pc'[q] = "commit" /\ call' = call /\ at' = at /\ call[q].verb = "delete"
    BY <1>1, <1>12 DEF DeleteRow, At, Goto
  <2>2. call[q] # Null
    BY <1>1, <2>1
  <2>3. CASE table[k] = Null
    BY <1>0, <1>12, <2>1, <2>2, <2>3, MineStays DEF DeleteRow
  <2>4. CASE table[k] # Null
    <3>1. Line(q)' = Line(q)
      BY <2>1 DEF Line
    <3>2. k \in Codes(call[q].kind)
      <4>1. k \in Codes(call[q].kind) \cup {Absent}
        BY <2>1, LineFits DEF Lines
      <4>2. k # Absent
        BY <2>1, <2>2, LineFits, CallFits DEF Base, Line
      <4>3. QED
        BY <4>1, <4>2
    <3>3. Write(q, k, Null)
      BY <1>12, <2>4 DEF DeleteRow
    <3> HIDE DEF k
    <3>4. mine'[q] = [j \in DOMAIN mine[q] \cup {k} |-> IF j = k THEN Null ELSE mine[q][j]]
      BY <1>1, <3>3 DEF Write
    <3>5. Line(q).key = k
      BY DEF k
    <3>6. QED
      BY <1>0, <2>1, <2>2, <3>1, <3>2, <3>4, <3>5 DEF MineFits
  <2>5. QED
    BY <2>3, <2>4
<1>13. CASE DispatchExit(q)
  <2>1. pc[q] = "raised" /\ pc'[q] = "exiting" /\ mine' = mine /\ call' = call /\ at' = at
    BY <1>1, <1>13 DEF DispatchExit, Goto
  <2>2. QED
    BY <1>0, <1>1, <2>1, MineStays
<1>14. CASE Respond(q)
  <2>1. DOMAIN mine'[q] = {} /\ call'[q] = Null
    BY <1>0, <1>1, <1>14 DEF Respond, MineFits
  <2>2. QED
    BY <2>1 DEF MineFits
<1>15. QED
  BY <1>2, <1>5, <1>6, <1>7, <1>8, <1>9, <1>10, <1>11, <1>12, <1>13, <1>14 DEF Acts, Server

\* Together.
LEMMA BaseStep ==
  ASSUME Base, [Next]_vars
  PROVE  Base'
<1>1. ASSUME NEW q \in Requests, Acts(q) PROVE Base'
  <2>1. Types' /\ IsTable(table')
    BY <1>1, TypesStep, TableIsKept
  <2>2. ASSUME NEW r \in Requests, r # q PROVE StageFits(r)' /\ MineFits(r)'
    <3>1. StageFits(r) /\ MineFits(r)
      BY DEF Base
    <3>2. Unmoved(r)
      BY <1>1, <2>2, OthersUnmoved
    <3>3. StageFits(r)'
      BY <3>1, <3>2 DEF Unmoved, StageFits, Batch
    <3>4. MineFits(r)'
      BY <3>1, <3>2 DEF Unmoved, MineFits, Line
    <3>5. QED
      BY <3>3, <3>4
  <2>3. \A r \in Requests : StageFits(r)' /\ MineFits(r)'
    BY <1>1, <2>2, StageStep, MineStep
  <2>4. (Types /\ IsTable(table) /\ (\A r \in Requests : StageFits(r) /\ MineFits(r)) <=> Base)'
    BY BaseMakes, PTL
  <2>5. QED
    BY <2>1, <2>3, <2>4
<1>2. CASE UNCHANGED vars
  <2>1. TypeOK'
    BY <1>2 DEF Base, TypeOK, IsTable, vars
  <2>2. Maps'
    BY <1>2 DEF Base, Maps, IsMap, vars
  <2>3. ASSUME NEW r \in Requests PROVE StageFits(r)' /\ MineFits(r)'
    BY <1>2 DEF Base, StageFits, MineFits, Batch, Line, vars
  <2>4. QED
    BY <2>1, <2>2, <2>3 DEF Base
<1>3. QED
  BY <1>1, <1>2 DEF Next, Acts

\* At the start nobody is at work.
LEMMA BaseInit == Init => Base
<1> SUFFICES ASSUME Init PROVE Base
  OBVIOUS
<1>1. IsTable(table)
  BY CatalogAssumption DEF Init
<1>2. Types
  <2>1. <<>> \in Seq(Events) /\ <<>> \in Seq({201, 204, 400, 422})
    BY EmptySeq
  <2>2. Maps
    BY <2>1 DEF Init, Maps, IsMap
  <2>3. results \in [Requests -> Seq({201, 204, 400, 422})]
    BY <2>1 DEF Init
  <2>4. QED
    BY <2>2, <2>3 DEF Init, Types, Stages
<1>3. ASSUME NEW r \in Requests PROVE StageFits(r) /\ MineFits(r)
  <2>1. pc[r] = "idle" /\ mine[r] = Nothing /\ call[r] = Null
    BY DEF Init
  <2>2. DOMAIN mine[r] = {}
    BY <2>1 DEF Nothing
  <2>3. QED
    BY <2>1, <2>2 DEF StageFits, MineFits, Looping
<1>4. QED
  BY <1>1, <1>2, <1>3, BaseMakes

----------------------------------------------------------------------------
(* Children fit. *)

\* The value has only attributes of the family f, if there is f.
Within(value, f) == table[f] # Null => OrEmpty(value) \subseteq OrEmpty(table[f].val)
TakesOptions(a) == table[a] # Null /\ table[a].val \in SelectTypes

\* A variant fits its family from its check on, alone and in a batch; an option has been
\* checked before the body of its request was awaited.
ReferencesFit(r) ==
  /\ pc[r] = "write" /\ call[r].kind = "variants" => Within(doc[r].val, call[r].parent)
  /\ pc[r] \in Working /\ call[r].kind = "variants" =>
       \A k \in DOMAIN mine[r] : Within(mine[r][k].val, call[r].parent)
  /\ pc[r] \in {"body"} \cup Working /\ call[r].kind = "options" =>
       r \in moved \/ TakesOptions(call[r].parent)

ChildInv == Base /\ \A r \in Requests : ReferencesFit(r)

\* While a handler has the loop only DELETEs are committed, of parents.
LEMMA LoopAlone ==
  ASSUME Base, NEW q \in Requests, Acts(q), NEW r \in Requests, r # q, loop = r, NEW k \in Keys
  PROVE  table'[k] = table[k] \/ (k \in Parents /\ table'[k] = Null)
<1>0. StageFits(q) /\ MineFits(q) /\ table = [j \in Keys |-> table[j]]
  BY DEF Base, TypeOK, IsTable
<1>1. CASE table' = table
  BY <1>1
<1>2. CASE Save(q)
  BY <1>0, <1>2 DEF Save, StageFits, Looping
<1>3. CASE Commit(q)
  BY <1>0, <1>3 DEF Commit, At, StageFits, Batch
<1>4. CASE DeleteCommit(q) /\ table' = View(q)
  <2>1. pc[q] = "commit" /\ call[q].verb = "delete" /\ call[q] # Null
    BY <1>4 DEF DeleteCommit, At, Base, TypeOK
  <2>2. \A j \in DOMAIN mine[q] : j \in Codes(call[q].kind) /\ mine[q][j] = Null
    BY <1>0, <2>1 DEF MineFits
  <2>3. call[q].kind \in {"attributes", "families"}
    BY <2>1, CallFits DEF Base
  <2>4. QED
    BY <1>4, <2>2, <2>3, KindsDiffer DEF View
<1>5. QED
  BY <1>1, <1>2, <1>3, <1>4, TableStep

\* Who has a parent is told of every change of it by others.
LEMMA ParentMoves ==
  ASSUME Base, NEW q \in Requests, Acts(q), NEW r \in Requests, r # q, call[r] # Null,
         call[r].parent # Null, table'[call[r].parent] # table[call[r].parent]
  PROVE  r \in moved'
<1>1. \E T : Store(q, T)
  BY TableStep DEF Save, Commit, DeleteCommit, NextLine, Raise, Batch
<1>2. QED
  BY <1>1 DEF Store

\* What a variant and an option hang on.
LEMMA ParentIs ==
  ASSUME Base, NEW r \in Requests, call[r] # Null
  PROVE  /\ call[r].kind = "variants" => call[r].parent \in Families /\ View(r)[call[r].parent] = table[call[r].parent]
         /\ call[r].kind = "options" => call[r].parent \in Attributes /\ View(r)[call[r].parent] = table[call[r].parent]
         /\ call[r].kind \in {"options", "variants"} => call[r].parent \in Keys /\ call[r].parent # Null
<1>1. call[r].kind \in Kinds /\ call[r].parent \in ParentsOf(call[r].kind)
  BY CallFits DEF Base
<1>2. /\ call[r].kind = "variants" => call[r].parent \in Families
      /\ call[r].kind = "options" => call[r].parent \in Attributes
  BY <1>1 DEF ParentsOf
<1>3. DOMAIN mine[r] \subseteq Codes(call[r].kind)
  BY DEF Base, MineFits
<1>4. Families \subseteq Keys /\ Attributes \subseteq Keys /\ Null \notin Keys
  BY CatalogAssumption DEF Keys, Parents
<1>5. call[r].kind \in {"options", "variants"} => call[r].parent \notin DOMAIN mine[r]
  BY <1>2, <1>3, KindsDiffer DEF Parents
<1>6. QED
  BY <1>2, <1>4, <1>5 DEF View

\* Others leave what has been checked.
LEMMA OthersFit ==
  ASSUME ChildInv, NEW q \in Requests, Acts(q), NEW r \in Requests, r # q
  PROVE  ReferencesFit(r)'
<1>0. Base /\ ReferencesFit(r) /\ StageFits(r) /\ Unmoved(r) /\ (pc[r] = "idle" <=> call[r] = Null)
  BY OthersUnmoved DEF ChildInv, Base, TypeOK
<1>1. ASSUME pc[r] \in Working, call[r].kind = "variants"
      PROVE  table'[call[r].parent] = table[call[r].parent] \/ table'[call[r].parent] = Null
  <2>1. call[r] # Null /\ call[r].verb \in {"post", "patch", "batch", "delete"}
    BY <1>0, <1>1, CallFits DEF Working, Base
  <2>2. call[r].verb # "delete"
    BY <1>0, <1>1, <2>1, CallFits DEF Base
  <2>3. loop = r
    BY <1>0, <1>1, <2>2 DEF StageFits, Looping, Working, Batch
  <2>4. call[r].parent \in Keys
    BY <1>0, <1>1, <2>1, ParentIs
  <2>5. QED
    BY <1>0, <2>3, <2>4, LoopAlone
<1>2. pc'[r] \in {"body"} \cup Working /\ call'[r].kind = "options" =>
        r \in moved' \/ TakesOptions(call[r].parent)'
  <2> SUFFICES ASSUME pc[r] \in {"body"} \cup Working, call[r].kind = "options", r \notin moved'
               PROVE  TakesOptions(call[r].parent)'
    BY <1>0 DEF Unmoved
  <2>1. call[r] # Null /\ call[r].parent # Null
    BY <1>0, ParentIs DEF Working
  <2>2. r \notin moved /\ call'[r] = call[r]
    BY <1>0 DEF Unmoved
  <2>3. TakesOptions(call[r].parent)
    BY <1>0, <2>2 DEF ReferencesFit
  <2>4. table'[call[r].parent] = table[call[r].parent]
    BY <1>0, <2>1, ParentMoves
  <2>5. QED
    BY <2>2, <2>3, <2>4 DEF TakesOptions
<1>3. /\ pc'[r] = pc[r] /\ call'[r] = call[r] /\ doc'[r] = doc[r] /\ mine'[r] = mine[r]
  BY <1>0 DEF Unmoved
<1>4. pc'[r] = "write" /\ call'[r].kind = "variants" => Within(doc[r].val, call[r].parent)'
  BY <1>0, <1>1, <1>3 DEF ReferencesFit, Working, Within
<1>5. pc'[r] \in Working /\ call'[r].kind = "variants" =>
        \A k \in DOMAIN mine'[r] : Within(mine[r][k].val, call[r].parent)'
  BY <1>0, <1>1, <1>3 DEF ReferencesFit, Within
<1>6. QED
  BY <1>2, <1>3, <1>4, <1>5 DEF ReferencesFit

\* What a request has checked stays checked in its own steps.
LEMMA OwnFits ==
  ASSUME ChildInv, NEW q \in Requests, Acts(q)
  PROVE  ReferencesFit(q)'
<1>0. Base /\ ReferencesFit(q) /\ StageFits(q) /\ MineFits(q) /\ (pc[q] = "idle" <=> call[q] = Null)
      /\ Types /\ IsTable(table)
  BY BaseMakes DEF ChildInv, Base, TypeOK
<1>1. pc \in [Requests -> Stages] /\ call \in [Requests -> Calls \cup {Null}]
      /\ mine = [r \in Requests |-> mine[r]] /\ doc = [r \in Requests |-> doc[r]]
  BY <1>0 DEF Types, Maps, IsMap
<1>2. ASSUME pc'[q] \notin {"body"} \cup Working PROVE ReferencesFit(q)'
  BY <1>2 DEF ReferencesFit, Working
<1>3. ASSUME pc[q] \in Working, pc'[q] \in Working \ {"write"}, call'[q] = call[q], mine'[q] = mine[q],
             table' = table, moved' = moved
      PROVE  ReferencesFit(q)'
  BY <1>0, <1>3 DEF ReferencesFit, Working, Within, TakesOptions
<1>4. ASSUME NEW code, Refuse(q, code), pc[q] \in Working PROVE ReferencesFit(q)'
  <2>1. CASE Batch(q)
    <3>1. /\ pc'[q] \in {"read", "commit"} /\ call' = call /\ mine' = mine
          /\ table' = table /\ moved' = moved
      BY <1>1, <1>4, <2>1 DEF Refuse, Batch, NextLine, Goto
    <3>2. QED
      BY <1>3, <1>4, <3>1 DEF Working
  <2>2. CASE ~Batch(q)
    <3>1. pc'[q] = "raised"
      BY <1>1, <1>4, <2>2 DEF Refuse, Batch, Raise, Settle, Goto
    <3>2. QED
      BY <1>2, <3>1 DEF Working
  <2>3. QED
    BY <2>1, <2>2
<1>5. CASE CheckParent(q)
  <2>1. CASE \E code \in {404, 422} : Raise(q, code)
    <3>1. pc'[q] = "raised"
      BY <1>1, <2>1 DEF Raise, Settle, Goto
    <3>2. QED
      BY <1>2, <3>1 DEF Working
  <2>2. CASE ~\E code \in {404, 422} : Raise(q, code)
    <3>1. pc[q] = "parent" /\ call[q].kind = "options" /\ call[q] # Null
      BY <1>0, <1>5 DEF CheckParent, StageFits
    <3>2. View(q)[call[q].parent] = table[call[q].parent]
      BY <1>0, <3>1, ParentIs
    <3>3. TakesOptions(call[q].parent) /\ pc'[q] = "body" /\ table' = table /\ call' = call
      BY <1>1, <1>5, <2>2, <3>2 DEF CheckParent, Goto, TakesOptions
    <3>4. QED
      BY <3>1, <3>3 DEF ReferencesFit, Working, TakesOptions
  <2>3. QED
    BY <2>1, <2>2
<1>6. CASE BodyArrives(q)
  <2>1. /\ pc[q] = "body" /\ pc'[q] = "read" /\ call' = call /\ mine' = mine /\ table' = table
        /\ moved' = moved
    BY <1>1, <1>6 DEF BodyArrives, Goto
  <2>2. call[q].kind = "options"
    BY <1>0, <2>1 DEF StageFits
  <2>3. QED
    BY <1>0, <2>1, <2>2 DEF ReferencesFit, Working, TakesOptions
<1>7. CASE StartHandler(q)
  <2>1. /\ pc[q] = "received" /\ call' = call /\ mine' = mine /\ table' = table /\ moved' = moved
        /\ pc'[q] = IF call[q].kind = "options" THEN "parent" ELSE "read"
    BY <1>1, <1>7 DEF StartHandler, Goto
  <2>2. DOMAIN mine[q] = {}
    BY <1>0, <2>1 DEF MineFits
  <2>3. QED
    BY <2>1, <2>2 DEF ReferencesFit, Working
<1>8. CASE ReadPost(q) \/ ReadPatch(q)
  <2>1. ASSUME NEW code, Raise(q, code) PROVE ReferencesFit(q)'
    <3>1. pc'[q] = "raised"
      BY <1>1, <2>1 DEF Raise, Settle, Goto
    <3>2. QED
      BY <1>2, <3>1 DEF Working
  <2>2. ASSUME NEW found, NEW v, Prepare(q, found, v), pc[q] = "read" PROVE ReferencesFit(q)'
    <3>1. pc'[q] = "check" /\ call' = call /\ mine' = mine /\ table' = table /\ moved' = moved
      BY <1>1, <2>2 DEF Prepare, Goto
    <3>2. QED
      BY <1>3, <2>2, <3>1 DEF Working
  <2>3. QED
    BY <1>0, <1>4, <1>8, <2>1, <2>2, ReadStep DEF Working
<1>9. CASE Check(q)
  <2>1. pc[q] = "check" /\ call[q] # Null /\ doc[q] \in Documents(call[q])
    BY <1>0, <1>9 DEF Check, StageFits
  <2>2. \/ Refuse(q, 422)
        \/ /\ ReferencesHold(View(q), doc[q]) /\ Goto(q, "write")
           /\ UNCHANGED <<table, mine, loop, call, at, doc, reply, results, tasks, moved>>
    BY ONLY <1>9 DEF Check
  <2>3. CASE Refuse(q, 422)
    BY <1>4, <2>1, <2>3 DEF Working
  <2>4. CASE /\ ReferencesHold(View(q), doc[q]) /\ Goto(q, "write")
             /\ UNCHANGED <<table, mine, loop, call, at, doc, reply, results, tasks, moved>>
    <3>1. /\ pc'[q] = "write" /\ call' = call /\ mine' = mine /\ doc' = doc /\ table' = table
          /\ moved' = moved
      BY <1>1, <2>4 DEF Goto
    <3>2. call[q].kind = "variants" => Within(doc[q].val, call[q].parent)
      <4>1. doc[q].key \in Codes(call[q].kind) /\ doc[q].parent = call[q].parent
        BY <2>1 DEF Documents
      <4>2. call[q].kind = "variants" => doc[q].key \in Variants
        BY <4>1 DEF Codes
      <4>3. call[q].kind = "variants" => View(q)[call[q].parent] = table[call[q].parent]
        BY <1>0, <2>1, ParentIs
      <4>4. QED
        BY <2>4, <4>1, <4>2, <4>3 DEF ReferencesHold, Within
    <3>3. QED
      BY <1>0, <2>1, <3>1, <3>2 DEF ReferencesFit, Working, Within, TakesOptions
  <2>5. QED
    BY <2>2, <2>3, <2>4
<1>10. CASE Save(q)
  <2>0. pc[q] = "write" /\ call[q] # Null /\ doc[q] \in Documents(call[q])
    BY <1>0, <1>10 DEF Save, StageFits
  <2>1. CASE Raise(q, 422)
    <3>1. pc'[q] = "raised"
      BY <1>1, <2>1 DEF Raise, Settle, Goto
    <3>2. QED
      BY <1>2, <3>1 DEF Working
  <2>2. CASE ~Raise(q, 422) /\ ~Batch(q)
    <3>1. pc'[q] = "done"
      BY <1>1, <1>10, <2>2 DEF Save, Batch, Settle, Goto
    <3>2. QED
      BY <1>2, <3>1 DEF Working
  <2>3. CASE ~Raise(q, 422) /\ Batch(q)
    <3> DEFINE row == Upserted(View(q), doc[q])
    <3>1. /\ pc'[q] \in {"read", "commit"} /\ call' = call /\ table' = table /\ moved' = moved
          /\ Write(q, doc[q].key, row) /\ doc[q].val # Bad
      BY <1>1, <1>10, <2>3 DEF Save, Batch, NextLine, Goto
    <3>2. call[q].kind = "variants" => OrEmpty(row.val) = OrEmpty(doc[q].val)
      <4>1. call[q].kind = "variants" => doc[q].key \notin Parents
        BY <2>0, KindsDiffer DEF Documents
      <4>2. call[q].kind = "variants" => row.val = IF doc[q].val = Nulled THEN Absent ELSE doc[q].val
        BY <4>1 DEF Upserted
      <4> HIDE DEF row
      <4>3. QED
        BY <4>2 DEF OrEmpty
    <3> HIDE DEF row
    <3>3. mine'[q] = [j \in DOMAIN mine[q] \cup {doc[q].key} |-> IF j = doc[q].key THEN row ELSE mine[q][j]]
      BY <1>1, <3>1 DEF Write
    <3>4. call[q].kind = "variants" => \A k \in DOMAIN mine'[q] : Within(mine'[q][k].val, call[q].parent)
      BY <1>0, <2>0, <3>2, <3>3 DEF ReferencesFit, Within, Working
    <3>5. QED
      BY <1>0, <2>0, <3>1, <3>4 DEF ReferencesFit, Within, TakesOptions, Working
  <2>4. QED
    BY <2>1, <2>2, <2>3
<1>11. CASE Commit(q) \/ DeleteCommit(q)
  <2>1. pc'[q] = "done"
    BY <1>1, <1>11 DEF Commit, DeleteCommit, Settle, Goto
  <2>2. QED
    BY <1>2, <2>1 DEF Working
<1>12. CASE DispatchExit(q) \/ Rollback(q) \/ Respond(q)
  <2>1. pc'[q] \in {"exiting", "done", "idle"}
    BY <1>1, <1>12 DEF DispatchExit, Rollback, Respond, Goto
  <2>2. QED
    BY <1>2, <2>1 DEF Working
<1>13. CASE DeleteFind(q) \/ DeleteRow(q) \/ \E c \in Calls : Receive(q, c)
  <2>1. \/ pc'[q] \in {"raised", "delete", "find", "received"}
        \/ /\ pc[q] = "delete" /\ pc'[q] = "commit" /\ call' = call
    BY <1>1, <1>13 DEF DeleteFind, DeleteRow, Receive, At, Raise, Settle, Goto
  <2>2. CASE pc'[q] \in {"raised", "delete", "find", "received"}
    BY <1>2, <2>2 DEF Working
  <2>3. CASE pc[q] = "delete" /\ pc'[q] = "commit" /\ call' = call
    <3>1. call[q] # Null /\ call[q].verb = "delete"
      BY <1>0, <2>3 DEF StageFits
    <3>2. call[q].kind \in {"attributes", "families"}
      BY <1>0, <3>1, CallFits DEF Base
    <3>3. QED
      BY <2>3, <3>2 DEF ReferencesFit
  <2>4. QED
    BY <2>1, <2>2, <2>3
<1>14. QED
  BY <1>5, <1>6, <1>7, <1>8, <1>9, <1>10, <1>11, <1>12, <1>13 DEF Acts, Server

\* Every step keeps that children fit.
LEMMA ChildStep ==
  ASSUME ChildInv, [Next]_vars
  PROVE  ChildInv'
<1>1. Base'
  BY BaseStep DEF ChildInv
<1>2. ASSUME NEW q \in Requests, Acts(q), NEW r \in Requests PROVE ReferencesFit(r)'
  BY <1>2, OwnFits, OthersFit
<1>3. ASSUME UNCHANGED vars, NEW r \in Requests PROVE ReferencesFit(r)'
  BY <1>3 DEF ChildInv, ReferencesFit, Within, TakesOptions, vars
<1>4. QED
  BY <1>1, <1>2, <1>3 DEF ChildInv, Next, Acts

\* At the start there are no documents.
LEMMA ChildInit == Init => ChildInv
<1>1. ASSUME Init, NEW r \in Requests PROVE ReferencesFit(r)
  BY <1>1 DEF Init, ReferencesFit, Working
<1>2. QED
  BY <1>1, BaseInit DEF ChildInv

\* So they fit in every reachable state.
LEMMA ChildInvariance == Spec => []ChildInv
<1>1. ChildInv /\ [Next]_vars => ChildInv'
  BY ChildStep
<1>2. QED
  BY <1>1, ChildInit, PTL DEF Spec

\* Which rows a step changes, and by whom.
LEMMA RowChange ==
  ASSUME Base, NEW q \in Requests, Acts(q), NEW k \in Keys, table'[k] # table[k]
  PROVE  /\ call[q] # Null /\ k \in Codes(call[q].kind) /\ Commits(q)
         /\ \/ /\ Save(q) /\ call[q].verb # "batch" /\ pc[q] = "write" /\ k = doc[q].key
               /\ doc[q] \in Documents(call[q]) /\ doc[q].val # Bad
               /\ table'[k] = Upserted(table, doc[q])
            \/ /\ Commit(q) /\ call[q].verb = "batch" /\ k \in DOMAIN mine[q]
               /\ table'[k] = mine[q][k] /\ table'[k] # Null /\ table'[k].parent = call[q].parent
            \/ /\ DeleteCommit(q) /\ call[q].verb = "delete" /\ k = Line(q).key /\ k \in Parents
               /\ table'[k] = Null
<1>0. Types /\ IsTable(table) /\ StageFits(q) /\ MineFits(q) /\ (pc[q] = "idle" <=> call[q] = Null)
  BY BaseMakes DEF Base, TypeOK
<1>1. pc \in [Requests -> Stages] /\ reply \in [Requests -> {0, 200, 201, 204, 404, 409, 422}]
      /\ table = [j \in Keys |-> table[j]]
  BY <1>0 DEF Types, IsTable
<1>2. CASE /\ Save(q) /\ call[q].verb # "batch" /\ doc[q].val # Bad
           /\ table' = [table EXCEPT ![doc[q].key] = Upserted(table, doc[q])]
  <2>1. pc[q] = "write" /\ doc[q] \in Documents(call[q]) /\ call[q] # Null
    BY <1>0, <1>2 DEF Save, StageFits
  <2>2. k = doc[q].key /\ table'[k] = Upserted(table, doc[q])
    BY <1>1, <1>2
  <2>3. k \in Codes(call[q].kind)
    BY <2>1, <2>2 DEF Documents
  <2>4. ~Raise(q, 422)
    BY <1>2, <2>2 DEF Raise
  <2>5. Commits(q)
    BY <1>1, <1>2, <2>1, <2>4 DEF Save, Settle, Goto, Commits
  <2>6. QED
    BY <1>2, <2>1, <2>2, <2>3, <2>5
<1>3. CASE (Commit(q) \/ DeleteCommit(q)) /\ table' = View(q)
  <2>1. pc[q] = "commit" /\ call[q] # Null /\ call[q].verb \in {"batch", "delete"}
        /\ (Commit(q) => Batch(q)) /\ (DeleteCommit(q) => call[q].verb = "delete")
    BY <1>0, <1>3 DEF Commit, DeleteCommit, At, Batch
  <2>2. k \in DOMAIN mine[q] /\ table'[k] = mine[q][k]
    BY <1>3 DEF View
  <2>3. k \in Codes(call[q].kind)
    BY <1>0, <2>1, <2>2 DEF MineFits
  <2>4. Commits(q)
    BY <1>1, <1>3, <2>1 DEF Commit, DeleteCommit, Settle, Goto, Commits
  <2>5. CASE Commit(q)
    <3>1. mine[q][k] \in Rows(call[q].kind) /\ mine[q][k].parent = call[q].parent
      BY <1>0, <2>1, <2>2, <2>5 DEF MineFits, Batch
    <3>2. mine[q][k] # Null
      BY <2>1, <3>1, CallFits, CatalogAssumption DEF Base
    <3>3. QED
      BY <2>1, <2>2, <2>3, <2>4, <2>5, <3>1, <3>2 DEF Batch
  <2>6. CASE DeleteCommit(q)
    <3>1. k = Line(q).key /\ mine[q][k] = Null
      BY <1>0, <2>1, <2>2, <2>6 DEF MineFits
    <3>2. k \in Parents
      BY <2>1, <2>3, <2>6, CallFits, KindsDiffer DEF Base
    <3>3. QED
      BY <2>1, <2>2, <2>3, <2>4, <2>6, <3>1, <3>2
  <2>7. QED
    BY <1>3, <2>5, <2>6
<1>4. QED
  BY <1>2, <1>3, TableStep

\* What ChildrenFit says of one step.
LEMMA ChildrenFitStep ==
  ASSUME ChildInv, NEW q \in Requests, Acts(q), NEW k \in Children, table'[k] # table[k]
  PROVE  LET p == table'[k].parent
             row == table[p] IN
         IF k \in Variants
         THEN row # Null => OrEmpty(table'[k].val) \subseteq OrEmpty(row.val)
         ELSE \/ row # Null /\ row.val \in SelectTypes
              \/ \E r \in moved : Commits(r) /\ call[r].parent = p
<1>0. Base /\ ReferencesFit(q) /\ IsTable(table) /\ moved \subseteq Requests
  BY DEF ChildInv, Base, TypeOK
<1>1. k \in Keys /\ k \notin Parents
  BY KindsDiffer DEF Keys
<1>2. call[q] # Null /\ k \in Codes(call[q].kind) /\ Commits(q)
  BY <1>0, <1>1, RowChange
<1>3. call[q].kind = IF k \in Variants THEN "variants" ELSE "options"
  <2>1. call[q].kind \in Kinds
    BY <1>0, <1>2, CallFits DEF Base
  <2>2. k \in Variants \/ k \in Options
    BY DEF Children
  <2>3. QED
    BY <1>1, <1>2, <2>1, <2>2, KindsDiffer DEF Kinds, Codes, Parents
<1>4. CASE /\ Save(q) /\ pc[q] = "write" /\ k = doc[q].key /\ doc[q] \in Documents(call[q])
           /\ table'[k] = Upserted(table, doc[q])
  <2>1. table'[k].parent = call[q].parent
    BY <1>4 DEF Documents, Upserted
  <2>2. table'[k].val = IF doc[q].val = Nulled THEN Absent ELSE doc[q].val
    BY <1>1, <1>4 DEF Upserted
  <2>3. OrEmpty(table'[k].val) = OrEmpty(doc[q].val)
    BY <2>2 DEF OrEmpty
  <2>4. CASE k \in Variants
    BY <1>0, <1>3, <1>4, <2>1, <2>3, <2>4 DEF ReferencesFit, Within
  <2>5. CASE k \notin Variants
    BY <1>0, <1>2, <1>3, <1>4, <2>1, <2>5 DEF ReferencesFit, TakesOptions, Working
  <2>6. QED
    BY <2>4, <2>5
<1>5. CASE /\ Commit(q) /\ k \in DOMAIN mine[q] /\ table'[k] = mine[q][k]
           /\ table'[k].parent = call[q].parent
  <2>1. pc[q] = "commit"
    BY <1>5 DEF Commit, At
  <2>2. CASE k \in Variants
    BY <1>0, <1>3, <1>5, <2>1, <2>2 DEF ReferencesFit, Within, Working
  <2>3. CASE k \notin Variants
    BY <1>0, <1>2, <1>3, <1>5, <2>1, <2>3 DEF ReferencesFit, TakesOptions, Working
  <2>4. QED
    BY <2>2, <2>3
<1>6. QED
  BY <1>0, <1>1, <1>4, <1>5, RowChange

\* A variant fits its family, and an option its attribute, when they are committed: for any
\* number of requests, codes and lines, although no transaction holds the parent
\* (rest.py:1141-1400).
THEOREM ChildrenStayFit == Spec => ChildrenFit
<1>1. ChildInv /\ [Next]_vars =>
        [\A k \in Children :
           table'[k] # table[k] =>
             LET p == table'[k].parent
                 row == table[p] IN
             IF k \in Variants
             THEN row # Null => OrEmpty(table'[k].val) \subseteq OrEmpty(row.val)
             ELSE \/ row # Null /\ row.val \in SelectTypes
                  \/ \E r \in moved : Commits(r) /\ call[r].parent = p]_vars
  <2> SUFFICES ASSUME ChildInv, Next, NEW k \in Children, table'[k] # table[k]
               PROVE  LET p == table'[k].parent
                          row == table[p] IN
                      IF k \in Variants
                      THEN row # Null => OrEmpty(table'[k].val) \subseteq OrEmpty(row.val)
                      ELSE \/ row # Null /\ row.val \in SelectTypes
                           \/ \E r \in moved : Commits(r) /\ call[r].parent = p
    OBVIOUS
  <2>1. PICK q \in Requests : Acts(q)
    BY DEF Next, Acts
  <2>2. QED
    BY <2>1, ChildrenFitStep
<1>2. QED
  BY <1>1, ChildInvariance, PTL DEF Spec, ChildrenFit

\* Tables, requests, documents and results keep their types.
THEOREM CatalogTypeCorrect == Spec => []TypeOK
<1>1. ChildInv => TypeOK
  BY DEF ChildInv, Base
<1>2. QED
  BY <1>1, ChildInvariance, PTL

----------------------------------------------------------------------------
(* Events. *)

\* There is such a row, below that parent.
Known(e) == table[e.key] # Null /\ table[e.key].parent = e.parent

\* What a document and the first event about a row say of the committed row.
TellsTruth(r, isNew, e) ==
  IF isNew THEN Known(e) => call[r].verb = "post" /\ e.key \in Children
  ELSE Known(e) \/ e.key \in Parents

IsFirst(r, n) == \A m \in 1..(n - 1) : tasks[r][m].key # tasks[r][n].key

\* A batch has announced what it has written, and nothing else has been announced before
\* the commit.
TasksFit(r) ==
  /\ pc[r] \notin Working \cup {"raised", "exiting", "done"} => tasks[r] = <<>>
  /\ pc[r] \in Working /\ ~Batch(r) => tasks[r] = <<>>
  /\ pc[r] \in Working /\ Batch(r) =>
       /\ \A n \in DOMAIN tasks[r] :
            tasks[r][n].key \in DOMAIN mine[r] /\ tasks[r][n].parent = call[r].parent
              /\ tasks[r][n].action \in {"created", "updated"}
       /\ \A k \in DOMAIN mine[r] : \E n \in DOMAIN tasks[r] : tasks[r][n].key = k

\* The first announcement says what the table has.
EventsFit(r) ==
  /\ pc[r] \in Working /\ Batch(r) =>
       \A n \in DOMAIN tasks[r] :
         IsFirst(r, n) => TellsTruth(r, tasks[r][n].action = "created", tasks[r][n])
  /\ pc[r] \in {"check", "write"} /\ doc[r].key \notin DOMAIN mine[r] =>
       TellsTruth(r, doc[r].isNew, doc[r])

EventInv == Base /\ \A r \in Requests : TasksFit(r) /\ EventsFit(r)

\* Others leave what has been announced, and what it says.
LEMMA OthersTell ==
  ASSUME EventInv, NEW q \in Requests, Acts(q), NEW r \in Requests, r # q
  PROVE  TasksFit(r)' /\ EventsFit(r)'
<1>0. Base /\ TasksFit(r) /\ EventsFit(r) /\ StageFits(r) /\ MineFits(r) /\ Unmoved(r)
      /\ (pc[r] = "idle" <=> call[r] = Null) /\ Types
  BY OthersUnmoved, BaseMakes DEF EventInv, Base, TypeOK
<1>1. /\ pc'[r] = pc[r] /\ call'[r] = call[r] /\ doc'[r] = doc[r] /\ mine'[r] = mine[r]
      /\ tasks'[r] = tasks[r]
  BY <1>0 DEF Unmoved
<1>2. TasksFit(r)'
  BY <1>0, <1>1 DEF TasksFit, Batch
<1>3. ASSUME (pc[r] \in Working /\ Batch(r)) \/ pc[r] \in {"check", "write"},
             NEW e, e.key \in Keys, NEW isNew \in BOOLEAN, TellsTruth(r, isNew, e)
      PROVE  IF isNew THEN (table'[e.key] # Null /\ table'[e.key].parent = e.parent) =>
                             call[r].verb = "post" /\ e.key \in Children
             ELSE (table'[e.key] # Null /\ table'[e.key].parent = e.parent) \/ e.key \in Parents
  <2>1. loop = r
    BY <1>0, <1>3 DEF StageFits, Looping, Working
  <2>2. table'[e.key] = table[e.key] \/ (e.key \in Parents /\ table'[e.key] = Null)
    BY <1>0, <1>3, <2>1, LoopAlone
  <2>3. QED
    BY <1>3, <2>2 DEF TellsTruth, Known
<1>4. ASSUME pc[r] \in Working, Batch(r), NEW n \in DOMAIN tasks[r], IsFirst(r, n)
      PROVE  TellsTruth(r, tasks[r][n].action = "created", tasks[r][n])'
  <2>1. TellsTruth(r, tasks[r][n].action = "created", tasks[r][n])
    BY <1>0, <1>4 DEF EventsFit
  <2>2. tasks[r] \in Seq(Events)
    BY <1>0 DEF Types, Maps
  <2>3. tasks[r][n].key \in Keys
    <3>1. n \in 1..Len(tasks[r])
      BY <2>2, <1>4, LenProperties
    <3>2. tasks[r][n] \in Events
      BY ONLY <2>2, <3>1, ElementOfSeq
    <3>3. QED
      BY ONLY <3>2 DEF Events
  <2>4. QED
    BY <1>1, <1>3, <1>4, <2>1, <2>3 DEF TellsTruth, Known
<1>5. ASSUME pc[r] \in {"check", "write"}, doc[r].key \notin DOMAIN mine[r]
      PROVE  TellsTruth(r, doc[r].isNew, doc[r])'
  <2>1. TellsTruth(r, doc[r].isNew, doc[r])
    BY <1>0, <1>5 DEF EventsFit
  <2>2. doc[r] \in Documents(call[r]) /\ call[r] # Null
    BY <1>0, <1>5 DEF StageFits
  <2>3. doc[r].key \in Keys /\ doc[r].isNew \in BOOLEAN
    BY <1>0, <2>2, CallFits, KindOfCode DEF Documents, Base
  <2>4. QED
    BY <1>1, <1>3, <1>5, <2>1, <2>3 DEF TellsTruth, Known
<1>6. EventsFit(r)'
  <2>1. \A n : IsFirst(r, n)' <=> IsFirst(r, n)
    BY <1>1 DEF IsFirst
  <2>2. Batch(r)' <=> Batch(r)
    BY <1>1 DEF Batch
  <2>3. pc'[r] \in Working /\ Batch(r)' =>
          \A n \in DOMAIN tasks'[r] :
            IsFirst(r, n)' => TellsTruth(r, tasks[r][n].action = "created", tasks[r][n])'
    BY <1>1, <1>4, <2>1, <2>2
  <2>4. pc'[r] \in {"check", "write"} /\ doc'[r].key \notin DOMAIN mine'[r] =>
          TellsTruth(r, doc[r].isNew, doc[r])'
    BY <1>1, <1>5
  <2>5. QED
    BY <2>3, <2>4 DEF EventsFit
<1>7. QED
  BY <1>2, <1>6

\* Steps that leave everything announced as it is.
LEMMA TellsStays ==
  ASSUME NEW q \in Requests, TasksFit(q), EventsFit(q), pc[q] \in Working, pc'[q] \in Working,
         pc'[q] \in {"check", "write"} => pc[q] \in {"check", "write"} /\ doc'[q] = doc[q],
         mine'[q] = mine[q], tasks'[q] = tasks[q], call'[q] = call[q], table' = table
  PROVE  TasksFit(q)' /\ EventsFit(q)'
<1>1. TasksFit(q)'
  BY DEF TasksFit, Batch, Working
<1>2. \A n : IsFirst(q, n)' <=> IsFirst(q, n)
  BY DEF IsFirst
<1>3. \A n : TellsTruth(q, tasks[q][n].action = "created", tasks[q][n])'
               <=> TellsTruth(q, tasks[q][n].action = "created", tasks[q][n])
  BY DEF TellsTruth, Known
<1>4. pc'[q] \in {"check", "write"} =>
        (TellsTruth(q, doc[q].isNew, doc[q])' <=> TellsTruth(q, doc[q].isNew, doc[q]))
  BY DEF TellsTruth, Known
<1>5. QED
  BY <1>1, <1>2, <1>3, <1>4 DEF EventsFit, Batch

\* Steps after which nothing has been announced or the request is over.
LEMMA TellsNothing ==
  ASSUME NEW q \in Requests,
         \/ pc'[q] \in {"raised", "exiting", "done"}
         \/ tasks'[q] = <<>> /\ pc'[q] \notin {"check", "write"}
              /\ (pc'[q] \in Working /\ Batch(q)' => DOMAIN mine'[q] = {})
  PROVE  TasksFit(q)' /\ EventsFit(q)'
<1>1. CASE pc'[q] \in {"raised", "exiting", "done"}
  BY <1>1 DEF TasksFit, EventsFit, Working
<1>2. CASE tasks'[q] = <<>> /\ pc'[q] \notin {"check", "write"}
              /\ (pc'[q] \in Working /\ Batch(q)' => DOMAIN mine'[q] = {})
  <2>1. DOMAIN tasks'[q] = {}
    BY <1>2
  <2>2. QED
    BY <1>2, <2>1 DEF TasksFit, EventsFit
<1>3. QED
  BY <1>1, <1>2

\* The document that a handler makes of a line.
LEMMA PreparedTells ==
  ASSUME EventInv, NEW q \in Requests, NEW found \in BOOLEAN, NEW v, Prepare(q, found, v),
         pc[q] = "read", Line(q).key \in Codes(call[q].kind), call[q] # Null,
         found => Found(q, Line(q).key),
         Found(q, Line(q).key) => found \/ (call[q].verb = "post" /\ Line(q).key \notin Parents)
  PROVE  TasksFit(q)' /\ EventsFit(q)'
<1>0. Base /\ TasksFit(q) /\ EventsFit(q) /\ Types
  BY BaseMakes DEF EventInv
<1>1. /\ pc'[q] = "check" /\ mine' = mine /\ call' = call /\ tasks' = tasks /\ table' = table
      /\ doc'[q] = [key |-> Line(q).key, parent |-> call[q].parent, val |-> v, isNew |-> ~found]
  BY <1>0 DEF Prepare, Goto, Types, Maps, IsMap
<1>2. TasksFit(q)'
  BY <1>0, <1>1 DEF TasksFit, Batch, Working
<1>3. ASSUME Line(q).key \notin DOMAIN mine[q] PROVE TellsTruth(q, doc[q].isNew, doc[q])'
  <2>1. Line(q).key \in Keys
    BY <1>0, CallFits, KindOfCode DEF Base
  <2>2. Found(q, Line(q).key) <=>
          table[Line(q).key] # Null /\ table[Line(q).key].parent = call[q].parent
    BY <1>3, <2>1 DEF Found, View
  <2>3. Line(q).key \notin Parents => Line(q).key \in Children
    BY <2>1 DEF Keys
  <2>4. doc'[q].isNew = ~found /\ (Known(doc[q])' <=> Found(q, Line(q).key)) /\ doc'[q].key = Line(q).key
    BY <1>1, <2>2 DEF Known
  <2>5. CASE found
    BY <2>4, <2>5 DEF TellsTruth
  <2>6. CASE ~found
    BY <1>1, <2>3, <2>4, <2>6 DEF TellsTruth
  <2>7. QED
    BY <2>5, <2>6
<1>4. \A n : IsFirst(q, n)' <=> IsFirst(q, n)
  BY <1>1 DEF IsFirst
<1>5. \A n : TellsTruth(q, tasks[q][n].action = "created", tasks[q][n])'
               <=> TellsTruth(q, tasks[q][n].action = "created", tasks[q][n])
  BY <1>1 DEF TellsTruth, Known
<1>6. EventsFit(q)'
  BY <1>0, <1>1, <1>3, <1>4, <1>5 DEF EventsFit, Batch, Working
<1>7. QED
  BY <1>2, <1>6

\* A line of a batch is written and announced.
LEMMA SavedTells ==
  ASSUME EventInv, NEW q \in Requests, Save(q), Batch(q), ~Raise(q, 422)
  PROVE  TasksFit(q)' /\ EventsFit(q)'
<1>0. Base /\ TasksFit(q) /\ EventsFit(q) /\ Types /\ StageFits(q) /\ pc[q] = "write"
  BY BaseMakes DEF EventInv, Base, Save
<1> DEFINE d == doc[q]
           e == [action |-> IF d.isNew THEN "created" ELSE "updated", key |-> d.key, parent |-> d.parent]
           old == tasks[q]
<1>1. /\ tasks'[q] = Append(old, e) /\ Write(q, d.key, Upserted(View(q), d))
      /\ call' = call /\ table' = table /\ pc'[q] \in {"read", "commit"}
  BY <1>0 DEF Save, Batch, Announce, NextLine, Goto, Types, Maps
<1>2. DOMAIN mine'[q] = DOMAIN mine[q] \cup {d.key}
  BY <1>0, <1>1 DEF Write, Types, Maps, IsMap
<1>3. d \in Documents(call[q]) /\ old \in Seq(Events)
  BY <1>0 DEF StageFits, Types, Maps
<1>4. d.parent = call[q].parent
  BY <1>3 DEF Documents
<1>5. /\ DOMAIN Append(old, e) = 1..(Len(old) + 1) /\ DOMAIN old = 1..Len(old) /\ Len(old) \in Nat
      /\ Append(old, e)[Len(old) + 1] = e /\ \A n \in 1..Len(old) : Append(old, e)[n] = old[n]
  BY <1>3, LenProperties, AppendProperties
<1>6. e.key = d.key /\ e.parent = d.parent /\ e.action \in {"created", "updated"}
      /\ (e.action = "created" <=> d.isNew)
  OBVIOUS
<1> HIDE DEF e
<1>7. \A n \in DOMAIN old : old[n].key \in DOMAIN mine[q] /\ old[n].parent = call[q].parent
                              /\ old[n].action \in {"created", "updated"}
  BY <1>0 DEF TasksFit, Working
<1>8. \A k \in DOMAIN mine[q] : \E n \in DOMAIN old : old[n].key = k
  BY <1>0 DEF TasksFit, Working
<1>9. TasksFit(q)'
  <2>1. \A n \in DOMAIN tasks'[q] :
          tasks'[q][n].key \in DOMAIN mine'[q] /\ tasks'[q][n].parent = call[q].parent
            /\ tasks'[q][n].action \in {"created", "updated"}
    BY <1>1, <1>2, <1>4, <1>5, <1>6, <1>7
  <2>2. ASSUME NEW k \in DOMAIN mine'[q] PROVE \E n \in DOMAIN tasks'[q] : tasks'[q][n].key = k
    <3>1. CASE k = d.key
      BY <1>1, <1>5, <1>6, <3>1
    <3>2. CASE k # d.key
      <4>1. PICK n \in DOMAIN old : old[n].key = k
        BY <1>2, <1>8, <3>2
      <4>2. n \in DOMAIN tasks'[q] /\ tasks'[q][n] = old[n]
        BY <1>1, <1>5
      <4>3. QED
        BY <4>1, <4>2
    <3>3. QED
      BY <3>1, <3>2
  <2>3. QED
    BY <1>1, <2>1, <2>2 DEF TasksFit, Batch, Working
<1>10. ASSUME NEW n \in 1..(Len(old) + 1), IsFirst(q, n)'
       PROVE  TellsTruth(q, tasks[q][n].action = "created", tasks[q][n])'
  <2>1. CASE n \in 1..Len(old)
    <3>1. IsFirst(q, n)
      BY <1>1, <1>5, <1>10, <2>1 DEF IsFirst
    <3>2. TellsTruth(q, old[n].action = "created", old[n])
      BY <1>0, <1>5, <2>1, <3>1 DEF EventsFit, Working
    <3>3. tasks'[q][n] = old[n]
      BY <1>1, <1>5, <2>1
    <3>4. QED
      BY <1>1, <3>2, <3>3 DEF TellsTruth, Known
  <2>2. CASE n = Len(old) + 1
    <3>1. tasks'[q][n] = e
      BY <1>1, <1>5, <2>2
    <3>2. \A m \in 1..Len(old) : old[m].key # d.key
      BY <1>1, <1>5, <1>6, <1>10, <2>2, <3>1 DEF IsFirst
    <3>3. d.key \notin DOMAIN mine[q]
      BY <1>5, <1>8, <3>2
    <3>4. TellsTruth(q, d.isNew, d)
      BY <1>0, <3>3 DEF EventsFit
    <3>5. QED
      BY <1>1, <1>6, <3>1, <3>4 DEF TellsTruth, Known
  <2>3. QED
    BY <1>5, <2>1, <2>2
<1>11. EventsFit(q)'
  <2>1. pc'[q] \notin {"check", "write"}
    BY <1>1
  <2>2. \A n \in DOMAIN tasks'[q] : IsFirst(q, n)' =>
          TellsTruth(q, tasks[q][n].action = "created", tasks[q][n])'
    BY <1>1, <1>5, <1>10
  <2>3. QED
    BY <2>1, <2>2 DEF EventsFit
<1>12. QED
  BY <1>9, <1>11

\* The request that acts announces what it writes, and tells the truth.
LEMMA OwnTells ==
  ASSUME EventInv, NEW q \in Requests, Acts(q)
  PROVE  TasksFit(q)' /\ EventsFit(q)'
<1>0. Base /\ TasksFit(q) /\ EventsFit(q) /\ StageFits(q) /\ MineFits(q) /\ Types /\ IsTable(table)
      /\ (pc[q] = "idle" <=> call[q] = Null)
  BY BaseMakes DEF EventInv, Base, TypeOK
<1>1. pc \in [Requests -> Stages] /\ tasks \in [Requests -> Seq(Events)]
      /\ call \in [Requests -> Calls \cup {Null}]
  BY <1>0 DEF Types, Maps
<1>2. ASSUME NEW code, Refuse(q, code), pc[q] \in Working PROVE TasksFit(q)' /\ EventsFit(q)'
  <2>1. CASE Batch(q)
    <3>1. /\ pc'[q] \in {"read", "commit"} /\ call' = call /\ mine' = mine /\ tasks' = tasks
          /\ table' = table
      BY <1>1, <1>2, <2>1 DEF Refuse, Batch, NextLine, Goto
    <3>2. QED
      BY <1>0, <1>2, <3>1, TellsStays DEF Working
  <2>2. CASE ~Batch(q)
    <3>1. pc'[q] = "raised"
      BY <1>1, <1>2, <2>2 DEF Refuse, Batch, Raise, Settle, Goto
    <3>2. QED
      BY <3>1, TellsNothing
  <2>3. QED
    BY <2>1, <2>2
<1>3. ASSUME NEW code, Raise(q, code) PROVE TasksFit(q)' /\ EventsFit(q)'
  <2>1. pc'[q] = "raised"
    BY <1>1, <1>3 DEF Raise, Settle, Goto
  <2>2. QED
    BY <2>1, TellsNothing
<1>4. CASE \E c \in Calls : Receive(q, c)
  <2>1. pc[q] = "idle" /\ pc'[q] \in {"find", "received"} /\ tasks' = tasks
    BY <1>1, <1>4 DEF Receive, Goto
  <2>2. tasks'[q] = <<>>
    BY <1>0, <2>1 DEF TasksFit, Working
  <2>3. QED
    BY <2>1, <2>2, TellsNothing DEF Working
<1>5. CASE StartHandler(q) \/ BodyArrives(q)
  <2>1. /\ pc[q] \in {"received", "body"} /\ pc'[q] \in {"parent", "read"} /\ tasks' = tasks
        /\ mine' = mine
    BY <1>1, <1>5 DEF StartHandler, BodyArrives, Goto
  <2>2. tasks'[q] = <<>> /\ DOMAIN mine'[q] = {}
    BY <1>0, <2>1 DEF TasksFit, MineFits, Working
  <2>3. QED
    BY <2>1, <2>2, TellsNothing
<1>6. CASE CheckParent(q) /\ ~\E code \in {404, 422} : Raise(q, code)
  <2>1. pc[q] = "parent" /\ pc'[q] = "body" /\ tasks' = tasks
    BY <1>1, <1>6 DEF CheckParent, Goto
  <2>2. tasks'[q] = <<>>
    BY <1>0, <2>1 DEF TasksFit, Working
  <2>3. QED
    BY <2>1, <2>2, TellsNothing DEF Working
<1>7. CASE ReadPost(q) \/ ReadPatch(q)
  BY <1>0, <1>2, <1>3, <1>7, ReadStep, PreparedTells DEF Working
<1>8. CASE Check(q)
  <2>1. \/ Refuse(q, 422)
        \/ Goto(q, "write") /\ UNCHANGED <<table, mine, loop, call, at, doc, reply, results, tasks, moved>>
    BY ONLY <1>8 DEF Check
  <2>2. pc[q] = "check"
    BY <1>8 DEF Check
  <2>3. CASE Goto(q, "write") /\ UNCHANGED <<table, mine, loop, call, at, doc, reply, results, tasks, moved>>
    BY <1>0, <1>1, <2>2, <2>3, TellsStays DEF Goto, Working
  <2>4. QED
    BY <1>2, <2>1, <2>2, <2>3 DEF Working
<1>9. CASE Save(q) /\ ~Raise(q, 422)
  <2>1. CASE Batch(q)
    BY <1>9, <2>1, SavedTells
  <2>2. CASE ~Batch(q)
    <3>1. pc'[q] = "done"
      BY <1>1, <1>9, <2>2 DEF Save, Batch, Settle, Goto
    <3>2. QED
      BY <3>1, TellsNothing
  <2>3. QED
    BY <2>1, <2>2
<1>10. CASE Commit(q) \/ DeleteCommit(q) \/ DispatchExit(q) \/ Rollback(q)
  <2>1. pc'[q] \in {"exiting", "done"}
    BY <1>1, <1>10 DEF Commit, DeleteCommit, DispatchExit, Rollback, Settle, Goto
  <2>2. QED
    BY <2>1, TellsNothing
<1>11. CASE Respond(q)
  <2>1. pc'[q] = "idle" /\ tasks'[q] = <<>>
    BY <1>1, <1>11 DEF Respond, Goto
  <2>2. QED
    BY <2>1, TellsNothing DEF Working
<1>12. CASE (DeleteFind(q) /\ ~Raise(q, 404)) \/ DeleteRow(q)
  <2>1. /\ pc[q] \in {"find", "delete"} /\ pc'[q] \in {"delete", "commit"} /\ tasks' = tasks
        /\ call' = call /\ call[q].verb = "delete"
    BY <1>1, <1>12 DEF DeleteFind, DeleteRow, At, Goto
  <2>2. tasks'[q] = <<>> /\ ~Batch(q)'
    BY <1>0, <2>1 DEF TasksFit, Working, Batch
  <2>3. QED
    BY <2>1, <2>2, TellsNothing
<1>13. QED
  BY <1>3, <1>4, <1>5, <1>6, <1>7, <1>8, <1>9, <1>10, <1>11, <1>12 DEF Acts, Server

\* Every step keeps that events tell the truth.
LEMMA EventStep ==
  ASSUME EventInv, [Next]_vars
  PROVE  EventInv'
<1>1. Base'
  BY BaseStep DEF EventInv
<1>2. ASSUME NEW q \in Requests, Acts(q), NEW r \in Requests PROVE TasksFit(r)' /\ EventsFit(r)'
  BY <1>2, OwnTells, OthersTell
<1>3. ASSUME UNCHANGED vars, NEW r \in Requests PROVE TasksFit(r)' /\ EventsFit(r)'
  BY <1>3 DEF EventInv, TasksFit, EventsFit, TellsTruth, Known, IsFirst, Batch, vars
<1>4. QED
  BY <1>1, <1>2, <1>3 DEF EventInv, Next, Acts

\* At the start nothing has been announced.
LEMMA EventInit == Init => EventInv
<1>1. ASSUME Init, NEW r \in Requests PROVE TasksFit(r) /\ EventsFit(r)
  BY <1>1 DEF Init, TasksFit, EventsFit, Working
<1>2. QED
  BY <1>1, BaseInit DEF EventInv

\* So they tell it in every reachable state.
LEMMA EventInvariance == Spec => []EventInv
<1>1. EventInv /\ [Next]_vars => EventInv'
  BY EventStep
<1>2. QED
  BY <1>1, EventInit, PTL DEF Spec


EventOf(action, d) == [action |-> action, key |-> d.key, parent |-> d.parent]

\* Who commits, and what is announced and stored.
LEMMA CommitIs ==
  ASSUME EventInv, NEW q \in Requests, Acts(q), NEW r \in Requests, Commits(r)
  PROVE  /\ r = q /\ call[q] # Null
         /\ \/ /\ Commit(q) /\ call[q].verb = "batch" /\ pc[q] = "commit"
               /\ tasks' = tasks /\ table' = View(q)
            \/ /\ DeleteCommit(q) /\ call[q].verb = "delete" /\ Line(q).key \in Keys
               /\ tasks'[q] = <<EventOf("deleted", [key |-> Line(q).key, parent |-> Null])>>
            \/ /\ Save(q) /\ call[q].verb \in {"post", "patch"} /\ pc[q] = "write"
               /\ doc[q] \in Documents(call[q]) /\ doc[q].val # Bad
               /\ table' = [table EXCEPT ![doc[q].key] = Upserted(table, doc[q])]
               /\ tasks'[q] = <<EventOf(IF doc[q].isNew THEN "created" ELSE "updated", doc[q])>>
<1>0. Base /\ TasksFit(q) /\ StageFits(q) /\ Types /\ (pc[q] = "idle" <=> call[q] = Null)
  BY BaseMakes DEF EventInv, Base, TypeOK
<1>1. pc \in [Requests -> Stages] /\ reply \in [Requests -> {0, 200, 201, 204, 404, 409, 422}]
      /\ tasks \in [Requests -> Seq(Events)]
  BY <1>0 DEF Types, Maps
<1>2. r = q
  <2>1. r # q => pc'[r] = pc[r]
    BY <1>0, OthersUnmoved DEF Unmoved
  <2>2. QED
    BY <2>1 DEF Commits
<1>3. pc[q] # "done" /\ pc'[q] = "done" /\ reply'[q] \in {200, 201, 204}
  BY <1>2 DEF Commits
<1>4. Save(q) \/ Commit(q) \/ DeleteCommit(q)
  <2>1. ASSUME NEW code, Refuse(q, code) PROVE FALSE
    BY <1>1, <1>3, <2>1 DEF Refuse, Raise, Settle, NextLine, Goto
  <2>2. ASSUME NEW code, Raise(q, code) PROVE FALSE
    BY <1>1, <1>3, <2>2 DEF Raise, Settle, Goto
  <2>3. ASSUME NEW found, NEW v, Prepare(q, found, v) PROVE FALSE
    BY <1>1, <1>3, <2>3 DEF Prepare, Goto
  <2>4. ~(ReadPost(q) \/ ReadPatch(q))
    BY <1>0, <2>1, <2>2, <2>3, ReadStep
  <2>5. ~Check(q)
    <3>1. Check(q) => Refuse(q, 422) \/ Goto(q, "write")
      BY DEF Check
    <3>2. ~Goto(q, "write")
      BY <1>1, <1>3 DEF Goto
    <3>3. QED
      BY <2>1, <3>1, <3>2
  <2>6. ~Rollback(q)
    BY <1>0, <1>1, <1>3 DEF Rollback, StageFits
  <2>7. ~(CheckParent(q) \/ DeleteFind(q))
    BY <1>1, <1>3, <2>2 DEF CheckParent, DeleteFind, Goto
  <2>8. ~(StartHandler(q) \/ BodyArrives(q) \/ DeleteRow(q) \/ DispatchExit(q) \/ Respond(q)
          \/ \E c \in Calls : Receive(q, c))
    BY <1>1, <1>3 DEF StartHandler, BodyArrives, DeleteRow, DispatchExit, Respond, Receive, Goto
  <2>9. QED
    BY <2>4, <2>5, <2>6, <2>7, <2>8 DEF Acts, Server
<1>5. CASE Save(q)
  <2>1. pc[q] = "write" /\ call[q] # Null /\ doc[q] \in Documents(call[q]) /\ ~Raise(q, 422)
    <3>1. ~Raise(q, 422)
      BY <1>1, <1>3 DEF Raise, Settle, Goto
    <3>2. QED
      BY <1>0, <1>5, <3>1 DEF Save, StageFits
  <2>2. ~Batch(q)
    BY <1>1, <1>3, <1>5, <2>1 DEF Save, Batch, NextLine, Goto
  <2>3. call[q].verb \in {"post", "patch"}
    BY <1>0, <1>5, <2>1, <2>2, CallFits DEF Save, Batch, Base
  <2>4. tasks[q] = <<>>
    BY <1>0, <2>1, <2>2 DEF TasksFit, Working
  <2> DEFINE e == EventOf(IF doc[q].isNew THEN "created" ELSE "updated", doc[q])
  <2>5. tasks'[q] = <<e>>
    <3>1. tasks'[q] = Append(tasks[q], e)
      BY <1>1, <1>5, <2>1 DEF Save, Announce, EventOf
    <3> HIDE DEF e
    <3>2. QED
      BY <2>4, <3>1
  <2>6. doc[q].val # Bad /\ table' = [table EXCEPT ![doc[q].key] = Upserted(table, doc[q])]
    BY <1>5, <2>1, <2>2 DEF Save, Batch, Store
  <2> HIDE DEF e
  <2>7. QED
    BY <1>2, <1>5, <2>1, <2>3, <2>5, <2>6 DEF e
<1>6. CASE Commit(q)
  BY <1>0, <1>2, <1>6 DEF Commit, At, Store
<1>7. CASE DeleteCommit(q)
  <2>1. pc[q] = "commit" /\ call[q] # Null /\ call[q].verb = "delete"
    BY <1>0, <1>7 DEF DeleteCommit, At
  <2>2. tasks[q] = <<>>
    BY <1>0, <2>1 DEF TasksFit, Working, Batch
  <2> DEFINE e == EventOf("deleted", [key |-> Line(q).key, parent |-> Null])
  <2>3. tasks'[q] = <<e>>
    <3>1. tasks'[q] = Append(tasks[q], e)
      BY <1>1, <1>7 DEF DeleteCommit, Announce, EventOf
    <3> HIDE DEF e
    <3>2. QED
      BY <2>2, <3>1
  <2>4. Line(q).key \in Keys
    <3>1. at[q] \in DOMAIN call[q].lines
      BY <1>0, <2>1 DEF StageFits, Batch
    <3>2. Line(q) \in Lines(call[q].kind) /\ at[q] = 1 /\ Line(q).key # Absent
      BY <1>0, <2>1, <3>1, CallFits, LenProperties DEF Base, Line
    <3>3. QED
      BY <1>0, <2>1, <3>2, CallFits, KindOfCode DEF Base, Lines
  <2>5. QED
    BY <1>2, <1>7, <2>1, <2>3, <2>4
<1>8. QED
  BY <1>4, <1>5, <1>6, <1>7

\* What AcceptedIsStored says of the events of a step.
LEMMA StoredStep ==
  ASSUME EventInv, NEW q \in Requests, Acts(q), NEW r \in Requests, Commits(r),
         call[r].verb # "delete", NEW n \in DOMAIN tasks'[r]
  PROVE  table'[tasks'[r][n].key] # Null
         /\ table'[tasks'[r][n].key].parent = tasks'[r][n].parent
<1>0. TypeOK /\ IsTable(table) /\ TasksFit(q) /\ MineFits(q) /\ r = q /\ call[q] # Null
  BY CommitIs DEF EventInv, Base, TypeOK
<1>1. CASE /\ call[q].verb = "batch" /\ pc[q] = "commit" /\ tasks' = tasks /\ table' = View(q)
  <2> DEFINE e == tasks[q][n]
  <2>1. e.key \in DOMAIN mine[q] /\ e.parent = call[q].parent
    BY <1>0, <1>1 DEF TasksFit, Working, Batch
  <2>2. mine[q][e.key] \in Rows(call[q].kind) /\ mine[q][e.key].parent = call[q].parent
    BY <1>0, <1>1, <2>1 DEF MineFits
  <2>3. mine[q][e.key] # Null
    BY <1>0, <2>2, CallFits, CatalogAssumption
  <2>4. e.key \in Keys
    BY <1>0, <2>1 DEF TypeOK
  <2>5. table'[e.key] = mine[q][e.key]
    BY <1>1, <2>1, <2>4 DEF View
  <2>6. QED
    BY <1>0, <1>1, <2>1, <2>2, <2>3, <2>5
<1>2. CASE /\ doc[q] \in Documents(call[q]) /\ doc[q].val # Bad
           /\ table' = [table EXCEPT ![doc[q].key] = Upserted(table, doc[q])]
           /\ tasks'[q] = <<EventOf(IF doc[q].isNew THEN "created" ELSE "updated", doc[q])>>
  <2>1. tasks'[q][n].key = doc[q].key /\ tasks'[q][n].parent = doc[q].parent
    <3> DEFINE e == EventOf(IF doc[q].isNew THEN "created" ELSE "updated", doc[q])
    <3>1. e.key = doc[q].key /\ e.parent = doc[q].parent
      BY DEF EventOf
    <3> HIDE DEF e
    <3>2. tasks'[q][n] = e
      BY <1>0, <1>2 DEF e
    <3>3. QED
      BY <3>1, <3>2
  <2>2. call[q].kind \in Kinds /\ call[q].parent \in ParentsOf(call[q].kind)
    BY <1>0, CallFits
  <2>3. Upserted(table, doc[q]) \in Rows(call[q].kind)
        /\ Upserted(table, doc[q]).parent = call[q].parent
    BY <1>0, <1>2, <2>2, UpsertedIsRow
  <2>4. doc[q].key \in Keys /\ doc[q].parent = call[q].parent
    BY <1>2, <2>2, KindOfCode DEF Documents
  <2>5. table'[doc[q].key] = Upserted(table, doc[q])
    BY <1>0, <1>2, <2>4 DEF IsTable
  <2>6. Upserted(table, doc[q]) # Null
    BY <2>2, <2>3, CatalogAssumption
  <2>7. QED
    BY <1>0, <2>1, <2>3, <2>4, <2>5, <2>6
<1>3. QED
  BY <1>0, <1>1, <1>2, CommitIs

\* And of the rows: whoever changes one has announced it.
LEMMA AnnouncedStep ==
  ASSUME EventInv, NEW q \in Requests, Acts(q), NEW k \in Keys, table'[k] # table[k]
  PROVE  Commits(q) /\ \E n \in DOMAIN tasks'[q] : tasks'[q][n].key = k
<1>0. Base /\ TasksFit(q)
  BY DEF EventInv
<1>1. Commits(q)
  BY <1>0, RowChange
<1>2. CASE Commit(q)
  <2>1. pc[q] = "commit" /\ call[q].verb = "batch" /\ tasks' = tasks
    BY <1>2 DEF Commit, At
  <2>2. k \in DOMAIN mine[q]
    BY <1>0, <1>2, <2>1, RowChange DEF Save
  <2>3. QED
    BY <1>0, <1>1, <2>1, <2>2 DEF TasksFit, Working, Batch
<1>3. CASE DeleteCommit(q) /\ tasks'[q] = <<EventOf("deleted", [key |-> Line(q).key, parent |-> Null])>>
  <2>1. k = Line(q).key
    BY <1>0, <1>3, RowChange DEF Save, Commit, DeleteCommit, At
  <2>2. 1 \in DOMAIN tasks'[q] /\ tasks'[q][1].key = k
    BY <1>3, <2>1 DEF EventOf
  <2>3. QED
    BY <1>1, <2>2
<1>4. CASE Save(q) /\ pc[q] = "write"
           /\ tasks'[q] = <<EventOf(IF doc[q].isNew THEN "created" ELSE "updated", doc[q])>>
  <2>1. k = doc[q].key
    BY <1>0, <1>4, RowChange DEF Commit, DeleteCommit, At
  <2>2. 1 \in DOMAIN tasks'[q] /\ tasks'[q][1].key = k
    <3> DEFINE e == EventOf(IF doc[q].isNew THEN "created" ELSE "updated", doc[q])
    <3>1. e.key = k
      BY <2>1 DEF EventOf
    <3> HIDE DEF e
    <3>2. QED
      BY <1>4, <3>1 DEF e
  <2>3. QED
    BY <1>1, <2>2
<1>5. QED
  BY <1>1, <1>2, <1>3, <1>4, CommitIs

\* What EventsMatchRows says of one step.
LEMMA MatchStep ==
  ASSUME EventInv, NEW q \in Requests, Acts(q), NEW r \in Requests, Commits(r),
         NEW n \in DOMAIN tasks'[r],
         \A m \in 1..(n - 1) : tasks'[r][m].key # tasks'[r][n].key
  PROVE  LET e == tasks'[r][n] IN
         /\ e.action = "created" /\ Known(e) => call[r].verb = "post" /\ e.key \in Children
         /\ e.action = "updated" /\ ~Known(e) => e.key \in Parents
<1>0. /\ Base /\ TasksFit(q) /\ EventsFit(q) /\ MineFits(q) /\ r = q
      /\ tasks \in [Requests -> Seq(Events)]
  BY CommitIs DEF EventInv, Base, Maps
<1>1. CASE call[q].verb = "batch" /\ pc[q] = "commit" /\ tasks' = tasks
  <2>1. TellsTruth(q, tasks[q][n].action = "created", tasks[q][n])
    BY <1>0, <1>1 DEF EventsFit, IsFirst, Working, Batch
  <2>2. tasks[q][n].action \in {"created", "updated"}
    BY <1>0, <1>1 DEF TasksFit, Working, Batch
  <2>3. QED
    BY <1>0, <1>1, <2>1, <2>2 DEF TellsTruth
<1>2. CASE tasks'[q] = <<EventOf("deleted", [key |-> Line(q).key, parent |-> Null])>>
  <2>1. tasks'[q][n].action = "deleted"
    BY <1>0, <1>2 DEF EventOf
  <2>2. QED
    BY <1>0, <2>1
<1>3. CASE /\ call[q].verb \in {"post", "patch"} /\ pc[q] = "write" /\ call[q] # Null
           /\ tasks'[q] = <<EventOf(IF doc[q].isNew THEN "created" ELSE "updated", doc[q])>>
  <2>1. TellsTruth(q, doc[q].isNew, doc[q])
    BY <1>0, <1>3 DEF EventsFit, MineFits
  <2> DEFINE e == EventOf(IF doc[q].isNew THEN "created" ELSE "updated", doc[q])
  <2>2. /\ e.key = doc[q].key /\ e.parent = doc[q].parent
        /\ e.action = IF doc[q].isNew THEN "created" ELSE "updated"
    BY DEF EventOf
  <2> HIDE DEF e
  <2>3. tasks'[q][n] = e
    BY <1>0, <1>3 DEF e
  <2>4. TellsTruth(q, doc[q].isNew, e)
    BY <2>1, <2>2 DEF TellsTruth, Known
  <2>5. QED
    BY <1>0, <2>2, <2>3, <2>4 DEF TellsTruth
<1>4. QED
  BY <1>0, <1>1, <1>2, <1>3, CommitIs

\* What requests announce when they commit is stored, and nothing else changes the rows:
\* for any number of requests and lines, although handlers read and write in separate
\* transactions and batches report refused lines (rest.py:524-640, 828-1400).
THEOREM AcceptedRowsAreStored == Spec => AcceptedIsStored
<1>1. EventInv /\ [Next]_vars =>
        [/\ \A r \in Requests : Commits(r) /\ call[r].verb # "delete" =>
              \A n \in DOMAIN tasks'[r] :
                LET e == tasks'[r][n] IN table'[e.key] # Null /\ table'[e.key].parent = e.parent
         /\ \A k \in Keys : table'[k] # table[k] =>
              \E r \in Requests : Commits(r) /\ \E n \in DOMAIN tasks'[r] : tasks'[r][n].key = k]_vars
  <2> SUFFICES ASSUME EventInv, Next
               PROVE  /\ \A r \in Requests : Commits(r) /\ call[r].verb # "delete" =>
                           \A n \in DOMAIN tasks'[r] :
                             table'[tasks'[r][n].key] # Null
                               /\ table'[tasks'[r][n].key].parent = tasks'[r][n].parent
                      /\ \A k \in Keys : table'[k] # table[k] =>
                           \E r \in Requests :
                             Commits(r) /\ \E n \in DOMAIN tasks'[r] : tasks'[r][n].key = k
    OBVIOUS
  <2>1. PICK q \in Requests : Acts(q)
    BY DEF Next, Acts
  <2>2. QED
    BY <2>1, StoredStep, AnnouncedStep
<1>2. QED
  BY <1>1, EventInvariance, PTL DEF Spec, AcceptedIsStored

\* The first event about a row says what was there at the commit, although the row was read
\* before, by handlers between which others ran (rest.py:828-1400).
THEOREM EventsTellTruth == Spec => EventsMatchRows
<1>1. EventInv /\ [Next]_vars =>
        [\A r \in Requests : Commits(r) =>
           \A n \in DOMAIN tasks'[r] :
             LET e == tasks'[r][n]
                 known == table[e.key] # Null /\ table[e.key].parent = e.parent IN
             (\A m \in 1..(n - 1) : tasks'[r][m].key # e.key) =>
               /\ e.action = "created" /\ known => call[r].verb = "post" /\ e.key \in Children
               /\ e.action = "updated" /\ ~known => e.key \in Parents]_vars
  <2> SUFFICES ASSUME EventInv, Next, NEW r \in Requests, Commits(r), NEW n \in DOMAIN tasks'[r],
                      \A m \in 1..(n - 1) : tasks'[r][m].key # tasks'[r][n].key
               PROVE  LET e == tasks'[r][n] IN
                      /\ e.action = "created" /\ Known(e) => call[r].verb = "post" /\ e.key \in Children
                      /\ e.action = "updated" /\ ~Known(e) => e.key \in Parents
    BY DEF Known
  <2>1. PICK q \in Requests : Acts(q)
    BY DEF Next, Acts
  <2>2. QED
    BY <2>1, MatchStep
<1>2. QED
  BY <1>1, EventInvariance, PTL DEF Spec, EventsMatchRows

=============================================================================
