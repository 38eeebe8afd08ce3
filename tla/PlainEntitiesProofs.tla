------------------------ MODULE PlainEntitiesProofs ------------------------
(***************************************************************************)
(* Proofs about PlainEntities, for any entities, databases, calls, numbers *)
(* of requests and operations.                                             *)
(***************************************************************************)
EXTENDS PlainEntities, TLAPS

\* Rows and what was read of them, as functions.
Typed ==
  /\ rows \in [Databases -> [Entities -> {Null} \cup Rows]]
  /\ old \in [Requests -> {Null} \cup Rows]

\* Which verbs get where.
StageFits ==
  \A r \in Requests :
    /\ pc[r] \in {"body", "columns", "select", "write"} => call[r].verb # "delete"
    /\ pc[r] = "columns" => call[r].verb = "patch"
    /\ pc[r] \in {"find", "delete"} => call[r].verb = "delete"

\* A handler has the loop from its first statement to its commit, on a database with
\* tables once a SELECT has worked.
LoopFits ==
  \A r \in Requests :
    /\ pc[r] \in {"columns", "select", "write"} => loop = r
    /\ pc[r] = "write" => call[r].db \in ready

\* What is remembered of a table with columns are all of them, or none, which some
\* PATCH has spoiled; a stored entity has its columns remembered.
CacheFits ==
  \A e \in Columned :
    /\ columns[e] \in {Null, {}, Props}
    /\ columns[e] = {} => e \in spoiled
    /\ columns[e] = Null => e \notin written

\* A PATCH that has to compare has asked for the columns first.
ColumnsKnown ==
  \A r \in Requests :
    pc[r] \in {"select", "write"} /\ call[r].verb = "patch" /\ Compared(call[r].body) # {} =>
      columns[call[r].entity] # Null

\* What a handler is about to merge is the row as it is in the columns it selects,
\* unless the row was deleted since.
OldFits ==
  \A r \in Requests :
    pc[r] = "write" =>
      /\ old[r] \in Rows
      /\ Row(r) # Null =>
           \A p \in Props : old[r][p] = IF p \in Selected(r) THEN Row(r)[p] ELSE Absent

CInv == TypeOK /\ Typed /\ StageFits /\ LoopFits /\ CacheFits
PInv == CInv /\ ColumnsKnown /\ OldFits

----------------------------------------------------------------------------
(* Rows and bodies. *)

\* The calls clients send have bodies.
LEMMA CallFits ==
  ASSUME NEW c \in Calls
  PROVE  /\ c # Null /\ c.verb \in {"post", "patch", "batch", "delete"}
         /\ c.db \in Databases /\ c.entity \in Entities /\ c.body \in Bodies
BY PlainAssumption DEF IsCall

\* What is neither a scalar nor null is an object, and stands where objects do.
LEMMA ObjectCell ==
  ASSUME NEW p \in Props, NEW v \in {Absent, Nulled} \cup PropValues(p), IsObject(v)
  PROVE  p \in Objects /\ v \in SUBSET Keys
<1>1. v \in PropValues(p) /\ v # Wrong /\ v \notin Values
  BY DEF IsObject
<1> QED
  BY <1>1 DEF PropValues, ObjectValues

\* A merge gives a value that may stand where it stands.
LEMMA PatchedCell ==
  ASSUME NEW row \in Rows, NEW body \in Bodies, NEW p \in Props
  PROVE  Patched(row, body)[p] \in {Absent, Nulled} \cup PropValues(p)
<1>1. /\ row[p] \in {Absent, Nulled} \cup PropValues(p)
      /\ body[p] \in {Absent, Nulled} \cup PropValues(p)
  BY DEF Rows, Bodies
<1>2. CASE IsObject(row[p]) /\ IsObject(body[p]) /\ body[p] # Absent
  <2>1. p \in Objects /\ row[p] \in SUBSET Keys /\ body[p] \in SUBSET Keys
    BY <1>1, <1>2, ObjectCell
  <2>2. Patched(row, body)[p] = row[p] \cup body[p]
    BY <1>2 DEF Patched
  <2> QED
    BY <2>1, <2>2 DEF PropValues, ObjectValues
<1>3. CASE ~(IsObject(row[p]) /\ IsObject(body[p]) /\ body[p] # Absent)
  BY <1>1, <1>3 DEF Patched
<1> QED
  BY <1>2, <1>3

\* What can be stored of a document that a merge has made are the cells of a row.
LEMMA StoredCell ==
  ASSUME NEW row \in Rows, NEW body \in Bodies, NEW e, NEW p \in Props,
         NEW doc \in {Patched(row, body), Dumped(e, Patched(row, body))}
  PROVE  doc[p] \in {Absent, Nulled} \cup PropValues(p)
BY PatchedCell DEF Dumped

\* So that the row stored is a row.
LEMMA StoredIsRow ==
  ASSUME NEW row \in Rows, NEW body \in Bodies, NEW e, NEW was \in Rows \cup {Null}, NEW cols,
         NEW doc \in {Patched(row, body), Dumped(e, Patched(row, body))}
  PROVE  Upserted(was, doc, cols) \in Rows /\ Replaced(doc) \in Rows
<1> DEFINE Cell(p) == {Absent} \cup PropValues(p)
<1>1. ASSUME NEW p \in Props
      PROVE  Upserted(was, doc, cols)[p] \in Cell(p) /\ Replaced(doc)[p] \in Cell(p)
  <2>1. doc[p] \in {Absent, Nulled} \cup PropValues(p)
    BY StoredCell
  <2>2. was # Null => was[p] \in Cell(p)
    BY DEF Rows
  <2> QED
    BY <2>1, <2>2 DEF Upserted, Replaced
<1>2. \A p \in Props : Cell(p) \subseteq AnyValue
  BY DEF PropValues, AnyValue
<1>3. /\ Upserted(was, doc, cols) = [p \in Props |-> Upserted(was, doc, cols)[p]]
      /\ Replaced(doc) = [p \in Props |-> Replaced(doc)[p]]
  BY DEF Upserted, Replaced
<1> HIDE DEF Cell
<1>4. /\ Upserted(was, doc, cols) \in [Props -> AnyValue]
      /\ Replaced(doc) \in [Props -> AnyValue]
  BY <1>1, <1>2, <1>3
<1> QED
  BY <1>1, <1>4 DEF Rows, Cell

----------------------------------------------------------------------------
(* The invariant. *)

LEMMA PInvInit == Init => PInv
<1> SUFFICES ASSUME Init PROVE PInv
  OBVIOUS
<1>1. TypeOK /\ Typed
  BY PlainAssumption DEF Init, TypeOK, Typed, NoRows
<1>2. CacheFits
  <2>1. {} # Null
    BY PlainAssumption
  <2> QED
    BY <2>1 DEF Init, CacheFits, Entities
<1>3. StageFits /\ LoopFits /\ ColumnsKnown /\ OldFits
  BY DEF Init, StageFits, LoopFits, ColumnsKnown, OldFits
<1> QED
  BY <1>1, <1>2, <1>3 DEF PInv, CInv

\* A request that stands anywhere but at the beginning has a call.
LEMMA HasCall ==
  ASSUME PInv, NEW r \in Requests, pc[r] # "idle"
  PROVE  /\ call[r] \in Calls
         /\ call[r].verb \in {"post", "patch", "batch", "delete"}
         /\ call[r].db \in Databases /\ call[r].entity \in Entities /\ call[r].body \in Bodies
<1>1. call[r] \in Calls
  BY DEF PInv, CInv, TypeOK
<1> QED
  BY <1>1, CallFits

\* A request that ends and writes nothing disturbs nobody.
LEMMA EndStep ==
  ASSUME PInv, NEW r \in Requests, pc[r] # "idle",
         NEW code \in {404, 409, 422, 500}, Refuse(r, code)
  PROVE  PInv'
<1>1. /\ pc' = [pc EXCEPT ![r] = "done"] /\ reply' = [reply EXCEPT ![r] = code]
      /\ loop' = IF loop = r THEN Null ELSE loop
      /\ UNCHANGED <<rows, ready, columns, call, old, broken, written, spoiled, count>>
  BY DEF Refuse, Answer, Goto
<1>2. \A q \in Requests : /\ pc'[q] = "done" \/ (q # r /\ pc'[q] = pc[q])
                          /\ call'[q] = call[q] /\ old'[q] = old[q]
  BY <1>1 DEF PInv, CInv, TypeOK
<1>3. TypeOK' /\ Typed'
  BY <1>1 DEF PInv, CInv, TypeOK, Typed
<1>4. StageFits' /\ CacheFits'
  BY <1>1, <1>2 DEF PInv, CInv, StageFits, CacheFits
<1>5. LoopFits'
  BY <1>1, <1>2 DEF PInv, CInv, LoopFits
<1>6. ColumnsKnown'
  BY <1>1, <1>2 DEF PInv, ColumnsKnown
<1>7. OldFits'
  <2>1. \A q \in Requests : Row(q)' = Row(q) /\ Selected(q)' = Selected(q)
    BY <1>1 DEF Row, Selected
  <2> QED
    BY <1>1, <1>2, <2>1 DEF PInv, OldFits
<1> QED
  BY <1>3, <1>4, <1>5, <1>6, <1>7 DEF PInv, CInv

\* A request is received, or its body arrives.
LEMMA ReceiveStep ==
  ASSUME PInv, NEW r \in Requests, NEW c \in Calls, Receive(r, c)
  PROVE  PInv'
<1>1. /\ pc' = [pc EXCEPT ![r] = IF c.verb = "delete" THEN "find" ELSE "body"]
      /\ call' = [call EXCEPT ![r] = c]
      /\ UNCHANGED <<rows, ready, columns, loop, old, reply, broken, written, spoiled, count>>
  BY DEF Receive, Goto
<1>2. c # Null
  BY CallFits
<1>3. /\ pc'[r] \in {"find", "body"} /\ call'[r] = c
      /\ pc'[r] = "find" <=> c.verb = "delete"
      /\ \A q \in Requests \ {r} : pc'[q] = pc[q] /\ call'[q] = call[q]
  BY <1>1 DEF PInv, CInv, TypeOK
<1>4. TypeOK' /\ Typed'
  BY <1>1, <1>2, <1>3 DEF PInv, CInv, TypeOK, Typed
<1>5. StageFits' /\ CacheFits'
  BY <1>1, <1>3 DEF PInv, CInv, StageFits, CacheFits
<1>6. LoopFits'
  BY <1>1, <1>3 DEF PInv, CInv, LoopFits
<1>7. ColumnsKnown'
  BY <1>1, <1>3 DEF PInv, ColumnsKnown
<1>8. OldFits'
  <2>1. \A q \in Requests \ {r} : Row(q)' = Row(q) /\ Selected(q)' = Selected(q)
    BY <1>1, <1>3 DEF Row, Selected
  <2> QED
    BY <1>1, <1>3, <2>1 DEF PInv, OldFits
<1> QED
  BY <1>4, <1>5, <1>6, <1>7, <1>8 DEF PInv, CInv

LEMMA BodyStep ==
  ASSUME PInv, NEW r \in Requests, BodyArrives(r)
  PROVE  PInv'
<1> DEFINE stage == IF call[r].verb = "patch" /\ Compared(call[r].body) # {}
                    THEN "columns" ELSE "select"
<1>1. /\ pc[r] = "body" /\ loop = Null /\ loop' = r
      /\ pc' = [pc EXCEPT ![r] = stage]
      /\ UNCHANGED <<rows, ready, columns, call, old, reply, broken, written, spoiled, count>>
  BY DEF BodyArrives, Goto
<1>2. /\ pc'[r] = stage /\ \A q \in Requests \ {r} : pc'[q] = pc[q]
  BY <1>1 DEF PInv, CInv, TypeOK
<1>3. \A q \in Requests : pc[q] \notin {"columns", "select", "write"}
  BY <1>1, PlainAssumption DEF PInv, CInv, LoopFits
<1>4. TypeOK' /\ Typed'
  BY <1>1 DEF PInv, CInv, TypeOK, Typed
<1>5. StageFits' /\ CacheFits'
  BY <1>1, <1>2 DEF PInv, CInv, StageFits, CacheFits
<1>6. LoopFits'
  BY <1>1, <1>2, <1>3 DEF LoopFits
<1>7. ColumnsKnown'
  BY <1>1, <1>2, <1>3 DEF ColumnsKnown
<1>8. OldFits'
  BY <1>1, <1>2, <1>3 DEF OldFits
<1> QED
  BY <1>4, <1>5, <1>6, <1>7, <1>8 DEF PInv, CInv

\* Another request's handler is under way only where the loop is taken.
LEMMA OthersWait ==
  ASSUME PInv, NEW r \in Requests, pc[r] \in {"columns", "select", "write"}
  PROVE  loop = r /\ \A q \in Requests \ {r} : pc[q] \notin {"columns", "select", "write"}
BY DEF PInv, CInv, LoopFits

LEMMA ColumnsStep ==
  ASSUME PInv, NEW r \in Requests, ReadColumns(r)
  PROVE  PInv'
<1> DEFINE d == call[r].db
           e == call[r].entity
           cols == Remembered(d, e)
<1>0. /\ pc[r] = "columns" /\ call[r] \in Calls /\ call[r].verb = "patch"
      /\ d \in Databases /\ e \in Entities /\ call[r].body \in Bodies
  BY HasCall DEF ReadColumns, PInv, CInv, StageFits
<1>1. CASE Refuse(r, 500)
  BY <1>0, <1>1, EndStep
<1>2. CASE /\ columns' = [columns EXCEPT ![e] = cols]
           /\ spoiled' = IF d \notin ready /\ e \notin written THEN spoiled \cup {e} ELSE spoiled
           /\ Goto(r, "select")
           /\ UNCHANGED <<rows, ready, loop, call, old, reply, broken, written, count>>
  <2>1. /\ pc' = [pc EXCEPT ![r] = "select"] /\ pc'[r] = "select"
        /\ \A q \in Requests \ {r} : pc'[q] = pc[q]
    BY <1>2 DEF Goto, PInv, CInv, TypeOK
  <2>2. cols \in SUBSET Props /\ cols # Null
    BY <1>0, PlainAssumption DEF Remembered, ColumnsOf, PInv, CInv, TypeOK
  <2>3. /\ columns'[e] = cols /\ \A f \in Entities \ {e} : columns'[f] = columns[f]
    BY <1>0, <1>2 DEF PInv, CInv, TypeOK
  <2>4. \A q \in Requests \ {r} : pc[q] \notin {"columns", "select", "write"}
    BY <1>0, OthersWait
  <2>5. TypeOK' /\ Typed'
    <3>1. columns' \in [Entities -> {Null} \cup SUBSET Props]
      BY <1>2, <2>2 DEF PInv, CInv, TypeOK
    <3>2. spoiled' \subseteq Entities
      BY <1>0, <1>2 DEF PInv, CInv, TypeOK
    <3> HIDE DEF cols
    <3> QED
      BY <1>0, <1>2, <2>1, <3>1, <3>2 DEF PInv, CInv, TypeOK, Typed
  <2>6. StageFits'
    BY <1>0, <1>2, <2>1 DEF PInv, CInv, StageFits
  <2>7. LoopFits'
    BY <1>0, <1>2, <2>1 DEF PInv, CInv, LoopFits
  <2>8. CacheFits'
    <3>1. CASE e \in Columned
      <4>1. /\ columns[e] \in {Null, {}, Props}
            /\ columns[e] = {} => e \in spoiled
            /\ columns[e] = Null => e \notin written
        BY <3>1 DEF PInv, CInv, CacheFits
      <4>2. /\ cols \in {{}, Props}
            /\ cols = {} => columns[e] = {} \/ (columns[e] = Null /\ d \notin ready)
        BY <3>1, <4>1, PlainAssumption DEF Remembered, ColumnsOf, Props
      <4>3. cols = {} => e \in spoiled'
        BY <1>2, <4>1, <4>2
      <4> HIDE DEF cols
      <4> QED
        BY <1>2, <2>2, <2>3, <4>2, <4>3 DEF PInv, CInv, CacheFits, Entities
    <3>2. CASE e \notin Columned
      BY <1>2, <2>3, <3>2 DEF PInv, CInv, CacheFits, Entities
    <3> QED
      BY <3>1, <3>2
  <2>9. ColumnsKnown'
    BY <1>2, <2>1, <2>2, <2>3, <2>4 DEF ColumnsKnown
  <2>10. OldFits'
    BY <1>2, <2>1, <2>4 DEF OldFits
  <2> QED
    BY <2>5, <2>6, <2>7, <2>8, <2>9, <2>10 DEF PInv, CInv
<1> QED
  BY <1>1, <1>2 DEF ReadColumns

LEMMA SelectStep ==
  ASSUME PInv, NEW r \in Requests, Select(r)
  PROVE  PInv'
<1> DEFINE read == [p \in Props |-> IF Row(r) # Null /\ p \in Selected(r) THEN Row(r)[p] ELSE Absent]
<1>0. pc[r] = "select" /\ call[r] \in Calls /\ call[r].db \in Databases /\ call[r].entity \in Entities
  BY HasCall DEF Select
<1>1. CASE \E code \in {409, 422, 500} : Refuse(r, code)
  BY <1>0, <1>1, EndStep
<1>2. CASE /\ Works(r)
           /\ old' = [old EXCEPT ![r] = read]
           /\ Goto(r, "write")
           /\ UNCHANGED <<rows, ready, columns, loop, call, reply, broken, written, spoiled, count>>
  <2>1. /\ pc' = [pc EXCEPT ![r] = "write"] /\ pc'[r] = "write"
        /\ \A q \in Requests \ {r} : pc'[q] = pc[q]
    BY <1>2 DEF Goto, PInv, CInv, TypeOK
  <2>2. Row(r) \in {Null} \cup Rows
    BY <1>0 DEF Row, PInv, CInv, TypeOK
  <2>3. read \in Rows
    BY <2>2 DEF Rows, AnyValue
  <2>4. old' \in [Requests -> {Null} \cup Rows] /\ old'[r] = read
    BY <1>2, <2>3 DEF PInv, CInv, Typed
  <2>5. \A q \in Requests \ {r} : pc[q] \notin {"columns", "select", "write"}
    BY <1>0, OthersWait
  <2>6. TypeOK' /\ Typed'
    <3> HIDE DEF read
    <3> QED
      BY <1>0, <1>2, <2>1, <2>4 DEF PInv, CInv, TypeOK, Typed
  <2>7. StageFits' /\ CacheFits'
    BY <1>0, <1>2, <2>1 DEF PInv, CInv, StageFits, CacheFits
  <2>8. LoopFits'
    BY <1>0, <1>2, <2>1 DEF PInv, CInv, LoopFits, Works
  <2>9. ColumnsKnown'
    BY <1>0, <1>2, <2>1, <2>5 DEF PInv, ColumnsKnown
  <2>10. OldFits'
    <3>1. Row(r)' = Row(r) /\ Selected(r)' = Selected(r)
      BY <1>2 DEF Row, Selected
    <3>2. Row(r) # Null => \A p \in Props : read[p] = IF p \in Selected(r) THEN Row(r)[p] ELSE Absent
      OBVIOUS
    <3> HIDE DEF read
    <3> QED
      BY <2>1, <2>3, <2>4, <2>5, <3>1, <3>2 DEF OldFits
  <2> QED
    BY <2>6, <2>7, <2>8, <2>9, <2>10 DEF PInv, CInv
<1> QED
  BY <1>1, <1>2 DEF Select

\* What is remembered when a row is written: all columns of the table, or none.
LEMMA WriteColumns ==
  ASSUME PInv, NEW r \in Requests, pc[r] = "write", call[r].entity \in Columned
  PROVE  LET cols == Remembered(call[r].db, call[r].entity) IN
         /\ cols \in {{}, Props} /\ cols # Null
         /\ cols = {} => columns[call[r].entity] = {} /\ call[r].entity \in spoiled
<1> DEFINE e == call[r].entity
<1>1. /\ columns[e] \in {Null, {}, Props}
      /\ columns[e] = {} => e \in spoiled
      /\ call[r].db \in ready
  BY DEF PInv, CInv, CacheFits, LoopFits
<1>2. Props # {} /\ Props # Null /\ {} # Null
  BY PlainAssumption DEF Props
<1> QED
  BY <1>1, <1>2 DEF Remembered, ColumnsOf

LEMMA WriteStep ==
  ASSUME PInv, NEW r \in Requests, Write(r)
  PROVE  PInv'
<1> DEFINE d == call[r].db
           e == call[r].entity
           batch == call[r].verb = "batch"
           doc == Patched(old[r], call[r].body)
           cols == Remembered(d, e)
           stored == IF batch THEN doc ELSE Dumped(e, doc)
           code == IF batch THEN 200 ELSE IF call[r].verb = "post" THEN 201 ELSE 204
           row == IF e \in Columned THEN Upserted(rows[d][e], stored, cols) ELSE Replaced(stored)
<1>0. /\ pc[r] = "write" /\ call[r] \in Calls /\ d \in Databases /\ e \in Entities
      /\ call[r].body \in Bodies /\ loop = r
  BY HasCall, OthersWait DEF Write
<1>1. CASE Refuse(r, 422)
  BY <1>0, <1>1, EndStep
<1>2. CASE /\ columns' = IF e \in Columned THEN [columns EXCEPT ![e] = cols] ELSE columns
           /\ IF e \in Columned /\ cols = {}
              THEN Answer(r, 500) /\ UNCHANGED <<rows, written>>
              ELSE /\ rows' = [rows EXCEPT ![d][e] =
                                 IF e \in Columned THEN Upserted(@, stored, cols) ELSE Replaced(stored)]
                   /\ written' = written \cup {e}
                   /\ Answer(r, code)
           /\ UNCHANGED <<ready, call, old, broken, spoiled, count>>
  <2>1. /\ pc' = [pc EXCEPT ![r] = "done"] /\ pc'[r] = "done" /\ loop' = Null
        /\ \A q \in Requests \ {r} : pc'[q] = pc[q]
        /\ \E c \in {200, 201, 204, 500} : reply' = [reply EXCEPT ![r] = c]
    BY <1>0, <1>2 DEF Answer, Goto, PInv, CInv, TypeOK
  <2>2. \A q \in Requests : pc'[q] \notin {"columns", "select", "write"}
    BY <1>0, <2>1, OthersWait
  <2>3. e \in Columned => cols \in {{}, Props} /\ cols # Null /\ (cols = {} => columns[e] = {} /\ e \in spoiled)
    BY <1>0, WriteColumns
  <2>4. columns' \in [Entities -> {Null} \cup SUBSET Props]
    <3> HIDE DEF cols
    <3> QED
      BY <1>2, <2>3 DEF PInv, CInv, TypeOK
  <2>5. old[r] \in Rows /\ rows[d][e] \in {Null} \cup Rows
    BY <1>0 DEF PInv, CInv, TypeOK, OldFits
  <2>6. row \in Rows
    <3>1. stored \in {Patched(old[r], call[r].body), Dumped(e, Patched(old[r], call[r].body))}
      OBVIOUS
    <3>2. PICK x : x = old[r]
      OBVIOUS
    <3>3. PICK y : y = rows[d][e]
      OBVIOUS
    <3>4. PICK b : b = call[r].body
      OBVIOUS
    <3>5. x \in Rows /\ y \in Rows \cup {Null} /\ b \in Bodies
          /\ stored \in {Patched(x, b), Dumped(e, Patched(x, b))}
      BY <1>0, <2>5, <3>1, <3>2, <3>3, <3>4
    <3> HIDE DEF stored, cols
    <3>6. Upserted(y, stored, cols) \in Rows /\ Replaced(stored) \in Rows
      BY <3>5, StoredIsRow
    <3> QED
      BY <3>3, <3>6
  <2>7. /\ rows' \in [Databases -> [Entities -> {Null} \cup Rows]]
        /\ rows' = rows \/ rows' = [rows EXCEPT ![d][e] = row]
    <3>1. rows' = rows \/ rows' = [rows EXCEPT ![d][e] = row]
      BY <1>2
    <3> HIDE DEF row
    <3> QED
      BY <1>0, <2>6, <3>1 DEF PInv, CInv, Typed
  <2>8. written' \subseteq Entities /\ written \subseteq written' /\ written' \subseteq written \cup {e}
    BY <1>0, <1>2 DEF PInv, CInv, TypeOK
  <2>9. TypeOK' /\ Typed'
    <3>1. \A a \in Databases, b \in Entities : rows'[a][b] \in {Null} \cup Rows
      BY <2>7
    <3> HIDE DEF cols, stored, row, doc
    <3> QED
      BY <1>0, <1>2, <2>1, <2>4, <2>7, <2>8, <3>1 DEF PInv, CInv, TypeOK, Typed
  <2>10. StageFits' /\ LoopFits' /\ ColumnsKnown' /\ OldFits'
    BY <1>0, <1>2, <2>1, <2>2 DEF PInv, CInv, StageFits, LoopFits, ColumnsKnown, OldFits
  <2>11. CacheFits'
    <3>1. CASE e \in Columned
      <4>1. columns'[e] = cols /\ \A f \in Columned \ {e} : columns'[f] = columns[f]
        BY <1>0, <1>2, <3>1 DEF PInv, CInv, TypeOK, Entities
      <4> HIDE DEF cols
      <4> QED
        BY <1>2, <2>3, <2>8, <3>1, <4>1 DEF PInv, CInv, CacheFits
    <3>2. CASE e \notin Columned
      BY <1>2, <2>8, <3>2 DEF PInv, CInv, CacheFits
    <3> QED
      BY <3>1, <3>2
  <2> QED
    BY <2>9, <2>10, <2>11 DEF PInv, CInv
<1> QED
  BY <1>1, <1>2 DEF Write

LEMMA DeleteStep ==
  ASSUME PInv, NEW r \in Requests, DeleteFind(r) \/ DeleteRow(r)
  PROVE  PInv'
<1>0. pc[r] \in {"find", "delete"} /\ call[r].db \in Databases /\ call[r].entity \in Entities
      /\ call[r].verb = "delete"
  BY HasCall DEF DeleteFind, DeleteRow, PInv, CInv, StageFits
<1>1. CASE \E code \in {404, 500} : Refuse(r, code)
  BY <1>0, <1>1, EndStep
<1>2. CASE /\ pc[r] = "find" /\ Goto(r, "delete")
           /\ UNCHANGED <<rows, ready, columns, loop, call, old, reply, broken, written, spoiled, count>>
  <2>1. /\ pc' = [pc EXCEPT ![r] = "delete"] /\ pc'[r] = "delete"
        /\ \A q \in Requests \ {r} : pc'[q] = pc[q]
    BY <1>2 DEF Goto, PInv, CInv, TypeOK
  <2>2. TypeOK' /\ Typed'
    BY <1>0, <1>2, <2>1 DEF PInv, CInv, TypeOK, Typed
  <2>3. StageFits' /\ LoopFits' /\ CacheFits' /\ ColumnsKnown'
    BY <1>0, <1>2, <2>1 DEF PInv, CInv, StageFits, LoopFits, CacheFits, ColumnsKnown
  <2>4. OldFits'
    <3>1. \A q \in Requests : Row(q)' = Row(q) /\ Selected(q)' = Selected(q)
      BY <1>2 DEF Row, Selected
    <3> QED
      BY <1>2, <2>1, <3>1 DEF PInv, OldFits
  <2> QED
    BY <2>2, <2>3, <2>4 DEF PInv, CInv
<1>3. CASE /\ rows' = [rows EXCEPT ![call[r].db][call[r].entity] = Null]
           /\ Answer(r, 204)
           /\ UNCHANGED <<ready, columns, call, old, broken, written, spoiled, count>>
  <2>1. /\ pc' = [pc EXCEPT ![r] = "done"] /\ pc'[r] = "done"
        /\ \A q \in Requests \ {r} : pc'[q] = pc[q]
        /\ reply' = [reply EXCEPT ![r] = 204] /\ loop' = IF loop = r THEN Null ELSE loop
    BY <1>3 DEF Answer, Goto, PInv, CInv, TypeOK
  <2>2. rows' \in [Databases -> [Entities -> {Null} \cup Rows]]
    BY <1>0, <1>3 DEF PInv, CInv, Typed
  <2>3. TypeOK' /\ Typed'
    <3>1. \A a \in Databases, b \in Entities : rows'[a][b] \in {Null} \cup Rows
      BY <2>2
    <3> QED
      BY <1>0, <1>3, <2>1, <2>2, <3>1 DEF PInv, CInv, TypeOK, Typed
  <2>4. StageFits' /\ CacheFits' /\ ColumnsKnown'
    BY <1>0, <1>3, <2>1 DEF PInv, CInv, StageFits, CacheFits, ColumnsKnown
  <2>5. LoopFits'
    BY <1>0, <1>3, <2>1 DEF PInv, CInv, LoopFits
  <2>6. OldFits'
    <3>1. ASSUME NEW q \in Requests, pc[q] = "write"
          PROVE  (Row(q)' = Row(q) \/ Row(q)' = Null) /\ Selected(q)' = Selected(q)
      <4>1. call[q].db \in Databases /\ call[q].entity \in Entities
        BY <3>1, HasCall
      <4> QED
        BY <1>0, <1>3, <4>1 DEF Row, Selected, PInv, CInv, Typed
    <3> QED
      BY <1>3, <2>1, <3>1 DEF PInv, OldFits
  <2> QED
    BY <2>3, <2>4, <2>5, <2>6 DEF PInv, CInv
<1> QED
  BY <1>1, <1>2, <1>3 DEF DeleteFind, DeleteRow

LEMMA RespondStep ==
  ASSUME PInv, NEW r \in Requests, Respond(r)
  PROVE  PInv'
<1>1. /\ pc[r] = "done" /\ pc' = [pc EXCEPT ![r] = "idle"]
      /\ call' = [call EXCEPT ![r] = Null] /\ old' = [old EXCEPT ![r] = Null]
      /\ reply' = [reply EXCEPT ![r] = 0] /\ broken' = broken \ {r}
      /\ UNCHANGED <<rows, ready, columns, loop, written, spoiled, count>>
  BY DEF Respond, Goto
<1>2. /\ pc'[r] = "idle"
      /\ \A q \in Requests \ {r} : pc'[q] = pc[q] /\ call'[q] = call[q] /\ old'[q] = old[q]
  BY <1>1 DEF PInv, CInv, TypeOK, Typed
<1>3. TypeOK' /\ Typed'
  BY <1>1, <1>2 DEF PInv, CInv, TypeOK, Typed
<1>4. StageFits' /\ LoopFits' /\ CacheFits' /\ ColumnsKnown'
  BY <1>1, <1>2 DEF PInv, CInv, StageFits, LoopFits, CacheFits, ColumnsKnown
<1>5. OldFits'
  <2>1. \A q \in Requests \ {r} : Row(q)' = Row(q) /\ Selected(q)' = Selected(q)
    BY <1>1, <1>2 DEF Row, Selected
  <2> QED
    BY <1>1, <1>2, <2>1 DEF PInv, OldFits
<1> QED
  BY <1>3, <1>4, <1>5 DEF PInv, CInv

\* Operations have the loop between two handlers.
LEMMA OperationStep ==
  ASSUME PInv,
         \/ \E d \in Databases : Initialise(d)
         \/ \E d \in Databases, src \in Databases : Restore(d, src)
  PROVE  PInv'
<1>1. /\ loop = Null /\ count < MaxOperations /\ count' = count + 1
      /\ UNCHANGED <<columns, loop, pc, call, old, reply, written, spoiled>>
  BY DEF Operates, Initialise, Restore
<1>2. /\ rows' \in [Databases -> [Entities -> {Null} \cup Rows]]
      /\ ready' \subseteq Databases /\ broken' \subseteq Requests
  <2>1. CASE \E d \in Databases : Initialise(d)
    BY <2>1 DEF Initialise, NoRows, PInv, CInv, TypeOK, Typed
  <2>2. CASE \E d \in Databases, src \in Databases : Restore(d, src)
    BY <2>2 DEF Restore, PInv, CInv, TypeOK, Typed
  <2> QED
    BY <2>1, <2>2
<1>3. \A q \in Requests : pc[q] \notin {"columns", "select", "write"}
  BY <1>1, PlainAssumption DEF PInv, CInv, LoopFits
<1>4. TypeOK' /\ Typed'
  <2>1. \A a \in Databases, b \in Entities : rows'[a][b] \in {Null} \cup Rows
    BY <1>2
  <2>2. count' \in 0..MaxOperations
    BY <1>1, PlainAssumption DEF PInv, CInv, TypeOK
  <2> QED
    BY <1>1, <1>2, <2>1, <2>2 DEF PInv, CInv, TypeOK, Typed
<1>5. StageFits' /\ LoopFits' /\ CacheFits' /\ ColumnsKnown' /\ OldFits'
  BY <1>1, <1>3 DEF PInv, CInv, StageFits, LoopFits, CacheFits, ColumnsKnown, OldFits
<1> QED
  BY <1>4, <1>5 DEF PInv, CInv

\* A restart forgets everything but the tables.
LEMMA RestartStep ==
  ASSUME PInv, Restart
  PROVE  PInv'
<1>1. TypeOK' /\ Typed'
  <2>1. count' \in 0..MaxOperations
    BY PlainAssumption DEF Restart, PInv, CInv, TypeOK
  <2>2. \A r \in Requests : pc'[r] = "idle" /\ call'[r] = Null
    BY DEF Restart
  <2> QED
    BY <2>1, <2>2 DEF Restart, PInv, CInv, TypeOK, Typed
<1>2. CacheFits'
  <2>1. {} # Null
    BY PlainAssumption
  <2> QED
    BY <2>1 DEF Restart, CacheFits, Entities
<1>3. StageFits' /\ LoopFits' /\ ColumnsKnown' /\ OldFits'
  BY DEF Restart, StageFits, LoopFits, ColumnsKnown, OldFits
<1> QED
  BY <1>1, <1>2, <1>3 DEF PInv, CInv

\* Every step preserves the invariant.
LEMMA PInvStep == PInv /\ [Next]_vars => PInv'
<1> SUFFICES ASSUME PInv, [Next]_vars PROVE PInv'
  OBVIOUS
<1>1. ASSUME NEW r \in Requests, NEW c \in Calls, Receive(r, c) PROVE PInv'
  BY <1>1, ReceiveStep
<1>2. ASSUME NEW r \in Requests, BodyArrives(r) PROVE PInv'
  BY <1>2, BodyStep
<1>3. ASSUME NEW r \in Requests, ReadColumns(r) PROVE PInv'
  BY <1>3, ColumnsStep
<1>4. ASSUME NEW r \in Requests, Select(r) PROVE PInv'
  BY <1>4, SelectStep
<1>5. ASSUME NEW r \in Requests, Write(r) PROVE PInv'
  BY <1>5, WriteStep
<1>6. ASSUME NEW r \in Requests, DeleteFind(r) \/ DeleteRow(r) PROVE PInv'
  BY <1>6, DeleteStep
<1>7. ASSUME NEW r \in Requests, Respond(r) PROVE PInv'
  BY <1>7, RespondStep
<1>8. CASE \E d \in Databases : Initialise(d) \/ \E src \in Databases \ {d} : Restore(d, src)
  BY <1>8, OperationStep
<1>9. CASE Restart
  BY <1>9, RestartStep
<1>10. CASE UNCHANGED vars
  <2>1. TypeOK' /\ Typed' /\ StageFits' /\ LoopFits' /\ CacheFits' /\ ColumnsKnown'
    BY <1>10 DEF vars, PInv, CInv, TypeOK, Typed, StageFits, LoopFits, CacheFits, ColumnsKnown
  <2>2. \A q \in Requests : Row(q)' = Row(q) /\ Selected(q)' = Selected(q)
    BY <1>10 DEF vars, Row, Selected
  <2>3. OldFits'
    BY <1>10, <2>2 DEF vars, PInv, OldFits
  <2> QED
    BY <2>1, <2>3 DEF PInv, CInv
<1> QED
  BY <1>1, <1>2, <1>3, <1>4, <1>5, <1>6, <1>7, <1>8, <1>9, <1>10 DEF Next

\* PInv holds in every reachable state.
LEMMA PInvAlways == Spec => []PInv
BY PInvInit, PInvStep, PTL DEF Spec

----------------------------------------------------------------------------

\* Every reachable state of the handlers without events is well typed.
THEOREM PlainTypeCorrect == Spec => []TypeOK
<1>1. PInv => TypeOK
  BY DEF PInv, CInv
<1> QED
  BY <1>1, PInvAlways, PTL

\* Who ends: a handler that refuses or writes, or a DELETE.
LEMMA EndsIs ==
  ASSUME PInv, [Next]_vars, NEW r \in Requests, Ends(r)
  PROVE  ReadColumns(r) \/ Select(r) \/ Write(r) \/ DeleteFind(r) \/ DeleteRow(r)
<1> USE DEF PInv, CInv, TypeOK, Ends
<1>1. ASSUME NEW q \in Requests, NEW c \in Calls, Receive(q, c) PROVE FALSE
  BY <1>1 DEF Receive, Goto
<1>2. ASSUME NEW q \in Requests, BodyArrives(q) PROVE FALSE
  BY <1>2 DEF BodyArrives, Goto
<1>3. ASSUME NEW q \in Requests, q # r,
             ReadColumns(q) \/ Select(q) \/ Write(q) \/ DeleteFind(q) \/ DeleteRow(q)
      PROVE  FALSE
  <2>1. PICK stage : pc' = [pc EXCEPT ![q] = stage]
    BY <1>3 DEF ReadColumns, Select, Write, DeleteFind, DeleteRow, Refuse, Answer, Goto
  <2>2. pc'[r] = pc[r]
    BY <1>3, <2>1
  <2> QED
    BY <2>2
<1>4. ASSUME NEW q \in Requests, Respond(q) PROVE FALSE
  BY <1>4 DEF Respond, Goto
<1>5. ASSUME NEW d \in Databases, Initialise(d) \/ \E src \in Databases \ {d} : Restore(d, src)
      PROVE  FALSE
  BY <1>5 DEF Initialise, Restore
<1>6. CASE Restart
  BY <1>6 DEF Restart
<1>7. CASE UNCHANGED vars
  BY <1>7 DEF vars
<1>8. CASE \E q \in Requests :
             ReadColumns(q) \/ Select(q) \/ Write(q) \/ DeleteFind(q) \/ DeleteRow(q)
  BY <1>3, <1>8
<1> QED
  BY <1>1, <1>2, <1>4, <1>5, <1>6, <1>7, <1>8 DEF Next

\* A request to a database with tables fails with 500 only if its connection was
\* terminated, or if some PATCH has asked for the columns of its entity where there were
\* no tables before any row of it was stored, for any calls and operations.
THEOREM FailuresAreSpoiled == Spec => FailsOnlySpoiled
<1>1. ASSUME PInv, [Next]_vars, NEW r \in Requests, Ends(r), reply'[r] = 500
      PROVE  r \in broken \/ call[r].db \notin ready \/ call[r].entity \in spoiled
  <2>1. ReadColumns(r) \/ Select(r) \/ Write(r) \/ DeleteFind(r) \/ DeleteRow(r)
    BY <1>1, EndsIs
  <2>2. \A code : reply' = [reply EXCEPT ![r] = code] => code = 500
    BY <1>1 DEF PInv, CInv, TypeOK
  <2>3. \A code : Refuse(r, code) \/ Answer(r, code) => code = 500
    BY <2>2 DEF Refuse, Answer
  <2>4. pc[r] # "done" /\ \A stage : pc' = [pc EXCEPT ![r] = stage] => stage = "done"
    BY <1>1 DEF Ends, PInv, CInv, TypeOK
  <2>5. \A stage : Goto(r, stage) => stage = "done"
    BY <2>4 DEF Goto
  <2>6. CASE ReadColumns(r)
    BY <2>3, <2>5, <2>6 DEF ReadColumns
  <2>7. CASE Select(r)
    BY <2>3, <2>5, <2>7 DEF Select, Works
  <2>8. CASE DeleteFind(r) \/ DeleteRow(r)
    BY <2>3, <2>5, <2>8 DEF DeleteFind, DeleteRow, Works
  <2>9. CASE Write(r)
    <3>1. call[r].entity \in Columned /\ Remembered(call[r].db, call[r].entity) = {}
      BY <2>3, <2>9 DEF Write
    <3> QED
      BY <1>1, <2>9, <3>1, WriteColumns DEF Write
  <2> QED
    BY <2>1, <2>6, <2>7, <2>8, <2>9
<1>2. PInv /\ [Next]_vars =>
        [\A r \in Requests :
           Ends(r) /\ reply'[r] = 500 =>
             r \in broken \/ call[r].db \notin ready \/ call[r].entity \in spoiled]_vars
  BY <1>1
<1> QED
  BY <1>2, PInvAlways, PTL DEF Spec, FailsOnlySpoiled

\* What a successful PATCH of a row writes, column by column.
LEMMA MergeIs ==
  ASSUME PInv, [Next]_vars, NEW r \in Requests, Patches(r),
         InColumns(r) \/ call[r].verb = "batch"
  PROVE  LET e == call[r].entity
             doc == Patched(old[r], call[r].body)
             row == rows'[call[r].db][e] IN
         /\ call[r] \in Calls /\ call[r].body \in Bodies /\ Row(r) \in Rows /\ old[r] \in Rows
         /\ ~RaisesPatchTypeError(old[r], call[r].body)
         /\ call[r].verb = "patch" => \A p \in Props : doc[p] # Wrong
         /\ \A p \in Props : /\ old[r][p] \in {Absent, Row(r)[p]}
                             /\ call[r].verb = "batch" \/ p \in Compared(call[r].body) =>
                                  old[r][p] = Row(r)[p]
         /\ \A p \in Props :
              row[p] = IF doc[p] = Nulled THEN Absent
                       ELSE IF doc[p] = Absent /\ InColumns(r) THEN Row(r)[p] ELSE doc[p]
<1> DEFINE d == call[r].db
           e == call[r].entity
           batch == call[r].verb = "batch"
           doc == Patched(old[r], call[r].body)
           cols == Remembered(d, e)
           stored == IF batch THEN doc ELSE Dumped(e, doc)
<1>1. /\ Ends(r) /\ reply'[r] \in {200, 204} /\ Row(r) # Null
      /\ call[r].verb \in {"patch", "batch"}
  BY DEF Patches
<1>2. ReadColumns(r) \/ Select(r) \/ Write(r) \/ DeleteFind(r) \/ DeleteRow(r)
  BY <1>1, EndsIs
<1>3. \A code : Refuse(r, code) \/ Answer(r, code) => code \in {200, 204}
  BY <1>1 DEF Refuse, Answer, PInv, CInv, TypeOK
<1>4. \A stage : Goto(r, stage) => stage = "done"
  BY <1>1 DEF Ends, Goto, PInv, CInv, TypeOK
<1>5. ~DeleteFind(r) /\ ~DeleteRow(r)
  BY <1>1 DEF DeleteFind, DeleteRow, PInv, CInv, StageFits
<1>6. ~ReadColumns(r)
  BY <1>3, <1>4 DEF ReadColumns
<1>7. ~Select(r)
  BY <1>3, <1>4 DEF Select
<1>8. Write(r) /\ pc[r] = "write"
  BY <1>2, <1>5, <1>6, <1>7 DEF Write
<1>9. /\ ~RaisesPatchTypeError(old[r], call[r].body) /\ (batch \/ FitsModel(e, doc))
      /\ ~(e \in Columned /\ cols = {})
      /\ rows' = [rows EXCEPT ![d][e] =
                    IF e \in Columned THEN Upserted(@, stored, cols) ELSE Replaced(stored)]
  BY <1>3, <1>8 DEF Write
<1>10. /\ call[r] \in Calls /\ d \in Databases /\ e \in Entities /\ call[r].body \in Bodies
       /\ old[r] \in Rows /\ Row(r) \in Rows
  <2>1. rows[d][e] \in {Null} \cup Rows
    BY <1>8, HasCall DEF PInv, CInv, TypeOK
  <2> QED
    BY <1>1, <1>8, <2>1, HasCall DEF PInv, OldFits, Row
<1>11. rows'[d][e] = IF e \in Columned THEN Upserted(Row(r), stored, cols) ELSE Replaced(stored)
  BY <1>9, <1>10 DEF Row, PInv, CInv, Typed
<1>12. e \in Columned => cols = Props
  BY <1>8, <1>9, WriteColumns
<1>13. \A p \in Props : stored[p] = doc[p]
  BY <1>1 DEF Dumped, Declared, InColumns
<1>14. \A p \in Props : old[r][p] = IF p \in Selected(r) THEN Row(r)[p] ELSE Absent
  BY <1>1, <1>8 DEF PInv, OldFits
<1>15. \A p \in Props : batch \/ p \in Compared(call[r].body) => p \in Selected(r)
  <2>1. CASE batch
    BY <2>1 DEF Selected
  <2>2. ASSUME NEW p \in Props, ~batch, p \in Compared(call[r].body) PROVE p \in Selected(r)
    <3>1. columns[e] # Null /\ e \in Columned
      BY <1>1, <1>8, <2>2 DEF PInv, ColumnsKnown, InColumns
    <3>2. columns[e] = Props
      BY <1>12, <3>1 DEF Remembered
    <3> QED
      BY <2>2, <3>1, <3>2 DEF Selected
  <2> QED
    BY <2>1, <2>2
<1>16. \A p \in Props :
         rows'[d][e][p] = IF doc[p] = Nulled THEN Absent
                          ELSE IF doc[p] = Absent /\ InColumns(r) THEN Row(r)[p] ELSE doc[p]
  <2>1. CASE e \in Columned
    <3> HIDE DEF stored, cols, doc
    <3> QED
      BY <1>1, <1>11, <1>12, <1>13, <2>1 DEF Upserted, InColumns
  <2>2. CASE e \notin Columned
    <3> HIDE DEF stored, cols, doc
    <3> QED
      BY <1>11, <1>13, <2>2 DEF Replaced, InColumns
  <2> QED
    BY <2>1, <2>2
<1>17. call[r].verb = "patch" => \A p \in Props : doc[p] # Wrong
  BY <1>9 DEF FitsModel, Declared, InColumns
<1> HIDE DEF doc
<1> QED
  BY <1>9, <1>10, <1>14, <1>15, <1>16, <1>17 DEF doc

\* A PATCH merges its body into the row as it is when it commits, whatever DELETEs,
\* other databases and restarts do meanwhile, for any entities, properties and calls.
THEOREM MergesStay == Spec => PatchMerges
<1>1. ASSUME PInv, [Next]_vars, NEW r \in Requests, Patches(r),
             InColumns(r) \/ call[r].verb = "batch",
             NEW p \in Props
      PROVE  LET body == call[r].body
                 row == rows'[call[r].db][call[r].entity] IN
             /\ body[p] = Absent => row[p] = Row(r)[p]
             /\ IsObject(Row(r)[p]) /\ body[p] # Absent =>
                  IsObject(body[p]) /\ row[p] = Row(r)[p] \cup body[p]
             /\ ~IsObject(Row(r)[p]) /\ body[p] # Absent =>
                  row[p] = IF body[p] = Nulled THEN Absent ELSE body[p]
  <2> DEFINE body == call[r].body
             was == Row(r)[p]
             read == old[r][p]
             doc == Patched(old[r], body)
             now == rows'[call[r].db][call[r].entity][p]
  <2>1. /\ body \in Bodies /\ Row(r) \in Rows /\ old[r] \in Rows
        /\ ~RaisesPatchTypeError(old[r], body)
        /\ call[r].verb = "patch" => doc[p] # Wrong
        /\ read \in {Absent, was}
        /\ call[r].verb = "batch" \/ p \in Compared(body) => read = was
        /\ now = IF doc[p] = Nulled THEN Absent
                 ELSE IF doc[p] = Absent /\ InColumns(r) THEN was ELSE doc[p]
    BY <1>1, MergeIs
  <2>2. /\ was \in {Absent} \cup PropValues(p)
        /\ body[p] \in {Absent, Nulled} \cup PropValues(p)
    BY <2>1 DEF Rows, Bodies
  <2>3. Nulled # Absent /\ Nulled \notin PropValues(p) /\ Absent \notin PropValues(p)
    BY PlainAssumption DEF PropValues
  <2>4. doc[p] = IF body[p] = Absent THEN read
                 ELSE IF IsObject(read) /\ IsObject(body[p]) THEN read \cup body[p] ELSE body[p]
    BY DEF Patched
  <2>5. call[r].verb \in {"patch", "batch"}
    BY <1>1 DEF Patches
  <2>6. IsObject(read) => body[p] \notin {Nulled, Wrong}
    BY <2>1 DEF RaisesPatchTypeError
  <2>7. IsObject(body[p]) \/ body[p] = Nulled => p \in Compared(body)
    BY DEF Compared
  <2>8. ~IsObject(Absent)
    BY DEF IsObject
  <2>9. read = was \/ (InColumns(r) /\ read = Absent)
    BY <1>1, <2>1
  <2>10. body[p] = Absent => now = was
    <3> HIDE DEF doc, now, read, was, body
    <3> QED
      BY <2>1, <2>2, <2>3, <2>4, <2>9
  <2>11. ASSUME IsObject(was), body[p] # Absent
         PROVE  IsObject(body[p]) /\ now = was \cup body[p]
    <3>1. p \in Objects /\ was \in SUBSET Keys
      BY <2>2, <2>11, ObjectCell
    <3>2. body[p] \in {Nulled, Wrong} \/ body[p] \in SUBSET Keys
      BY <2>2, <2>11, <3>1 DEF PropValues, ObjectValues
    <3>3. \A v \in SUBSET Keys : IsObject(v) /\ v # Absent /\ v # Nulled
      BY PlainAssumption DEF IsObject, ObjectValues
    <3>4. body[p] # Nulled
      BY <2>1, <2>6, <2>7, <2>11
    <3>5. body[p] # Wrong
      <4>1. ASSUME body[p] = Wrong PROVE FALSE
        <5>1. read # was
          BY <2>6, <2>11, <4>1
        <5>2. call[r].verb = "patch" /\ read = Absent
          BY <2>1, <2>5, <5>1
        <5>3. doc[p] = Wrong
          BY <2>4, <2>8, <2>11, <4>1, <5>2
        <5> QED
          BY <2>1, <5>2, <5>3
      <4> QED
        BY <4>1
    <3>6. body[p] \in SUBSET Keys /\ IsObject(body[p])
      BY <3>2, <3>3, <3>4, <3>5
    <3>7. read = was
      BY <2>1, <2>7, <3>6
    <3>8. doc[p] = was \cup body[p]
      BY <2>4, <2>11, <3>6, <3>7
    <3>9. doc[p] \in SUBSET Keys
      BY <3>1, <3>6, <3>8
    <3> HIDE DEF doc, now, was
    <3> QED
      BY <2>1, <3>3, <3>6, <3>8, <3>9
  <2>12. ASSUME ~IsObject(was), body[p] # Absent
         PROVE  now = IF body[p] = Nulled THEN Absent ELSE body[p]
    <3>1. ~IsObject(read)
      BY <2>8, <2>9, <2>12
    <3>2. doc[p] = body[p]
      BY <2>4, <2>12, <3>1
    <3> HIDE DEF doc, now, body
    <3> QED
      BY <2>1, <2>12, <3>2
  <2> QED
    BY <2>10, <2>11, <2>12
<1>2. PInv /\ [Next]_vars =>
        [\A r \in Requests :
           Patches(r) /\ (InColumns(r) \/ call[r].verb = "batch") =>
             LET body == call[r].body
                 row == rows'[call[r].db][call[r].entity] IN
             \A p \in Props :
               /\ body[p] = Absent => row[p] = Row(r)[p]
               /\ IsObject(Row(r)[p]) /\ body[p] # Absent =>
                    IsObject(body[p]) /\ row[p] = Row(r)[p] \cup body[p]
               /\ ~IsObject(Row(r)[p]) /\ body[p] # Absent =>
                    row[p] = IF body[p] = Nulled THEN Absent ELSE body[p]]_vars
  BY <1>1
<1> QED
  BY <1>2, PInvAlways, PTL DEF Spec, PatchMerges

=============================================================================
