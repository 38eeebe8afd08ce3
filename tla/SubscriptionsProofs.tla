------------------------ MODULE SubscriptionsProofs ------------------------
(***************************************************************************)
(* Proofs about Subscriptions, for any number of requests and keys.        *)
(***************************************************************************)
EXTENDS Subscriptions, TLAPS

\* What is between a request and its call: a request that has been answered and
\* forgotten has none, each stage belongs to the handlers that pass it, and the
\* answer is settled when the handler returns or raises.
CallsFit ==
  \A r \in Requests :
    /\ pc[r] # "idle" <=> call[r] # Null
    /\ pc[r] = "received" => call[r].op \in AsyncOps
    /\ pc[r] = "commit" => call[r].op = "delete"
    /\ reply[r] = 0 <=> pc[r] \in {"idle", "received", "select", "write", "commit"}

\* The event loop is occupied by r exactly while an async handler of r runs.
LoopFits ==
  \A r \in Requests :
    loop = r <=> pc[r] \in {"select", "write"} /\ call[r].op \in AsyncOps

\* A handler that read a row FOR UPDATE holds its lock until it has written it,
\* and so does a DELETE until it commits.
LocksAreHeld ==
  \A r \in Requests :
    /\ pc[r] = "write" /\ call[r].op \in {"patch", "suspend", "resume"} =>
         seen[r] = Null \/ holder[call[r].key] = r
    /\ pc[r] = "write" /\ call[r].op \in {"suspend", "resume"} => seen[r] # Null
    /\ pc[r] = "commit" => holder[call[r].key] = r

\* Only rows that exist are locked.
LockedRowsExist == \A k \in Keys : holder[k] # Null => row[k] # Null

\* suspend and resume write only a row they found in the status they require.
TransitionFits ==
  \A r \in Requests :
    pc[r] = "write" /\ call[r].op \in {"suspend", "resume"} /\ seen[r] # Null =>
      StatusOf(seen[r]) = Required(call[r].op)

IInv ==
  /\ TypeOK
  /\ CallsFit
  /\ LoopFits
  /\ LocksAreHeld
  /\ LockedRowsExist
  /\ LocksAreOwned
  /\ NoStaleWrite
  /\ TransitionFits

\* The empty tables satisfy the invariant.
LEMMA InvInit == Init => IInv
BY NullAssumption
   DEF Init, IInv, TypeOK, CallsFit, LoopFits, LocksAreHeld, LockedRowsExist,
       LocksAreOwned, NoStaleWrite, TransitionFits, Stages, Codes

\* Every step of every request preserves the invariant.
LEMMA InvStep == IInv /\ [Next]_vars => IInv'
<1> SUFFICES ASSUME IInv, [Next]_vars PROVE IInv'
  OBVIOUS
<1> USE NullAssumption, BodiesAssumption, NoRowAssumption
    DEF IInv, TypeOK, CallsFit, LoopFits, LocksAreHeld, LockedRowsExist,
        LocksAreOwned, NoStaleWrite, TransitionFits, Stages, Codes
<1>1. ASSUME NEW r \in Requests, NEW c \in Calls, Receive(r, c) PROVE IInv'
  BY <1>1 DEF Receive, Calls, Goto, AsyncOps, SyncOps
<1>2. ASSUME NEW r \in Requests, StartHandler(r) PROVE IInv'
  BY <1>2 DEF StartHandler, At, Goto, AsyncOps
<1>3. ASSUME NEW r \in Requests, CreateSelect(r) PROVE IInv'
  BY <1>3 DEF CreateSelect, At, Goto, Settle, AsyncOps, SyncOps
<1>4. ASSUME NEW r \in Requests, CreateInsert(r) PROVE IInv'
  BY <1>4 DEF CreateInsert, At, Goto, Settle, WithSubscriptionDefaults, Document, Calls, Statuses, AsyncOps, SyncOps
<1>5. ASSUME NEW r \in Requests, PatchSelect(r) PROVE IInv'
  <2> USE <1>5 DEF PatchSelect, At, Goto, SelectForUpdate, Unlocked, Calls, AsyncOps, SyncOps
  <2>1. TypeOK'
    OBVIOUS
  <2>2. CallsFit' /\ LoopFits'
    OBVIOUS
  <2>3. LocksAreHeld' /\ LockedRowsExist'
    OBVIOUS
  <2>4. LocksAreOwned'
    OBVIOUS
  <2>5. NoStaleWrite' /\ TransitionFits'
    OBVIOUS
  <2> QED BY <2>1, <2>2, <2>3, <2>4, <2>5
<1>6. ASSUME NEW r \in Requests, PatchWrite(r) PROVE IInv'
  BY <1>6 DEF PatchWrite, At, Goto, Settle, Commit, Merge, Document, Calls, AsyncOps, SyncOps
<1>7. ASSUME NEW r \in Requests, DeleteSelect(r) PROVE IInv'
  BY <1>7 DEF DeleteSelect, At, Goto, Settle, AsyncOps
<1>8. ASSUME NEW r \in Requests, DeleteNothing(r) PROVE IInv'
  BY <1>8 DEF DeleteNothing, At, Goto, Settle, AsyncOps
<1>9. ASSUME NEW r \in Requests, DeleteRow(r) PROVE IInv'
  <2> USE <1>9 DEF DeleteRow, At, Goto, Unlocked, Calls, AsyncOps, SyncOps
  <2>1. TypeOK'
    OBVIOUS
  <2>2. CallsFit' /\ LoopFits'
    OBVIOUS
  <2>3. LocksAreHeld' /\ LockedRowsExist'
    OBVIOUS
  <2>4. LocksAreOwned'
    OBVIOUS
  <2>5. NoStaleWrite' /\ TransitionFits'
    OBVIOUS
  <2> QED BY <2>1, <2>2, <2>3, <2>4, <2>5
<1>10. ASSUME NEW r \in Requests, DeleteCommit(r) PROVE IInv'
  <2> USE <1>10 DEF DeleteCommit, At, Goto, Settle, Commit, Calls, AsyncOps, SyncOps
  <2>1. TypeOK'
    OBVIOUS
  <2>2. CallsFit' /\ LoopFits'
    OBVIOUS
  <2>3. LocksAreHeld' /\ LockedRowsExist'
    OBVIOUS
  <2>4. LocksAreOwned'
    OBVIOUS
  <2>5. NoStaleWrite' /\ TransitionFits'
    OBVIOUS
  <2> QED BY <2>1, <2>2, <2>3, <2>4, <2>5
<1>11. ASSUME NEW r \in Requests, TransitionMissing(r) PROVE IInv'
  BY <1>11 DEF TransitionMissing, At, Goto, Settle, AsyncOps
<1>12. ASSUME NEW r \in Requests, TransitionSelect(r) PROVE IInv'
  <2> USE <1>12 DEF TransitionSelect, At, Goto, Settle, SelectForUpdate, Unlocked, Calls, AsyncOps, SyncOps
  <2>1. TypeOK'
    OBVIOUS
  <2>2. CallsFit' /\ LoopFits'
    OBVIOUS
  <2>3. LocksAreHeld' /\ LockedRowsExist'
    OBVIOUS
  <2>4. LocksAreOwned'
    OBVIOUS
  <2>5. NoStaleWrite' /\ TransitionFits'
    OBVIOUS
  <2> QED BY <2>1, <2>2, <2>3, <2>4, <2>5
<1>13. ASSUME NEW r \in Requests, TransitionWrite(r) PROVE IInv'
  <2> USE <1>13 DEF TransitionWrite, At, Goto, Settle, Commit, Target, Calls, AsyncOps, SyncOps
  <2>1. TypeOK'
    BY DEF Document, Statuses
  <2>2. CallsFit' /\ LoopFits'
    OBVIOUS
  <2>3. LocksAreHeld' /\ LockedRowsExist'
    OBVIOUS
  <2>4. LocksAreOwned'
    OBVIOUS
  <2>5. NoStaleWrite' /\ TransitionFits'
    OBVIOUS
  <2> QED BY <2>1, <2>2, <2>3, <2>4, <2>5
<1>14. ASSUME NEW r \in Requests, DispatchExit(r) PROVE IInv'
  BY <1>14 DEF DispatchExit, Goto, AsyncOps
<1>15. ASSUME NEW r \in Requests, Rollback(r) PROVE IInv'
  <2> USE <1>15 DEF Rollback, Goto, Calls, AsyncOps, SyncOps
  <2>1. TypeOK'
    OBVIOUS
  <2>2. CallsFit' /\ LoopFits'
    OBVIOUS
  <2>3. LocksAreHeld' /\ LockedRowsExist'
    OBVIOUS
  <2>4. LocksAreOwned'
    OBVIOUS
  <2>5. NoStaleWrite' /\ TransitionFits'
    OBVIOUS
  <2> QED BY <2>1, <2>2, <2>3, <2>4, <2>5
<1>16. ASSUME NEW r \in Requests, Respond(r) PROVE IInv'
  BY <1>16 DEF Respond, Goto, AsyncOps
<1>17. CASE UNCHANGED vars
  BY <1>17 DEF vars
<1> QED
  BY <1>1, <1>2, <1>3, <1>4, <1>5, <1>6, <1>7, <1>8, <1>9,
     <1>10, <1>11, <1>12, <1>13, <1>14, <1>15, <1>16, <1>17 DEF Next, Server, Handler

\* The inductive invariant holds in every reachable state.
THEOREM Invariance == Spec => []IInv
<1>1. IInv /\ [Next]_vars => IInv'
  BY InvStep
<1> QED
  BY InvInit, <1>1, PTL DEF Spec

\* The types of the variables.
THEOREM TypeCorrect == Spec => []TypeOK
BY Invariance, PTL DEF IInv

\* No PATCH, suspend or resume writes a document computed from a row that is no
\* longer the committed one, and no INSERT meets an existing row.
THEOREM NoLostUpdate == Spec => []NoStaleWrite
BY Invariance, PTL DEF IInv

\* A row lock never survives the request that took it.
THEOREM LocksReleased == Spec => []LocksAreOwned
BY Invariance, PTL DEF IInv

----------------------------------------------------------------------------
(* Refinement. *)

\* A POST stores the document the registry's POST stores.
LEMMA DefaultsOverlay ==
  ASSUME NEW b \in Document
  PROVE  WithSubscriptionDefaults(b)
           = Registry!Overlay([status |-> "active", config |-> Absent], b)
BY NullAssumption DEF WithSubscriptionDefaults, Registry!Overlay, Document

\* A PATCH of an existing row stores what the registry's PATCH stores.
LEMMA MergeOverlay ==
  ASSUME NEW a, NEW b PROVE Merge(a, b) = Registry!Overlay(a, b)
BY DEF Merge, Registry!Overlay

\* A step in which a request neither arrives, settles its answer nor leaves, and
\* no row changes, is invisible to the registry.
LEMMA Invisible ==
  ASSUME NEW r \in Requests, NEW s, IInv,
         pc[r] # "idle", s # "idle", Goto(r, s), UNCHANGED <<row, call, reply>>
  PROVE  UNCHANGED Registry!avars
BY DEF Goto, Stage, IInv, TypeOK, Registry!avars

\* When a request settles its answer the registry sees exactly that.
LEMMA Settled ==
  ASSUME NEW r \in Requests, pc[r] # "idle", reply[r] = 0, pc'[r] # "idle", reply'[r] # 0,
         \A q \in Requests \ {r} : pc'[q] = pc[q] /\ reply'[q] = reply[q]
  PROVE  [q \in Requests |-> Stage(q)]'
           = [[q \in Requests |-> Stage(q)] EXCEPT ![r] = "answered"]
<1>1. \A q \in Requests : Stage(q)' = IF q = r THEN "answered" ELSE Stage(q)
  BY DEF Stage
<1> QED BY <1>1

\* A request whose handler has not settled its answer is still asking.
LEMMA Asking ==
  ASSUME NEW r \in Requests, NEW op, IInv, pc[r] # "idle", reply[r] = 0, call[r].op = op
  PROVE  Registry!Asks(r, op)
BY DEF Stage, Registry!Asks

\* The empty tables are the registry's initial state.
LEMMA RefInit == Init => Registry!Init
BY DEF Init, Stage, Registry!Init

\* The registry answers in the step where the handler commits or raises; every
\* other step of a handler is a stutter.
LEMMA RefStep == IInv /\ [Next]_vars => [Registry!Next]_(Registry!avars)
<1> SUFFICES ASSUME IInv, [Next]_vars PROVE [Registry!Next]_(Registry!avars)
  OBVIOUS
<1> USE DEF IInv, CallsFit
<1>1. ASSUME NEW r \in Requests, NEW c \in Calls, Receive(r, c) PROVE Registry!Next
  <2>1. Registry!Ask(r, c)
    BY <1>1, NoRowAssumption
       DEF Receive, Goto, Stage, TypeOK, AsyncOps, SyncOps, Registry!Ask
  <2>2. c \in Registry!Asked
    BY DEF Calls, AsyncOps, SyncOps, Registry!Asked
  <2> QED BY <2>1, <2>2 DEF Registry!Next
<1>2. ASSUME NEW r \in Requests, StartHandler(r) PROVE UNCHANGED Registry!avars
  BY <1>2, Invisible DEF StartHandler, At
<1>3. ASSUME NEW r \in Requests, CreateSelect(r) PROVE [Registry!Next]_(Registry!avars)
  <2>1. CASE row[call[r].key] # Null
    <3>1. row' = [row EXCEPT ![call[r].key] = row[call[r].key]]
      BY <1>3 DEF CreateSelect, TypeOK
    <3>2. pc[r] = "select" /\ Settle(r, "raised", 409) /\ UNCHANGED call
      BY <1>3, <2>1 DEF CreateSelect, At
    <3>3. Registry!Answer(r, 409, row[call[r].key])
      BY <3>1, <3>2, Settled DEF Settle, Goto, TypeOK, Registry!Answer
    <3>4. Registry!Create(r)
      BY <1>3, <2>1, <3>3, Asking DEF CreateSelect, At, Registry!Create
    <3> QED BY <3>4 DEF Registry!Next
  <2>2. CASE row[call[r].key] = Null
    BY <1>3, <2>2, Invisible DEF CreateSelect, At
  <2> QED BY <2>1, <2>2
<1>4. ASSUME NEW r \in Requests, CreateInsert(r) PROVE Registry!Next
  <2>1. call[r].body \in Document /\ row[call[r].key] = Null
    BY <1>4, BodiesAssumption, NoRowAssumption
       DEF CreateInsert, At, TypeOK, Calls, SyncOps, NoStaleWrite
  <2>2. Registry!Answer(r, 201, WithSubscriptionDefaults(call[r].body))
    BY <1>4, Settled
       DEF CreateInsert, At, Settle, Goto, TypeOK, Registry!Answer
  <2>3. Registry!Create(r)
    BY <1>4, <2>1, <2>2, Asking, DefaultsOverlay DEF CreateInsert, At, Registry!Create
  <2> QED BY <2>3 DEF Registry!Next
<1>5. ASSUME NEW r \in Requests, PatchSelect(r) PROVE UNCHANGED Registry!avars
  BY <1>5, Invisible DEF PatchSelect, At
<1>6. ASSUME NEW r \in Requests, PatchWrite(r) PROVE Registry!Next
  <2> DEFINE doc == IF row[call[r].key] = Null THEN call[r].body
                    ELSE Merge(row[call[r].key], call[r].body)
  <2>1. seen[r] = row[call[r].key]
    BY <1>6 DEF PatchWrite, At, NoStaleWrite
  <2>2. row' = [row EXCEPT ![call[r].key] = doc]
    BY <1>6, <2>1 DEF PatchWrite, Commit
  <2>3. Registry!Answer(r, 204, doc)
    BY <1>6, <2>2, Settled
       DEF PatchWrite, At, Settle, Goto, TypeOK, Registry!Answer
  <2>4. Registry!Patch(r)
    BY <1>6, <2>3, Asking, MergeOverlay DEF PatchWrite, At, Registry!Patch
  <2> QED BY <2>4 DEF Registry!Next
<1>7. ASSUME NEW r \in Requests, DeleteSelect(r) PROVE [Registry!Next]_(Registry!avars)
  <2>1. CASE row[call[r].key] = Null
    <3>1. row' = [row EXCEPT ![call[r].key] = Null]
      BY <1>7, <2>1 DEF DeleteSelect, TypeOK
    <3>2. pc[r] = "select" /\ Settle(r, "raised", 404) /\ UNCHANGED call
      BY <1>7, <2>1 DEF DeleteSelect, At
    <3>3. Registry!Answer(r, 404, Null)
      BY <3>1, <3>2, Settled DEF Settle, Goto, TypeOK, Registry!Answer
    <3>4. Registry!Delete(r)
      BY <1>7, <2>1, <3>3, Asking DEF DeleteSelect, At, Registry!Delete
    <3> QED BY <3>4 DEF Registry!Next
  <2>2. CASE row[call[r].key] # Null
    BY <1>7, <2>2, Invisible DEF DeleteSelect, At
  <2> QED BY <2>1, <2>2
<1>8. ASSUME NEW r \in Requests, DeleteNothing(r) PROVE Registry!Next
  <2>1. row' = [row EXCEPT ![call[r].key] = Null]
    BY <1>8 DEF DeleteNothing, TypeOK
  <2>2. pc[r] = "write" /\ Settle(r, "done", 204) /\ UNCHANGED call
    BY <1>8 DEF DeleteNothing, At
  <2>3. Registry!Answer(r, 204, Null)
    BY <2>1, <2>2, Settled DEF Settle, Goto, TypeOK, Registry!Answer
  <2> QED BY <1>8, <2>3, Asking DEF DeleteNothing, At, Registry!Delete, Registry!Next
<1>9. ASSUME NEW r \in Requests, DeleteRow(r) PROVE UNCHANGED Registry!avars
  BY <1>9, Invisible DEF DeleteRow, At
<1>10. ASSUME NEW r \in Requests, DeleteCommit(r) PROVE Registry!Next
  <2>1. Registry!Answer(r, 204, Null)
    BY <1>10, Settled
       DEF DeleteCommit, At, Commit, Settle, Goto, TypeOK, Registry!Answer
  <2> QED BY <1>10, <2>1, Asking DEF DeleteCommit, At, Registry!Delete, Registry!Next
<1>11. ASSUME NEW r \in Requests, TransitionMissing(r) PROVE Registry!Next
  <2>1. row' = [row EXCEPT ![call[r].key] = Null]
    BY <1>11 DEF TransitionMissing, TypeOK
  <2>2. pc[r] = "select" /\ Settle(r, "raised", 404) /\ UNCHANGED call
    BY <1>11 DEF TransitionMissing, At
  <2>3. Registry!Answer(r, 404, Null)
    BY <2>1, <2>2, Settled DEF Settle, Goto, TypeOK, Registry!Answer
  <2>4. Registry!Suspend(r) \/ Registry!Resume(r)
    BY <1>11, <2>3, Asking DEF TransitionMissing, At, Registry!Suspend, Registry!Resume
  <2> QED BY <2>4 DEF Registry!Next
<1>12. ASSUME NEW r \in Requests, TransitionSelect(r) PROVE [Registry!Next]_(Registry!avars)
  <2> DEFINE here == row[call[r].key]
  <2>1. CASE StatusOf(here) # Required(call[r].op)
    <3>1. row' = [row EXCEPT ![call[r].key] = here]
      BY <1>12 DEF TransitionSelect, TypeOK
    <3>2. pc[r] = "select" /\ Settle(r, "raised", 409) /\ UNCHANGED call
      BY <1>12, <2>1 DEF TransitionSelect, At
    <3>3. Registry!Answer(r, 409, here)
      BY <3>1, <3>2, Settled DEF Settle, Goto, TypeOK, Registry!Answer
    <3>4. Registry!Suspend(r) \/ Registry!Resume(r)
      BY <1>12, <2>1, <3>3, Asking, NullAssumption
         DEF TransitionSelect, At, StatusOf, Required, Registry!Suspend, Registry!Resume,
             Registry!IsActive, Statuses
    <3> QED BY <3>4 DEF Registry!Next
  <2>2. CASE StatusOf(here) = Required(call[r].op)
    BY <1>12, <2>2, Invisible DEF TransitionSelect, At
  <2> QED BY <2>1, <2>2
<1>13. ASSUME NEW r \in Requests, TransitionWrite(r) PROVE Registry!Next
  <2> DEFINE here == row[call[r].key]
  <2>1. seen[r] = here /\ here # Null
    BY <1>13 DEF TransitionWrite, At, NoStaleWrite, LocksAreHeld
  <2>2. Registry!Answer(r, 202, [here EXCEPT !.status = Target(call[r].op)])
    BY <1>13, <2>1, Settled
       DEF TransitionWrite, At, Commit, Settle, Goto, TypeOK, Registry!Answer
  <2>3. StatusOf(here) = Required(call[r].op)
    BY <1>13, <2>1 DEF TransitionWrite, At, TransitionFits
  <2>4. Registry!Suspend(r) \/ Registry!Resume(r)
    BY <1>13, <2>1, <2>2, <2>3, Asking
       DEF TransitionWrite, At, StatusOf, Required, Target, Registry!Suspend,
           Registry!Resume, Registry!IsActive
  <2> QED BY <2>4 DEF Registry!Next
<1>14. ASSUME NEW r \in Requests, DispatchExit(r) PROVE UNCHANGED Registry!avars
  BY <1>14, Invisible DEF DispatchExit
<1>15. ASSUME NEW r \in Requests, Rollback(r) PROVE UNCHANGED Registry!avars
  BY <1>15, Invisible DEF Rollback
<1>16. ASSUME NEW r \in Requests, Respond(r) PROVE Registry!Next
  BY <1>16 DEF Respond, Goto, Stage, TypeOK, Stages, Registry!Forget, Registry!Next
<1>17. CASE UNCHANGED vars
  BY <1>17 DEF vars, Registry!avars, Stage
<1> QED
  BY <1>1, <1>2, <1>3, <1>4, <1>5, <1>6, <1>7, <1>8, <1>9, <1>10, <1>11, <1>12, <1>13,
     <1>14, <1>15, <1>16, <1>17 DEF Next, Server, Handler

\* The endpoints implement the registry: statements of concurrent handlers
\* interleave, locks are waited for, and yet each request acts atomically.
THEOREM Refinement == Spec => RegistrySpec
<1>1. Spec => []IInv
  BY Invariance
<1> QED
  BY <1>1, RefInit, RefStep, PTL DEF Spec, RegistrySpec, Registry!Spec

=============================================================================
