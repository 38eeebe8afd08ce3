--------------------------- MODULE Subscriptions ---------------------------
(***************************************************************************)
(* The subscription endpoints of routers/event_platform.py.                *)
(*                                                                         *)
(* One Python process serves every request.  An `async def' handler        *)
(* (create_subscription, patch_subscription) runs on the event loop, and   *)
(* since it calls the database synchronously nothing else runs on the loop *)
(* until it returns.  A plain `def' handler (delete, suspend, resume) runs *)
(* in a worker thread: its SQL statements interleave with everything else. *)
(* What a handler leaves behind when it raises is undone by the exit of    *)
(* the get_db dependency, which the event loop has to dispatch.            *)
(*                                                                         *)
(* PostgreSQL runs at READ COMMITTED.  SELECT ... FOR UPDATE, UPDATE and   *)
(* DELETE lock the row until the transaction ends; a statement that meets  *)
(* a locked row waits and then looks at the newly committed row; a plain   *)
(* SELECT never waits.  A transaction here touches one row at most.        *)
(***************************************************************************)
EXTENDS Naturals

CONSTANTS
  Requests,   \* connections a client sends its requests on, one at a time
  Keys,       \* the pk "<subscriber_id>/<subscription_id>" of a subscription
  Configs,    \* what a client may store besides the status
  Bodies,     \* the bodies clients send
  Null,       \* no request, no row, no call
  Absent      \* a field that a body or a stored document does not have

\* The statuses a document may hold.  "revoked" stands for any value other than
\* the two the handlers compare with: neither POST nor PATCH restricts it.
Statuses == {"active", "suspended", "revoked"}

ASSUME NullAssumption ==
  /\ Null \notin Requests
  /\ Absent \notin Statuses \cup Configs

\* The JSON document in subscriptions.data, and the body of a POST or a PATCH.
Document == [status : Statuses \cup {Absent}, config : Configs \cup {Absent}]

AsyncOps == {"create", "patch"}
SyncOps == {"delete", "suspend", "resume"}
Calls == [op : AsyncOps, key : Keys, body : Bodies] \cup [op : SyncOps, key : Keys]

\* HTTP status codes of the replies; 0 while there is none.
Codes == {0, 201, 202, 204, 404, 409}

ASSUME BodiesAssumption == Bodies \subseteq Document

ASSUME NoRowAssumption == Null \notin Document /\ Null \notin Calls

VARIABLES
  row,      \* the committed rows of the subscriptions table
  holder,   \* the request whose transaction holds the lock of a row
  loop,     \* the request whose async handler occupies the event loop
  pc,       \* where each request is
  call,     \* what each request asks for
  seen,     \* the row its FOR UPDATE returned
  reply     \* the HTTP status its handler has settled on

vars == <<row, holder, loop, pc, call, seen, reply>>

Stages == {"idle", "received", "select", "write", "commit", "raised", "exiting", "done"}

TypeOK ==
  /\ row \in [Keys -> Document \cup {Null}]
  /\ holder \in [Keys -> Requests \cup {Null}]
  /\ loop \in Requests \cup {Null}
  /\ pc \in [Requests -> Stages]
  /\ call \in [Requests -> Calls \cup {Null}]
  /\ seen \in [Requests -> Document \cup {Null}]
  /\ reply \in [Requests -> Codes]

Init ==
  /\ row = [k \in Keys |-> Null]
  /\ holder = [k \in Keys |-> Null]
  /\ loop = Null
  /\ pc = [r \in Requests |-> "idle"]
  /\ call = [r \in Requests |-> Null]
  /\ seen = [r \in Requests |-> Null]
  /\ reply = [r \in Requests |-> 0]

----------------------------------------------------------------------------
(* Documents. *)

\* existing.update(data)
Merge(old, new) ==
  [f \in {"status", "config"} |-> IF new[f] = Absent THEN old[f] ELSE new[f]]

\* Variant: the defaults override the client.
DefaultsOverride(data) == [data EXCEPT !.status = "active"]

WithSubscriptionDefaults(data) ==
  [data EXCEPT !.status = IF @ = Absent THEN "active" ELSE @]

\* data.get("status", "active")
StatusOf(doc) == IF doc.status = Absent THEN "active" ELSE doc.status

\* The status a transition requires and the one it sets.
Required(op) == IF op = "suspend" THEN "active" ELSE "suspended"
\* Variant: the status is named after the operation.
TargetIsOperation(op) == op
Target(op) == IF op = "suspend" THEN "suspended" ELSE "active"

----------------------------------------------------------------------------
(* Requests, the event loop and row locks. *)

At(r, stage, ops) == pc[r] = stage /\ call[r].op \in ops

Goto(r, stage) == pc' = [pc EXCEPT ![r] = stage]

\* The handler of r has its answer.  An async handler gives the loop back.
Settle(r, stage, code) ==
  /\ Goto(r, stage)
  /\ reply' = [reply EXCEPT ![r] = code]
  /\ loop' = IF loop = r THEN Null ELSE loop

Commit(r, doc) ==
  /\ row' = [row EXCEPT ![call[r].key] = doc]
  /\ holder' = [holder EXCEPT ![call[r].key] = Null]

\* A locking statement of r can go ahead on the row it selects.
Unlocked(k) == holder[k] = Null

\* Accepting a request and calling its handler is the loop's work; a sync
\* handler goes to a worker thread at once, an async one waits for its turn.
Receive(r, c) ==
  /\ pc[r] = "idle"
  /\ loop = Null
  /\ Goto(r, IF c.op \in AsyncOps THEN "received" ELSE "select")
  /\ call' = [call EXCEPT ![r] = c]
  /\ UNCHANGED <<row, holder, loop, seen, reply>>

StartHandler(r) ==
  /\ At(r, "received", AsyncOps)
  /\ loop = Null
  /\ loop' = r
  /\ Goto(r, "select")
  /\ UNCHANGED <<row, holder, call, seen, reply>>

----------------------------------------------------------------------------
(* create_subscription: SELECT, then 409 or INSERT and commit. *)

CreateSelect(r) ==
  /\ At(r, "select", {"create"})
  /\ \/ /\ row[call[r].key] # Null
        /\ Settle(r, "raised", 409)
     \/ /\ row[call[r].key] = Null
        /\ Goto(r, "write")
        /\ UNCHANGED <<loop, reply>>
  /\ UNCHANGED <<row, holder, call, seen>>

CreateInsert(r) ==
  /\ At(r, "write", {"create"})
  /\ row' = [row EXCEPT ![call[r].key] = WithSubscriptionDefaults(call[r].body)]
  /\ Settle(r, "done", 201)
  /\ UNCHANGED <<holder, call, seen>>

(* patch_subscription: SELECT ... FOR UPDATE, then INSERT without defaults or
   UPDATE with the merged document, and commit. *)

\* Variant: without FOR UPDATE.
PlainSelect(r) ==
  /\ seen' = [seen EXCEPT ![r] = row[call[r].key]]
  /\ UNCHANGED holder

\* SELECT ... FOR UPDATE: no row and no lock, or the row and its lock.
SelectForUpdate(r) ==
  LET k == call[r].key IN
  /\ row[k] # Null => Unlocked(k)
  /\ seen' = [seen EXCEPT ![r] = row[k]]
  /\ holder' = IF row[k] = Null THEN holder ELSE [holder EXCEPT ![k] = r]

PatchSelect(r) ==
  /\ At(r, "select", {"patch"})
  /\ SelectForUpdate(r)
  /\ Goto(r, "write")
  /\ UNCHANGED <<row, loop, call, reply>>

PatchWrite(r) ==
  /\ At(r, "write", {"patch"})
  /\ IF seen[r] = Null
     THEN /\ row' = [row EXCEPT ![call[r].key] = call[r].body]
          /\ UNCHANGED holder
     ELSE Commit(r, Merge(seen[r], call[r].body))
  /\ Settle(r, "done", 204)
  /\ UNCHANGED <<call, seen>>

----------------------------------------------------------------------------
(* delete_subscription, in a worker thread: SELECT, DELETE, commit.  The count
   of deleted rows is not looked at. *)

DeleteSelect(r) ==
  /\ At(r, "select", {"delete"})
  /\ \/ /\ row[call[r].key] = Null
        /\ Settle(r, "raised", 404)
     \/ /\ row[call[r].key] # Null
        /\ Goto(r, "write")
        /\ UNCHANGED <<loop, reply>>
  /\ UNCHANGED <<row, holder, call, seen>>

\* The row is gone: the DELETE matches nothing and there is nothing to commit.
DeleteNothing(r) ==
  /\ At(r, "write", {"delete"})
  /\ row[call[r].key] = Null
  /\ Settle(r, "done", 204)
  /\ UNCHANGED <<row, holder, call, seen>>

DeleteRow(r) ==
  LET k == call[r].key IN
  /\ At(r, "write", {"delete"})
  /\ row[k] # Null /\ Unlocked(k)
  /\ holder' = [holder EXCEPT ![k] = r]
  /\ Goto(r, "commit")
  /\ UNCHANGED <<row, loop, call, seen, reply>>

DeleteCommit(r) ==
  /\ At(r, "commit", {"delete"})
  /\ Commit(r, Null)
  /\ Settle(r, "done", 204)
  /\ UNCHANGED <<call, seen>>

(* _transition_subscription, in a worker thread.  The 409 is raised with the
   row lock held. *)

TransitionMissing(r) ==
  /\ At(r, "select", {"suspend", "resume"})
  /\ row[call[r].key] = Null
  /\ Settle(r, "raised", 404)
  /\ UNCHANGED <<row, holder, call, seen>>

TransitionSelect(r) ==
  LET k == call[r].key IN
  /\ At(r, "select", {"suspend", "resume"})
  /\ row[k] # Null
  /\ SelectForUpdate(r)
  /\ IF StatusOf(row[k]) # Required(call[r].op)
     THEN Settle(r, "raised", 409)
     ELSE Goto(r, "write") /\ UNCHANGED <<loop, reply>>
  /\ UNCHANGED <<row, call>>

TransitionWrite(r) ==
  /\ At(r, "write", {"suspend", "resume"})
  /\ Commit(r, [seen[r] EXCEPT !.status = Target(call[r].op)])
  /\ Settle(r, "done", 202)
  /\ UNCHANGED <<call, seen>>

----------------------------------------------------------------------------
(* The exit of get_db.  The loop resumes the task of a handler that raised and
   sends the exit of the connection's context to a worker thread. *)

DispatchExit(r) ==
  /\ pc[r] = "raised"
  /\ loop = Null
  /\ Goto(r, "exiting")
  /\ UNCHANGED <<row, holder, loop, call, seen, reply>>

\* Variant: the connection goes back to the pool with its transaction open.
NoRollback(r) ==
  /\ pc[r] = "exiting"
  /\ Goto(r, "done")
  /\ UNCHANGED <<row, holder, loop, call, seen, reply>>

Rollback(r) ==
  LET k == call[r].key IN
  /\ pc[r] = "exiting"
  /\ holder' = IF holder[k] = r THEN [holder EXCEPT ![k] = Null] ELSE holder
  /\ Goto(r, "done")
  /\ UNCHANGED <<row, loop, call, seen, reply>>

\* The response has left; the client may send its next request.
Respond(r) ==
  /\ pc[r] = "done"
  /\ loop = Null
  /\ Goto(r, "idle")
  /\ call' = [call EXCEPT ![r] = Null]
  /\ seen' = [seen EXCEPT ![r] = Null]
  /\ reply' = [reply EXCEPT ![r] = 0]
  /\ UNCHANGED <<row, holder, loop>>

Handler(r) ==
  \/ CreateSelect(r) \/ CreateInsert(r)
  \/ PatchSelect(r) \/ PatchWrite(r)
  \/ DeleteSelect(r) \/ DeleteNothing(r) \/ DeleteRow(r) \/ DeleteCommit(r)
  \/ TransitionMissing(r) \/ TransitionSelect(r) \/ TransitionWrite(r)

Server(r) == StartHandler(r) \/ Handler(r) \/ DispatchExit(r) \/ Rollback(r) \/ Respond(r)

Next == \E r \in Requests : Server(r) \/ \E c \in Calls : Receive(r, c)

Spec == Init /\ [][Next]_vars

\* asyncio runs its ready tasks in order and PostgreSQL grants a row lock in the
\* order it was asked for, so nobody is passed over for ever: strong fairness.
\* Nothing obliges a client to send a request.
FairSpec == Spec /\ \A r \in Requests : SF_vars(Server(r))

----------------------------------------------------------------------------
(* Properties. *)

\* A read-modify-write never writes from a stale read: what PATCH, suspend and
\* resume read with FOR UPDATE is still the committed row when they write it, and
\* a row that POST or PATCH found missing is still missing when they INSERT it.
\* For the first the row lock is needed, for the second that only handlers on the
\* event loop insert.
NoStaleWrite ==
  \A r \in Requests :
    pc[r] = "write" =>
      /\ call[r].op \in {"patch", "suspend", "resume"} => seen[r] = row[call[r].key]
      /\ call[r].op = "create" => row[call[r].key] = Null

\* A lock outlives its handler only when a transition raised 409, and is never
\* held by a request that has been answered or by one for another row.
LocksAreOwned ==
  \A k \in Keys : holder[k] # Null =>
    LET r == holder[k] IN
    /\ call[r] # Null /\ call[r].key = k
    /\ \/ pc[r] \in {"write", "commit"}
       \/ pc[r] \in {"raised", "exiting"} /\ reply[r] = 409

\* The event loop is blocked on a row lock whose holder cannot let go of it: the
\* lock is released by the exit of get_db, which the blocked loop should dispatch.
LoopStuck ==
  \E r, h \in Requests :
    /\ loop = r /\ At(r, "select", {"patch"})
    /\ holder[call[r].key] = h /\ pc[h] = "raised"

\* A 409 of suspend or resume racing a PATCH of the same subscription
\* (event_platform.py:226 and :179) is the only way a request can hang: unless the
\* loop gets stuck, every request that was received is answered.
AnsweredUnlessStuck ==
  \A r \in Requests : (pc[r] # "idle") ~> (pc[r] = "idle" \/ LoopStuck)

\* What the registry sees of a request.
Stage(r) ==
  IF pc[r] = "idle" THEN "idle" ELSE IF reply[r] = 0 THEN "asked" ELSE "answered"

Registry == INSTANCE SubscriptionRegistry WITH stage <- [r \in Requests |-> Stage(r)]

\* Every request takes effect at once, somewhere between its arrival and its
\* answer, as the registry specifies it.
RegistrySpec == Registry!Spec

=============================================================================
