------------------------ MODULE SubscriptionRegistry ------------------------
(***************************************************************************)
(* What the subscription endpoints promise, with no event loop, threads or *)
(* locks: a table of subscriptions on which each request acts in a single  *)
(* step between the moment it is asked and the moment it is answered.      *)
(***************************************************************************)
EXTENDS Naturals

CONSTANTS Requests, Keys, Bodies, Null, Absent

VARIABLES
  row,     \* the subscriptions
  stage,   \* "idle", "asked" or "answered"
  call,    \* what each request asks for
  reply    \* the status code of its answer

avars == <<row, stage, call, reply>>

Asked ==
  [op : {"create", "patch"}, key : Keys, body : Bodies]
    \cup [op : {"delete", "suspend", "resume"}, key : Keys]

Init ==
  /\ row = [k \in Keys |-> Null]
  /\ stage = [r \in Requests |-> "idle"]
  /\ call = [r \in Requests |-> Null]
  /\ reply = [r \in Requests |-> 0]

Ask(r, c) ==
  /\ stage[r] = "idle"
  /\ stage' = [stage EXCEPT ![r] = "asked"]
  /\ call' = [call EXCEPT ![r] = c]
  /\ UNCHANGED <<row, reply>>

Asks(r, op) == stage[r] = "asked" /\ call[r].op = op

\* The request is answered with `code' and leaves `doc' in its row.
Answer(r, code, doc) ==
  /\ stage' = [stage EXCEPT ![r] = "answered"]
  /\ reply' = [reply EXCEPT ![r] = code]
  /\ row' = [row EXCEPT ![call[r].key] = doc]
  /\ UNCHANGED call

Overlay(old, new) ==
  [f \in {"status", "config"} |-> IF new[f] = Absent THEN old[f] ELSE new[f]]

IsActive(doc) == doc.status \in {"active", Absent}

\* A POST creates, once.
Create(r) ==
  LET here == row[call[r].key]
      body == call[r].body IN
  /\ Asks(r, "create")
  /\ IF here = Null
     THEN Answer(r, 201, Overlay([status |-> "active", config |-> Absent], body))
     ELSE Answer(r, 409, here)

\* A PATCH changes the fields it names and no other, or creates the row.
Patch(r) ==
  LET here == row[call[r].key]
      body == call[r].body IN
  /\ Asks(r, "patch")
  /\ Answer(r, 204, IF here = Null THEN body ELSE Overlay(here, body))

\* After a 204 the row is gone.  Of several deletions of one row more than one
\* may be told so.
Delete(r) ==
  /\ Asks(r, "delete")
  /\ \/ Answer(r, 204, Null)
     \/ row[call[r].key] = Null /\ Answer(r, 404, Null)

\* Suspending needs an active subscription and changes nothing but the status.
Suspend(r) ==
  LET here == row[call[r].key] IN
  /\ Asks(r, "suspend")
  /\ \/ here = Null /\ Answer(r, 404, here)
     \/ here # Null /\ ~IsActive(here) /\ Answer(r, 409, here)
     \/ here # Null /\ IsActive(here) /\ Answer(r, 202, [here EXCEPT !.status = "suspended"])

\* Resuming needs a suspended one.
Resume(r) ==
  LET here == row[call[r].key] IN
  /\ Asks(r, "resume")
  /\ \/ here = Null /\ Answer(r, 404, here)
     \/ here # Null /\ here.status # "suspended" /\ Answer(r, 409, here)
     \/ here # Null /\ here.status = "suspended" /\ Answer(r, 202, [here EXCEPT !.status = "active"])

Forget(r) ==
  /\ stage[r] = "answered"
  /\ stage' = [stage EXCEPT ![r] = "idle"]
  /\ call' = [call EXCEPT ![r] = Null]
  /\ reply' = [reply EXCEPT ![r] = 0]
  /\ UNCHANGED row

Next ==
  \E r \in Requests :
    \/ \E c \in Asked : Ask(r, c)
    \/ Create(r) \/ Patch(r) \/ Delete(r) \/ Suspend(r) \/ Resume(r)
    \/ Forget(r)

Spec == Init /\ [][Next]_avars

=============================================================================
