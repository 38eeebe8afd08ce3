--------------------------- MODULE EventDispatch ---------------------------
(***************************************************************************)
(* From a committed change to the webhooks: events.py.                     *)
(*                                                                         *)
(* A handler of rest.py queues one background task per changed entity and  *)
(* commits.  When its response has left, the tasks run one after the       *)
(* other on the event loop.  A task first looks up who is to get the event *)
(* (find_deliveries: one SELECT for the subscribers, then one for the      *)
(* subscriptions of each, all on the loop without an await), and then      *)
(* makes the data of the deliveries and posts them, one by one, giving up  *)
(* the loop while it waits for an answer: as long as the target is never   *)
(* silent for two seconds.  An exception ends the task and those queued    *)
(* behind it.  Nothing of this is stored: a crash of the process forgets   *)
(* the tasks and the delivery log.                                         *)
(*                                                                         *)
(* Subscriptions change meanwhile: create and PATCH on the loop, suspend,  *)
(* resume and the two DELETEs in worker threads.  Here each is one step,   *)
(* which module Subscriptions shows they amount to.                        *)
(***************************************************************************)
EXTENDS Naturals, Sequences, SequencesExt

CONSTANTS
  Requests,      \* connections on which entities are changed, or events emitted
  Subscribers,
  Subs,          \* subscriptions
  Owner,         \* the subscriber of each
  Types,         \* event types
  Deltas,        \* those that say what has changed
  Announced,     \* the sets of types one change may announce
  Docs,          \* the documents clients store for each subscription
  MaxEvents,     \* bound on the number of events
  LogSize,       \* maxlen of DELIVERY_LOGS
  MaxCrashes,    \* bound on the number of crashes
  Null           \* nobody, no row, JSON null

\* A subscription is posted to when it is of type https and it or its subscriber
\* has a url.  "events" is a list of types, empty when absent, or null.  passes are the
\* types whose events the filter lets through: legacy types are never filtered.
Document == [status : {"active", "suspended"}, target : BOOLEAN,
             events : Seq(Types) \cup {Null}, passes : SUBSET Types]

ASSUME DispatchAssumption ==
  /\ IsFiniteSet(Subs) /\ IsFiniteSet(Subscribers)
  /\ Owner \in [Subs -> Subscribers]
  /\ Announced \subseteq SUBSET Types /\ {} \notin Announced /\ Deltas \subseteq Types
  /\ Docs \in [Subs -> SUBSET Document]
  /\ Null \notin Requests \cup Subscribers \cup Document
  /\ Requests \cap Subscribers = {}
  /\ MaxEvents \in Nat /\ LogSize \in Nat \ {0} /\ MaxCrashes \in Nat

VARIABLES
  subscriber,    \* which subscribers exist
  found,         \* whether the PATCH under way has found its subscriber
  dismissed,     \* history: how many events there were when each was deleted, or Null if
                 \* it has been created since
  subscription,  \* the rows of the subscriptions table
  loop,          \* the request whose task occupies the event loop, or the subscriber
                 \* whose PATCH does
  pc,            \* where the background tasks of each request are
  todo,          \* the events they have not finished with, as queued
  roster,        \* the subscribers a scan has still to visit
  plan,          \* the deliveries of the first event not finished with
  answer,        \* what the target of the pending POST has answered
  wire,          \* POSTs a target may still take in
  received,      \* the deliveries the targets have taken in, in that order
  log,           \* DELIVERY_LOGS of this database
  made,          \* how many events there have been
  crashes,       \* how many crashes
  stopped        \* history: how many when each subscription that is inactive became so

vars == <<subscriber, found, dismissed, subscription, loop, pc, todo, roster, plan, answer, wire,
          received, log, made, crashes, stopped>>
tables == <<subscriber, found, dismissed, subscription, stopped>>

\* Making the data of an event, or the facts for the filters, raises for some types.
Event == [n : 1..MaxEvents, types : Announced \cup {{t} : t \in Types}, raises : SUBSET Types]
\* The i-th type in the events of sub is one of event n, announced by r; and whether
\* its filter lets that through.
Delivery == [r : Requests, n : 1..MaxEvents, sub : Subs, i : Nat \ {0}, type : Types,
             filter : BOOLEAN]
Entry == [log_type : {"action", "error"}, delivery : Delivery]

TypeOK ==
  /\ subscriber \in [Subscribers -> BOOLEAN]
  /\ subscription \in [Subs -> Document \cup {Null}]
  /\ found \in BOOLEAN /\ dismissed \in [Subscribers -> (0..MaxEvents) \cup {Null}]
  /\ loop \in Requests \cup Subscribers \cup {Null}
  /\ pc \in [Requests -> {"idle", "task", "scan", "send", "wait"}]
  /\ todo \in [Requests -> Seq(Event)]
  /\ roster \in [Requests -> Seq(Subscribers)]
  /\ plan \in [Requests -> Seq(Delivery)]
  /\ answer \in [Requests -> {"none", "ok", "error", "trickle"}]
  /\ wire \subseteq Delivery
  /\ received \in Seq(Delivery)
  /\ log \in Seq(Entry) /\ Len(log) <= LogSize
  /\ made \in 0..MaxEvents
  /\ crashes \in 0..MaxCrashes
  /\ stopped \in [Subs -> 0..MaxEvents]

Init ==
  /\ subscriber = [p \in Subscribers |-> TRUE] /\ found = FALSE
  /\ dismissed = [p \in Subscribers |-> Null]
  /\ subscription = [s \in Subs |-> Null]
  /\ loop = Null
  /\ pc = [r \in Requests |-> "idle"]
  /\ todo = [r \in Requests |-> <<>>]
  /\ roster = [r \in Requests |-> <<>>]
  /\ plan = [r \in Requests |-> <<>>]
  /\ answer = [r \in Requests |-> "none"]
  /\ log = <<>>
  /\ wire = {} /\ received = <<>>
  /\ made = 0 /\ crashes = 0
  /\ stopped = [s \in Subs |-> 0]

----------------------------------------------------------------------------
(* The changes of the tables. *)

IsActive(doc) == doc # Null /\ doc.status = "active"

SetSubscription(s, doc) ==
  /\ subscription' = [subscription EXCEPT ![s] = doc]
  /\ stopped' = [stopped EXCEPT ![s] =
                   IF IsActive(doc) THEN 0 ELSE IF IsActive(subscription[s]) THEN made ELSE @]
  /\ UNCHANGED <<subscriber, found, dismissed, loop, pc, todo, roster, plan, answer,
                 wire, received, log, made, crashes>>

\* create_subscription and patch_subscription, on the loop.
StoreSubscription(s) == loop = Null /\ \E doc \in Docs[s] : SetSubscription(s, doc)

\* suspend_subscription, resume_subscription and delete_subscription.
Transition(s) ==
  LET doc == subscription[s] IN
  /\ doc # Null
  /\ SetSubscription(s, [doc EXCEPT !.status =
                           IF @ = "active" THEN "suspended" ELSE "active"])

DeleteSubscription(s) == subscription[s] # Null /\ SetSubscription(s, Null)

SetSubscriber(p, exists) ==
  /\ subscriber' = [subscriber EXCEPT ![p] = exists]
  /\ dismissed' = [dismissed EXCEPT ![p] =
                     CASE subscriber[p] /\ ~exists -> made
                       [] exists /\ ~found -> Null
                       [] OTHER -> @]
  /\ UNCHANGED <<subscription, stopped, pc, todo, roster, plan, answer, wire, received,
                 log, made, crashes>>

\* create_subscriber; 409 changes nothing.  Only the loop inserts subscribers.
CreateSubscriber(p) ==
  /\ loop = Null /\ ~subscriber[p]
  /\ SetSubscriber(p, TRUE)
  /\ UNCHANGED <<loop, found>>

\* patch_subscriber reads without a lock.
PatchSelect(p) ==
  /\ loop = Null
  /\ loop' = p /\ found' = subscriber[p]
  /\ UNCHANGED <<subscriber, dismissed, subscription, stopped, pc, todo, roster, plan,
                 answer, wire, received, log, made, crashes>>

\* Variant: INSERT ... ON CONFLICT DO UPDATE in both cases.
PatchUpserts(p) ==
  /\ loop = p /\ loop' = Null /\ found' = FALSE
  /\ SetSubscriber(p, TRUE)

\* INSERT, or UPDATE, which does nothing if the row is gone.
PatchWrite(p) ==
  /\ loop = p /\ loop' = Null /\ found' = FALSE
  /\ SetSubscriber(p, IF found THEN subscriber[p] ELSE TRUE)

\* delete_subscriber, in a thread.
DeleteSubscriber(p) ==
  /\ subscriber[p]
  /\ SetSubscriber(p, FALSE)
  /\ UNCHANGED <<loop, found>>

----------------------------------------------------------------------------
(* Changes of entities. *)

\* Variant: the task that was queued last runs first.
LastInFirstOut(r, types, raises) ==
  LET k == Len(raises) IN
  /\ todo' = [todo EXCEPT ![r] =
                [j \in 1..k |-> [n |-> made + k + 1 - j, types |-> types, raises |-> raises[j]]]]
  /\ made' = made + k
  /\ pc' = [pc EXCEPT ![r] = "task"]
  /\ UNCHANGED <<tables, roster, plan, answer, wire, received, log, crashes>>

Enqueue(r, types, raises) ==
  LET k == Len(raises) IN
  /\ todo' = [todo EXCEPT ![r] =
                [j \in 1..k |-> [n |-> made + j, types |-> types, raises |-> raises[j]]]]
  /\ made' = made + k
  /\ pc' = [pc EXCEPT ![r] = "task"]
  /\ UNCHANGED <<tables, roster, plan, answer, wire, received, log, crashes>>

\* A handler commits up to two changes and its response leaves.  A DELETE changes one
\* entity in a worker thread, every other handler is on the loop.  Of a value with a
\* locale that is no string, say, no delta can be made.
Change(r) ==
  /\ pc[r] = "idle"
  /\ \E k \in 1..2, types \in Announced :
       /\ made + k <= MaxEvents
       /\ k = 1 \/ loop = Null
       /\ \E raises \in [1..k -> {{}, types \cap Deltas}] : Enqueue(r, types, raises)
  /\ UNCHANGED loop

\* emit_mock_event posts an event of one type that no change stands behind, before
\* it answers.  Its data are what the client sent: their author may be no object.
Emit(r) ==
  /\ pc[r] = "idle" /\ loop = Null
  /\ made < MaxEvents
  /\ \E t \in Types : \E raises \in {{}, {t}} : Enqueue(r, {t}, <<raises>>)
  /\ loop' = r

----------------------------------------------------------------------------
(* A background task: find_deliveries. *)

\* SELECT * FROM subscribers.  A task that follows another has the loop already.
StartTask(r) ==
  /\ pc[r] = "task" /\ loop \in {Null, r}
  /\ loop' = r
  /\ pc' = [pc EXCEPT ![r] = "scan"]
  /\ \E q \in SetToSeqs({p \in Subscribers : subscriber[p]}) :
       roster' = [roster EXCEPT ![r] = q]
  /\ UNCHANGED <<tables, todo, plan, answer, wire, received, log, made, crashes>>

\* Variant: the status is not looked at.
ReachableAnyway(doc) == doc # Null /\ doc.target

Reachable(doc) == doc # Null /\ doc.status = "active" /\ doc.target

\* Iterating over null raises.
Raises(doc) == Reachable(doc) /\ doc.events = Null

\* The deliveries that the row of s calls for.
DeliveriesOf(r, s) ==
  LET doc == subscription[s]
      e == Head(todo[r]) IN
  IF ~Reachable(doc) THEN {}
  ELSE {[r |-> r, n |-> e.n, sub |-> s, i |-> i, type |-> doc.events[i],
         filter |-> doc.events[i] \in doc.passes] :
          i \in {i \in DOMAIN doc.events : doc.events[i] \in e.types}}

\* Row by row, and for each row in the order of its list.
InRowOrder(q) ==
  \A j, k \in DOMAIN q :
    j < k /\ q[j].sub = q[k].sub => q[j].i < q[k].i /\ \A m \in j..k : q[m].sub = q[j].sub

\* SELECT * FROM subscriptions WHERE parent_id = p, in whatever order.
ScanSubscriber(r) ==
  LET rows == {s \in Subs : Owner[s] = Head(roster[r]) /\ subscription[s] # Null} IN
  /\ pc[r] = "scan" /\ roster[r] # <<>>
  /\ \A s \in rows : ~Raises(subscription[s])
  /\ \E q \in SetToSeqs(UNION {DeliveriesOf(r, s) : s \in rows}) :
       InRowOrder(q) /\ plan' = [plan EXCEPT ![r] = @ \o q]
  /\ roster' = [roster EXCEPT ![r] = Tail(@)]
  /\ UNCHANGED <<tables, loop, pc, todo, answer, wire, received, log, made, crashes>>

\* An exception in a task ends it and the tasks behind it.
Abandon(r) ==
  /\ pc' = [pc EXCEPT ![r] = "idle"]
  /\ loop' = Null
  /\ todo' = [todo EXCEPT ![r] = <<>>]
  /\ roster' = [roster EXCEPT ![r] = <<>>]
  /\ plan' = [plan EXCEPT ![r] = <<>>]
  /\ UNCHANGED <<tables, answer, wire, received, log, made, crashes>>

ScanRaises(r) ==
  /\ pc[r] = "scan" /\ roster[r] # <<>>
  /\ \E s \in Subs : Owner[s] = Head(roster[r]) /\ Raises(subscription[s])
  /\ Abandon(r)

EndScan(r) ==
  /\ pc[r] = "scan" /\ roster[r] = <<>>
  /\ pc' = [pc EXCEPT ![r] = "send"]
  /\ UNCHANGED <<tables, loop, todo, roster, plan, answer, wire, received, log, made,
                 crashes>>

----------------------------------------------------------------------------
(* A background task: the deliveries. *)

\* The data of d cannot be made, or the facts that its filter is asked about.
Unbuildable(r, d) == d.type \in Head(todo[r]).raises

\* build_event_data, filter_facts; or before that, when the types of the attributes
\* are looked up for the deltas.
BuildRaises(r) ==
  /\ \/ pc[r] = "scan" /\ roster[r] = <<>> /\ \E d \in Range(plan[r]) : Unbuildable(r, d)
     \/ pc[r] = "send" /\ plan[r] # <<>> /\ Unbuildable(r, Head(plan[r]))
  /\ Abandon(r)

\* The filter refuses the event.
Skip(r) ==
  /\ pc[r] = "send" /\ plan[r] # <<>>
  /\ ~Unbuildable(r, Head(plan[r])) /\ ~Head(plan[r]).filter
  /\ plan' = [plan EXCEPT ![r] = Tail(@)]
  /\ UNCHANGED <<tables, loop, pc, todo, roster, answer, wire, received, log, made, crashes>>

Post(r) ==
  /\ pc[r] = "send" /\ plan[r] # <<>>
  /\ ~Unbuildable(r, Head(plan[r])) /\ Head(plan[r]).filter
  /\ wire' = wire \cup {Head(plan[r])}
  /\ pc' = [pc EXCEPT ![r] = "wait"]
  /\ loop' = Null
  /\ UNCHANGED <<tables, todo, roster, plan, answer, received, log, made, crashes>>

\* The target takes in a POST and answers, or does not answer in time; or it begins to
\* answer and sends a byte now and then.
Take(d) ==
  /\ d \in wire
  /\ wire' = wire \ {d}
  /\ received' = Append(received, d)
  /\ \E a \in {"ok", "error", "none", "trickle"} :
       answer' = [r \in Requests |->
                    IF pc[r] = "wait" /\ Head(plan[r]) = d THEN a ELSE answer[r]]
  /\ UNCHANGED <<tables, loop, pc, todo, roster, plan, log, made, crashes>>

\* The answer is complete, or no more of it comes.  Nothing makes the target end it.
EndAnswer(r) ==
  /\ answer[r] = "trickle"
  /\ \E a \in {"ok", "error", "none"} : answer' = [answer EXCEPT ![r] = a]
  /\ UNCHANGED <<tables, loop, pc, todo, roster, plan, wire, received, log, made, crashes>>

\* Variant: the log grows without bound.
LoggedForever(entry) == Append(log, entry)

\* The log keeps the last LogSize entries.
Logged(entry) ==
  LET all == Append(log, entry) IN
  IF Len(all) > LogSize THEN Tail(all) ELSE all

\* A status below 400 is an action, any other and no status an error.
LogType(a) == IF a = "ok" THEN "action" ELSE "error"

\* Variant: there is no timeout.
FinishOnAnswer(r) ==
  LET d == Head(plan[r]) IN
  /\ pc[r] = "wait" /\ loop = Null /\ answer[r] \in {"ok", "error"}
  /\ log' = Logged([log_type |-> LogType(answer[r]), delivery |-> d])
  /\ plan' = [plan EXCEPT ![r] = Tail(@)]
  /\ answer' = [answer EXCEPT ![r] = "none"]
  /\ pc' = [pc EXCEPT ![r] = "send"]
  /\ loop' = r
  /\ UNCHANGED <<tables, wire, todo, roster, received, made, crashes>>

\* The answer, a timeout or a failed connection.  What was sent in vain is lost, or
\* is taken in later.  The timeout is one for each of the reads and writes of the POST:
\* a target that goes on answering keeps the task waiting.
Finish(r) ==
  LET d == Head(plan[r]) IN
  /\ pc[r] = "wait" /\ loop = Null /\ answer[r] # "trickle"
  /\ wire' \in {wire, wire \ {d}}
  /\ log' = Logged([log_type |-> LogType(answer[r]), delivery |-> d])
  /\ plan' = [plan EXCEPT ![r] = Tail(@)]
  /\ answer' = [answer EXCEPT ![r] = "none"]
  /\ pc' = [pc EXCEPT ![r] = "send"]
  /\ loop' = r
  /\ UNCHANGED <<tables, todo, roster, received, made, crashes>>

EndTask(r) ==
  /\ pc[r] = "send" /\ plan[r] = <<>>
  /\ todo' = [todo EXCEPT ![r] = Tail(@)]
  /\ IF Len(todo[r]) = 1
     THEN pc' = [pc EXCEPT ![r] = "idle"] /\ loop' = Null
     ELSE pc' = [pc EXCEPT ![r] = "task"] /\ UNCHANGED loop
  /\ UNCHANGED <<tables, roster, plan, answer, wire, received, log, made, crashes>>

\* The process is killed and started again.
Crash ==
  /\ crashes < MaxCrashes
  /\ crashes' = crashes + 1
  /\ loop' = Null /\ found' = FALSE
  /\ pc' = [r \in Requests |-> "idle"]
  /\ todo' = [r \in Requests |-> <<>>]
  /\ roster' = [r \in Requests |-> <<>>]
  /\ plan' = [r \in Requests |-> <<>>]
  /\ answer' = [r \in Requests |-> "none"]
  /\ log' = <<>>
  /\ UNCHANGED <<subscriber, dismissed, subscription, stopped, wire, received, made>>

Task(r) ==
  \/ StartTask(r) \/ ScanSubscriber(r) \/ ScanRaises(r) \/ EndScan(r)
  \/ BuildRaises(r) \/ Skip(r) \/ Post(r) \/ Finish(r) \/ EndTask(r)

Next ==
  \/ \E s \in Subs : StoreSubscription(s) \/ Transition(s) \/ DeleteSubscription(s)
  \/ \E p \in Subscribers :
       CreateSubscriber(p) \/ PatchSelect(p) \/ PatchWrite(p) \/ DeleteSubscriber(p)
  \/ \E r \in Requests : Change(r) \/ Emit(r) \/ Task(r) \/ EndAnswer(r)
  \/ \E d \in wire : Take(d)
  \/ Crash

Spec == Init /\ [][Next]_vars

\* asyncio runs what is ready in order, and a POST is over two seconds after it last
\* moved: a task that can go on again and again does, and a handler that has the loop
\* ends.  Targets need not answer, nor come to the end of an answer.
FairSpec ==
  /\ Spec
  /\ \A r \in Requests : SF_vars(Task(r))
  /\ \A p \in Subscribers : WF_vars(PatchWrite(p))

----------------------------------------------------------------------------
(* Properties. *)

AllDeliveries == wire \cup Range(received) \cup UNION {Range(plan[r]) : r \in Requests}

\* What is committed after a subscription became inactive is never sent to it, as
\* long as it stays so.  (An earlier event may be: its deliveries are looked up once,
\* so a POST can leave after the suspension was acknowledged.)  Nor is it sent once the
\* subscriber was deleted, until that is created again, by POST or by a PATCH that
\* found it gone: a PATCH that had found it before does not bring it back.
InactiveMissesLaterEvents ==
  \A d \in AllDeliveries :
    LET p == Owner[d.sub] IN
    /\ ~IsActive(subscription[d.sub]) => d.n <= stopped[d.sub]
    /\ dismissed[p] # Null => d.n <= dismissed[p]

\* The events of one batch are sent in the order they were committed in: while an
\* event is not finished with, no later one has left for any target.
InOrder ==
  \A r \in Requests, d \in wire \cup Range(received) :
    d.r = r => \A e \in Range(todo[r]) : d.n <= e.n

\* Subscription s is owed event e.
Wants(s, e) ==
  /\ subscriber[Owner[s]]
  /\ Reachable(subscription[s]) /\ subscription[s].events # Null
  /\ e.types \cap Range(subscription[s].events) \cap subscription[s].passes # {}

Attempted(s, n) ==
  \E entry \in Range(log) : entry.delivery.sub = s /\ entry.delivery.n = n

\* Event e of r is queued and has not been looked up yet.
Queued(r, e) == e \in Range(todo[r]) /\ (e = Head(todo[r]) => pc[r] = "task")

\* The data of e and of the events before it can be made.
Buildable(r, e) == \A f \in Range(todo[r]) : f.n <= e.n => f.raises = {}

\* Every event is tried on every subscription that wants it, however many targets do
\* not answer.  Not if an exception ends its task or one it is queued behind, in
\* making the data (events.py:141) or because a subscription has null for events
\* (events.py:541); if the process dies; or if a target answers a POST of the same
\* request without end (events.py:501).
EveryoneIsTried ==
  \A r \in Requests, s \in Subs, e \in {e \in Event : e.raises = {}} :
    \/ (Queued(r, e) /\ Buildable(r, e) /\ Wants(s, e))
         ~> \/ Attempted(s, e.n) \/ ~Wants(s, e)
            \/ crashes > 0 \/ \E t \in Subs : Raises(subscription[t])
    \/ <>[](answer[r] = "trickle")

=============================================================================
