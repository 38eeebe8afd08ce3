---------------------------- MODULE EventProofs ----------------------------
(***************************************************************************)
(* Proofs about EventDispatch, for any numbers of requests, subscribers,   *)
(* subscriptions, events and crashes; about the parser in EventFilter, for *)
(* all expressions and facts; and about Contents, for any kinds, bodies of *)
(* requests, filters and numbers of changes: what subscribers have, and    *)
(* what PATCH makes of documents of any depth.                             *)
(***************************************************************************)
EXTENDS EventDispatch, Contents, FiniteSetTheorems, SequenceTheorems, TLAPS

\* A task that scans or decides what to send next has the event loop, and so has a
\* PATCH that has found its subscriber.
LoopFits ==
  /\ \A r \in Requests : pc[r] \in {"scan", "send"} => loop = r
  /\ found => loop \in Subscribers

\* Subscribers that exist have not been dismissed.
DismissedAreGone == \A p \in Subscribers : subscriber[p] => dismissed[p] = Null

\* What a request in each stage has to do.
QueuesFit ==
  \A r \in Requests :
    /\ pc[r] = "idle" <=> todo[r] = <<>>
    /\ pc[r] \in {"idle", "task"} => plan[r] = <<>>
    /\ pc[r] = "wait" => plan[r] # <<>>

\* The events of a request are queued in the order of their commits.
TodoFits ==
  \A r \in Requests :
    \A j \in DOMAIN todo[r] :
      /\ todo[r][j].n <= made
      /\ \A k \in DOMAIN todo[r] : j < k => todo[r][j].n < todo[r][k].n

\* The deliveries planned are of the first of them.
PlanFits ==
  \A r \in Requests : \A d \in Range(plan[r]) : d.r = r /\ d.n = Head(todo[r]).n

\* Nothing is sent that has not happened.
SentFits == \A d \in wire \cup Range(received) : d.n <= made

\* A subscriber that a scan has still to visit was there when it began.
RosterFits ==
  \A r \in Requests :
    pc[r] = "scan" =>
      \A p \in Range(roster[r]) : dismissed[p] # Null => Head(todo[r]).n <= dismissed[p]

Base == TypeOK /\ LoopFits /\ DismissedAreGone /\ QueuesFit /\ TodoFits /\ PlanFits /\ SentFits
EInv == Base /\ RosterFits /\ InOrder /\ InactiveMissesLaterEvents

----------------------------------------------------------------------------
(* Sequences. *)

\* The empty sequence has no elements.
LEMMA EmptyRange == Range(<<>>) = {}
BY DEF Range

\* What a first element is and what the others are.
LEMMA HeadAndTail ==
  ASSUME NEW S, NEW q \in Seq(S), q # <<>>
  PROVE  /\ Head(q) \in S /\ Head(q) \in Range(q) /\ Head(q) = q[1] /\ 1 \in DOMAIN q
         /\ Tail(q) \in Seq(S) /\ Range(Tail(q)) \subseteq Range(q)
         /\ DOMAIN Tail(q) = 1..(Len(q) - 1) /\ \A j \in DOMAIN Tail(q) : Tail(q)[j] = q[j + 1]
<1>1. Len(q) \in Nat \ {0} /\ DOMAIN q = 1..Len(q)
  BY EmptySeq, LenProperties
<1>2. Tail(q) \in Seq(S) /\ Len(Tail(q)) = Len(q) - 1 /\ \A j \in 1..(Len(q) - 1) : Tail(q)[j] = q[j + 1]
  BY HeadTailProperties
<1>3. DOMAIN Tail(q) = 1..(Len(q) - 1)
  BY <1>2, LenProperties
<1>4. Range(Tail(q)) \subseteq Range(q)
  BY <1>1, <1>2, <1>3 DEF Range
<1>5. Head(q) = q[1] /\ q[1] \in S /\ 1 \in DOMAIN q
  BY <1>1, ElementOfSeq
<1> QED
  BY <1>2, <1>3, <1>4, <1>5 DEF Range

\* What an appended sequence has.
LEMMA Appended ==
  ASSUME NEW S, NEW q \in Seq(S), NEW x \in S
  PROVE  Append(q, x) \in Seq(S) /\ Range(Append(q, x)) = Range(q) \cup {x}
<1>1. /\ Append(q, x) \in Seq(S) /\ Len(Append(q, x)) = Len(q) + 1
      /\ \A i \in 1..Len(q) : Append(q, x)[i] = q[i]
      /\ Append(q, x)[Len(q) + 1] = x
  BY AppendProperties
<1>2. Len(q) \in Nat /\ DOMAIN q = 1..Len(q) /\ DOMAIN Append(q, x) = 1..(Len(q) + 1)
  BY <1>1, LenProperties
<1> QED
  BY <1>1, <1>2 DEF Range

\* The elements of an ordering are those of the set.
LEMMA OrderedSet ==
  ASSUME NEW S, IsFiniteSet(S), NEW q \in SetToSeqs(S)
  PROVE  q \in Seq(S) /\ Range(q) \subseteq S
<1>1. Cardinality(S) \in Nat
  BY FS_CardinalityType
<1>2. q \in [1..Cardinality(S) -> S]
  BY DEF SetToSeqs
<1>3. q \in Seq(S)
  BY <1>1, <1>2, IsASeq
<1> QED
  BY <1>3, RangeOfSeq

----------------------------------------------------------------------------
(* The initial states. *)

\* At first there are no events and every subscriber exists.
LEMMA EInvInit == Init => EInv
<1> SUFFICES ASSUME Init PROVE EInv
  OBVIOUS
<1> USE DispatchAssumption, EmptyRange, EmptySeq DEF Init
<1>1. TypeOK
  <2>1. /\ todo \in [Requests -> Seq(Event)] /\ roster \in [Requests -> Seq(Subscribers)]
        /\ plan \in [Requests -> Seq(Delivery)] /\ received \in Seq(Delivery)
        /\ log \in Seq(Entry) /\ Len(log) = 0
    OBVIOUS
  <2>2. subscriber \in [Subscribers -> BOOLEAN] /\ found \in BOOLEAN
    OBVIOUS
  <2>3. /\ subscription \in [Subs -> Document \cup {Null}] /\ stopped \in [Subs -> 0..MaxEvents]
        /\ dismissed \in [Subscribers -> (0..MaxEvents) \cup {Null}]
    OBVIOUS
  <2>4. /\ loop \in Requests \cup Subscribers \cup {Null} /\ wire \subseteq Delivery
        /\ pc \in [Requests -> {"idle", "task", "scan", "send", "wait"}]
        /\ answer \in [Requests -> {"none", "ok", "error", "trickle"}]
        /\ made \in 0..MaxEvents /\ crashes \in 0..MaxCrashes
    OBVIOUS
  <2> QED
    BY <2>1, <2>2, <2>3, <2>4 DEF TypeOK
<1>2. LoopFits /\ DismissedAreGone /\ QueuesFit
  BY DEF LoopFits, DismissedAreGone, QueuesFit
<1>3. TodoFits /\ PlanFits /\ SentFits /\ RosterFits
  BY DEF TodoFits, PlanFits, SentFits, RosterFits
<1>4. InOrder /\ InactiveMissesLaterEvents
  BY DEF InOrder, InactiveMissesLaterEvents, AllDeliveries
<1> QED
  BY <1>1, <1>2, <1>3, <1>4 DEF EInv, Base

----------------------------------------------------------------------------
(* Changes of the tables. *)

\* Every delivery there is is of an event there has been.
LEMMA DeliveriesAreMade ==
  ASSUME Base, NEW d \in AllDeliveries
  PROVE  d \in Delivery /\ d.n <= made /\ Owner[d.sub] \in Subscribers
<1> USE DEF Base, TypeOK
<1>1. d \in Delivery /\ d.n <= made
  <2>1. CASE d \in wire \cup Range(received)
    BY <2>1, RangeOfSeq DEF SentFits
  <2>2. ASSUME NEW r \in Requests, d \in Range(plan[r]) PROVE d \in Delivery /\ d.n <= made
    <3>1. plan[r] # <<>>
      BY <2>2, EmptyRange
    <3>2. todo[r] # <<>>
      BY <3>1 DEF QueuesFit
    <3>3. Head(todo[r]) = todo[r][1] /\ 1 \in DOMAIN todo[r]
      BY <3>2, HeadAndTail
    <3>4. d.n = todo[r][1].n
      BY <2>2, <3>3 DEF PlanFits
    <3> QED
      BY <2>2, <3>3, <3>4, RangeOfSeq DEF TodoFits
  <2> QED
    BY <2>1, <2>2 DEF AllDeliveries
<1> QED
  BY <1>1, DispatchAssumption DEF Delivery

\* What changes only the table of subscriptions keeps the invariant: a subscription
\* that becomes inactive remembers how many events there have been.
LEMMA SubscriptionStep ==
  ASSUME EInv, NEW s \in Subs, NEW doc \in Document \cup {Null}, SetSubscription(s, doc)
  PROVE  EInv'
<1> USE DispatchAssumption DEF EInv, SetSubscription
<1>1. TypeOK'
  BY DEF Base, TypeOK
<1>2. Base' /\ RosterFits' /\ InOrder'
  BY <1>1 DEF Base, LoopFits, DismissedAreGone, QueuesFit, TodoFits, PlanFits, SentFits, RosterFits, InOrder
<1>3. InactiveMissesLaterEvents'
  <2> SUFFICES ASSUME NEW d \in AllDeliveries
               PROVE  /\ ~IsActive(subscription'[d.sub]) => d.n <= stopped'[d.sub]
                      /\ dismissed[Owner[d.sub]] # Null => d.n <= dismissed[Owner[d.sub]]
    BY DEF InactiveMissesLaterEvents, AllDeliveries
  <2>1. d \in Delivery /\ d.n <= made /\ d.sub \in Subs
    BY DeliveriesAreMade DEF Delivery
  <2>2. /\ ~IsActive(subscription[d.sub]) => d.n <= stopped[d.sub]
        /\ dismissed[Owner[d.sub]] # Null => d.n <= dismissed[Owner[d.sub]]
    BY DEF InactiveMissesLaterEvents
  <2>3. CASE d.sub # s
    BY <2>1, <2>2, <2>3 DEF Base, TypeOK
  <2>4. CASE d.sub = s
    <3>1. subscription'[s] = doc
      BY DEF Base, TypeOK
    <3>2. ASSUME IsActive(subscription[s]), ~IsActive(doc) PROVE stopped'[s] = made
      BY <3>2 DEF Base, TypeOK
    <3>3. ASSUME ~IsActive(subscription[s]), ~IsActive(doc) PROVE stopped'[s] = stopped[s]
      BY <3>3 DEF Base, TypeOK
    <3> QED
      BY <2>1, <2>2, <2>4, <3>1, <3>2, <3>3
  <2> QED
    BY <2>2, <2>3, <2>4
<1> QED
  BY <1>2, <1>3

\* The three changes that clients make are of that kind.
LEMMA SubscriptionSteps ==
  ASSUME EInv, NEW s \in Subs, StoreSubscription(s) \/ Transition(s) \/ DeleteSubscription(s)
  PROVE  EInv'
<1>1. CASE StoreSubscription(s)
  BY <1>1, SubscriptionStep, DispatchAssumption DEF StoreSubscription
<1>2. CASE Transition(s)
  <2>1. subscription[s] \in Document
    BY <1>2 DEF Transition, EInv, Base, TypeOK
  <2>2. [subscription[s] EXCEPT !.status = IF @ = "active" THEN "suspended" ELSE "active"] \in Document
    BY <2>1 DEF Document
  <2> QED
    BY <1>2, <2>2, SubscriptionStep DEF Transition
<1>3. CASE DeleteSubscription(s)
  BY <1>3, SubscriptionStep DEF DeleteSubscription
<1> QED
  BY <1>1, <1>2, <1>3

\* Creating a subscriber that is not being patched, or deleting one, keeps the
\* invariant: one that is deleted remembers how many events there have been.
LEMMA SubscriberStep ==
  ASSUME EInv, NEW p \in Subscribers, NEW exists \in BOOLEAN, SetSubscriber(p, exists),
         exists /\ found => subscriber[p],
         loop' \in {loop, Null}, loop = Null \/ loop \in Subscribers \/ loop' = loop,
         found' \in {found, FALSE}, loop' # loop => found' = FALSE
  PROVE  EInv'
<1> USE DispatchAssumption DEF EInv, SetSubscriber
<1>1. TypeOK'
  BY DEF Base, TypeOK
<1>2. LoopFits'
  <2>1. ASSUME NEW r \in Requests, pc[r] \in {"scan", "send"} PROVE loop' = r
    <3>1. loop = r /\ loop # Null /\ loop \notin Subscribers
      BY <2>1 DEF Base, LoopFits
    <3> QED
      BY <3>1
  <2>2. found' => found /\ loop' = loop
    OBVIOUS
  <2> QED
    BY <2>1, <2>2 DEF Base, LoopFits
<1>3. DismissedAreGone'
  BY DEF Base, TypeOK, DismissedAreGone
<1>4. Base' /\ InOrder'
  BY <1>1, <1>2, <1>3 DEF Base, QueuesFit, TodoFits, PlanFits, SentFits, InOrder
<1>5. \A x \in Subscribers : dismissed'[x] \in {dismissed[x], made, Null}
  BY DEF Base, TypeOK
<1>6. RosterFits'
  <2> SUFFICES ASSUME NEW r \in Requests, pc[r] = "scan", NEW x \in Range(roster[r]), dismissed'[x] # Null
               PROVE  Head(todo[r]).n <= dismissed'[x]
    BY DEF RosterFits
  <2>1. x \in Subscribers
    BY RangeOfSeq DEF Base, TypeOK
  <2>2. Head(todo[r]).n <= made
    BY HeadAndTail DEF Base, TypeOK, QueuesFit, TodoFits
  <2> QED
    BY <1>5, <2>1, <2>2 DEF RosterFits
<1>7. InactiveMissesLaterEvents'
  <2> SUFFICES ASSUME NEW d \in AllDeliveries
               PROVE  /\ ~IsActive(subscription[d.sub]) => d.n <= stopped[d.sub]
                      /\ dismissed'[Owner[d.sub]] # Null => d.n <= dismissed'[Owner[d.sub]]
    BY DEF InactiveMissesLaterEvents, AllDeliveries
  <2>1. d \in Delivery /\ d.n <= made /\ Owner[d.sub] \in Subscribers
    BY DeliveriesAreMade
  <2> QED
    BY <1>5, <2>1 DEF InactiveMissesLaterEvents
<1> QED
  BY <1>4, <1>6, <1>7


\* The changes of subscribers are of that kind; the SELECT of a PATCH takes the loop.
LEMMA SubscriberSteps ==
  ASSUME EInv, NEW p \in Subscribers,
         CreateSubscriber(p) \/ PatchSelect(p) \/ PatchWrite(p) \/ DeleteSubscriber(p)
  PROVE  EInv'
<1>1. CASE CreateSubscriber(p)
  <2>1. ~found /\ loop = Null
    BY <1>1, DispatchAssumption DEF CreateSubscriber, EInv, Base, LoopFits
  <2> QED
    BY <1>1, <2>1, SubscriberStep DEF CreateSubscriber
<1>2. CASE PatchSelect(p)
  <2> USE <1>2, DispatchAssumption DEF PatchSelect, EInv
  <2>1. TypeOK'
    BY DEF Base, TypeOK
  <2>2. LoopFits'
    BY DEF Base, LoopFits
  <2> QED
    BY <2>1, <2>2 DEF Base, DismissedAreGone, QueuesFit, TodoFits, PlanFits, SentFits, RosterFits, InOrder,
       InactiveMissesLaterEvents, AllDeliveries
<1>3. CASE PatchWrite(p)
  <2>1. (IF found THEN subscriber[p] ELSE TRUE) \in BOOLEAN
    BY DEF EInv, Base, TypeOK
  <2> DEFINE exists == IF found THEN subscriber[p] ELSE TRUE
  <2>2. exists /\ found => subscriber[p]
    OBVIOUS
  <2>3. SetSubscriber(p, exists) /\ loop = p /\ loop' = Null /\ found' = FALSE
    BY <1>3 DEF PatchWrite
  <2> HIDE DEF exists
  <2> QED
    BY <2>1, <2>2, <2>3, SubscriberStep DEF exists
<1>4. CASE DeleteSubscriber(p)
  BY <1>4, SubscriberStep DEF DeleteSubscriber
<1> QED
  BY <1>1, <1>2, <1>3, <1>4

----------------------------------------------------------------------------
(* Changes of entities. *)

\* Where no delivery is new and nothing is made inactive, nobody is sent what they should miss.
LEMMA NothingNew ==
  ASSUME InactiveMissesLaterEvents, UNCHANGED <<subscription, stopped, dismissed>>,
         AllDeliveries' \subseteq AllDeliveries
  PROVE  InactiveMissesLaterEvents'
BY DEF InactiveMissesLaterEvents

\* New events come after all others.
LEMMA EnqueueStep ==
  ASSUME EInv, NEW r \in Requests, pc[r] = "idle", NEW k \in 1..2, made + k <= MaxEvents,
         NEW types \in Announced \cup {{t} : t \in Types}, NEW raises \in [1..k -> SUBSET Types],
         Enqueue(r, types, raises),
         loop' = loop \/ (loop = Null /\ loop' = r)
  PROVE  EInv'
<1> USE DispatchAssumption DEF EInv, Enqueue, tables
<1> DEFINE new == [j \in 1..k |-> [n |-> made + j, types |-> types, raises |-> raises[j]]]
<1>a. Len(raises) = k
  <2>1. k \in Nat /\ raises \in Seq(SUBSET Types)
    BY IsASeq
  <2>2. Len(raises) \in Nat /\ DOMAIN raises = 1..Len(raises) /\ DOMAIN raises = 1..k
    BY <2>1, LenProperties
  <2> QED
    BY <2>1, <2>2
<1>0. made \in Nat /\ made' = made + k /\ made' \in 0..MaxEvents
  BY <1>a DEF Base, TypeOK
<1>1. new \in Seq(Event) /\ DOMAIN new = 1..k /\ new # <<>> /\ \A j \in 1..k : new[j].n = made + j
  <2>1. \A j \in 1..k : [n |-> made + j, types |-> types, raises |-> raises[j]] \in Event
    BY <1>0 DEF Event
  <2>2. new \in [1..k -> Event]
    BY <2>1
  <2>3. k \in Nat /\ k > 0 /\ DOMAIN new = 1..k /\ \A j \in 1..k : new[j].n = made + j
    OBVIOUS
  <2> HIDE DEF new
  <2>4. new \in Seq(Event)
    BY <2>2, <2>3, SeqDef
  <2> QED
    BY <2>3, <2>4, EmptySeq
<1>2. todo' = [todo EXCEPT ![r] = new]
  BY <1>a
<1> HIDE DEF new
<1>3. todo' \in [Requests -> Seq(Event)] /\ todo'[r] = new
      /\ \A h \in Requests \ {r} : todo'[h] = todo[h] /\ pc'[h] = pc[h]
  <2>1. todo \in [Requests -> Seq(Event)] /\ pc' = [pc EXCEPT ![r] = "task"] /\ DOMAIN pc = Requests
    BY DEF Base, TypeOK
  <2> QED
    BY <1>1, <1>2, <2>1
<1>4. pc' \in [Requests -> {"idle", "task", "scan", "send", "wait"}] /\ pc'[r] = "task"
  BY DEF Base, TypeOK
<1>5. TypeOK'
  BY <1>0, <1>3, <1>4 DEF Base, TypeOK
<1>6. LoopFits'
  <2>1. \A h \in Requests : pc'[h] \in {"scan", "send"} => h # r /\ loop = h
    BY <1>3, <1>4 DEF Base, LoopFits
  <2>2. found' => found
    OBVIOUS
  <2> QED
    BY <2>1, <2>2 DEF Base, LoopFits
<1>7. plan[r] = <<>>
  BY DEF Base, QueuesFit
<1>8. QueuesFit'
  BY <1>1, <1>3, <1>4, <1>7 DEF Base, QueuesFit
<1>9. TodoFits'
  <2>1. ASSUME NEW h \in Requests \ {r}, NEW j \in DOMAIN todo[h]
        PROVE  /\ todo[h][j].n <= made'
               /\ \A i \in DOMAIN todo[h] : j < i => todo[h][j].n < todo[h][i].n
    <3>1. todo[h][j] \in Event
      BY ElementOfSeq, LenProperties DEF Base, TypeOK
    <3> QED
      BY <1>0, <3>1 DEF Base, TodoFits, Event
  <2>2. ASSUME NEW j \in DOMAIN new
        PROVE  new[j].n <= made' /\ \A i \in DOMAIN new : j < i => new[j].n < new[i].n
    BY <1>0, <1>1
  <2> QED
    BY <1>3, <2>1, <2>2 DEF TodoFits
<1>10. PlanFits'
  BY <1>3, <1>7, EmptyRange DEF Base, PlanFits
<1>11. \A d \in wire \cup Range(received) : d \in Delivery /\ d.n <= made
  BY RangeOfSeq DEF Base, TypeOK, SentFits
<1>12. SentFits'
  BY <1>0, <1>11 DEF SentFits, Delivery
<1>13. RosterFits'
  BY <1>3, <1>4 DEF RosterFits
<1>14. InOrder'
  <2> SUFFICES ASSUME NEW h \in Requests, NEW d \in wire \cup Range(received), d.r = h, NEW e \in Range(todo'[h])
               PROVE  d.n <= e.n
    BY DEF InOrder
  <2>1. CASE h = r
    <3>1. PICK j \in 1..k : e = new[j]
      BY <1>1, <1>3, <2>1 DEF Range
    <3>2. e.n = made + j
      BY <1>1, <3>1
    <3> QED
      BY <1>0, <1>11, <3>2 DEF Delivery
  <2>2. CASE h # r
    BY <1>3, <2>2 DEF InOrder
  <2> QED
    BY <2>1, <2>2
<1>15. InactiveMissesLaterEvents'
  BY NothingNew DEF AllDeliveries
<1>16. DismissedAreGone'
  BY DEF Base, DismissedAreGone
<1> QED
  BY <1>5, <1>6, <1>8, <1>9, <1>10, <1>12, <1>13, <1>14, <1>15, <1>16 DEF Base

\* Entities change, or an event is emitted.
LEMMA ChangeSteps ==
  ASSUME EInv, NEW r \in Requests, Change(r) \/ Emit(r)
  PROVE  EInv'
<1>1. CASE Change(r)
  <2>1. PICK k \in 1..2, types \in Announced :
          /\ made + k <= MaxEvents
          /\ \E raises \in [1..k -> {{}, types \cap Deltas}] : Enqueue(r, types, raises)
    BY <1>1 DEF Change
  <2>2. PICK raises \in [1..k -> {{}, types \cap Deltas}] : Enqueue(r, types, raises)
    BY <2>1
  <2>3. raises \in [1..k -> SUBSET Types]
    BY DispatchAssumption
  <2> QED
    BY <1>1, <2>1, <2>2, <2>3, EnqueueStep DEF Change
<1>2. CASE Emit(r)
  <2>1. PICK t \in Types : \E raises \in {{}, {t}} : Enqueue(r, {t}, <<raises>>)
    BY <1>2 DEF Emit
  <2>2. PICK raises \in {{}, {t}} : Enqueue(r, {t}, <<raises>>)
    BY <2>1
  <2>3. made + 1 <= MaxEvents /\ <<raises>> \in [1..1 -> SUBSET Types]
    BY <1>2, DispatchAssumption DEF Emit, EInv, Base, TypeOK
  <2> QED
    BY <1>2, <2>2, <2>3, EnqueueStep DEF Emit
<1> QED
  BY <1>1, <1>2

----------------------------------------------------------------------------
(* Background tasks. *)

\* A task begins with the subscribers there are.
LEMMA StartTaskStep ==
  ASSUME EInv, NEW r \in Requests, StartTask(r)
  PROVE  EInv'
<1> USE DispatchAssumption DEF EInv, StartTask, tables
<1>1. PICK q \in SetToSeqs({p \in Subscribers : subscriber[p]}) : roster' = [roster EXCEPT ![r] = q]
  OBVIOUS
<1>2. q \in Seq({p \in Subscribers : subscriber[p]}) /\ Range(q) \subseteq {p \in Subscribers : subscriber[p]}
  BY <1>1, OrderedSet, FS_Subset
<1>3. q \in Seq(Subscribers)
  BY <1>2, SeqMonotonic
<1>4. /\ roster' \in [Requests -> Seq(Subscribers)] /\ roster'[r] = q
      /\ pc' \in [Requests -> {"idle", "task", "scan", "send", "wait"}] /\ pc'[r] = "scan"
      /\ \A h \in Requests \ {r} : pc'[h] = pc[h] /\ roster'[h] = roster[h]
  BY <1>1, <1>3 DEF Base, TypeOK
<1>5. TypeOK'
  BY <1>4 DEF Base, TypeOK
<1>6. LoopFits'
  BY <1>4 DEF Base, LoopFits, TypeOK
<1>7. QueuesFit'
  BY <1>4 DEF Base, QueuesFit
<1>8. DismissedAreGone' /\ TodoFits' /\ PlanFits' /\ SentFits' /\ InOrder'
  BY DEF Base, DismissedAreGone, TodoFits, PlanFits, SentFits, InOrder
<1>9. RosterFits'
  <2>1. \A p \in Range(q) : dismissed[p] = Null
    BY <1>2 DEF Base, DismissedAreGone
  <2> QED
    BY <1>4, <2>1 DEF RosterFits
<1>10. InactiveMissesLaterEvents'
  BY NothingNew DEF AllDeliveries
<1> QED
  BY <1>5, <1>6, <1>7, <1>8, <1>9, <1>10 DEF Base


\* The values of a function on a finite set are finitely many.
LEMMA FiniteImage ==
  ASSUME NEW S, IsFiniteSet(S), NEW f, DOMAIN f = S, f = [x \in S |-> f[x]]
  PROVE  IsFiniteSet({f[x] : x \in S})
<1> DEFINE T == {f[x] : x \in S}
<1>1. f \in [S -> T]
  OBVIOUS
<1>2. f \in Surjection(S, T)
  BY <1>1 DEF Surjection
<1> HIDE DEF T
<1>3. IsFiniteSet(T)
  BY <1>2, FS_Surjection
<1> QED
  BY <1>3 DEF T

\* What a row calls for: deliveries of the event at hand, to a subscription that is active.
LEMMA RowCallsFor ==
  ASSUME Base, NEW r \in Requests, todo[r] # <<>>, NEW s \in Subs, subscription[s] # Null,
         ~Raises(subscription[s])
  PROVE  /\ IsFiniteSet(DeliveriesOf(r, s))
         /\ \A d \in DeliveriesOf(r, s) :
              /\ d \in Delivery /\ d.r = r /\ d.n = Head(todo[r]).n /\ d.sub = s
              /\ IsActive(subscription[s])
<1> DEFINE doc == subscription[s]
           e == Head(todo[r])
           I == {i \in DOMAIN doc.events : doc.events[i] \in e.types}
           f == [i \in I |-> [r |-> r, n |-> e.n, sub |-> s, i |-> i, type |-> doc.events[i],
                             filter |-> doc.events[i] \in doc.passes]]
<1>a. CASE ~Reachable(doc)
  <2>1. DeliveriesOf(r, s) = {}
    BY <1>a DEF DeliveriesOf
  <2> QED
    BY <2>1, FS_EmptySet
<1>b. CASE Reachable(doc)
  <2>0. DeliveriesOf(r, s) = {f[i] : i \in I}
    BY <1>b DEF DeliveriesOf
  <2>1. e \in Event
    BY HeadAndTail DEF Base, TypeOK
  <2>2. doc \in Document /\ doc.events \in Seq(Types)
    BY <1>b DEF Base, TypeOK, Raises, Document
  <2>3. Len(doc.events) \in Nat /\ DOMAIN doc.events = 1..Len(doc.events)
    BY <2>2, LenProperties
  <2>4. I \subseteq 1..Len(doc.events) /\ I \subseteq Nat \ {0}
    BY <2>3
  <2>5. IsFiniteSet(1..Len(doc.events))
    <3>1. \A n \in Nat : IsFiniteSet(1..n)
      BY FS_Interval
    <3> QED
      BY <2>3, <3>1
  <2>6. IsFiniteSet(I)
    BY <2>4, <2>5, FS_Subset
  <2>7. \A i \in I : f[i] \in Delivery /\ f[i].r = r /\ f[i].n = e.n /\ f[i].sub = s
    <3>1. \A i \in I : doc.events[i] \in Types
      BY <2>2, <2>3, ElementOfSeq
    <3> QED
      BY <2>1, <2>2, <2>4, <3>1 DEF Delivery, Event
  <2>8. IsActive(doc)
    BY <1>b DEF IsActive, Reachable
  <2>9. IsFiniteSet({f[i] : i \in I})
    <3>1. DOMAIN f = I /\ f = [i \in I |-> f[i]]
      OBVIOUS
    <3> HIDE DEF f, I
    <3> QED
      BY <2>6, <3>1, FiniteImage
  <2> HIDE DEF f, I
  <2> QED
    BY <2>0, <2>7, <2>8, <2>9
<1> QED
  BY <1>a, <1>b

\* A scan adds what the subscriptions of one subscriber call for.
LEMMA ScanSubscriberStep ==
  ASSUME EInv, NEW r \in Requests, ScanSubscriber(r)
  PROVE  EInv'
<1> USE DispatchAssumption DEF EInv, ScanSubscriber, tables
<1> DEFINE p == Head(roster[r])
           rows == {s \in Subs : Owner[s] = p /\ subscription[s] # Null}
           called == UNION {DeliveriesOf(r, s) : s \in rows}
<1>0. todo[r] # <<>>
  BY DEF Base, QueuesFit
<1>1. \A s \in rows : ~Raises(subscription[s])
  OBVIOUS
<1>2. \A d \in called : /\ d \in Delivery /\ d.r = r /\ d.n = Head(todo[r]).n
                        /\ Owner[d.sub] = p /\ IsActive(subscription[d.sub])
  BY <1>0, <1>1, RowCallsFor
<1>3. IsFiniteSet(called)
  <2> DEFINE f == [s \in rows |-> DeliveriesOf(r, s)]
  <2>1. IsFiniteSet(rows)
    BY FS_Subset
  <2>2. DOMAIN f = rows /\ f = [s \in rows |-> f[s]] /\ \A s \in rows : f[s] = DeliveriesOf(r, s) /\ IsFiniteSet(f[s])
    BY <1>0, <1>1, RowCallsFor
  <2>3. called = UNION {f[s] : s \in rows}
    OBVIOUS
  <2> HIDE DEF f, rows, called
  <2>4. IsFiniteSet({f[s] : s \in rows})
    BY <2>1, <2>2, FiniteImage
  <2>5. \A T \in {f[s] : s \in rows} : IsFiniteSet(T)
    BY <2>2
  <2>6. IsFiniteSet(UNION {f[s] : s \in rows})
    BY <2>4, <2>5, FS_UNION
  <2> QED
    BY <2>3, <2>6
<1>4. PICK q \in SetToSeqs(called) : plan' = [plan EXCEPT ![r] = plan[r] \o q]
  OBVIOUS
<1> HIDE DEF called, rows
<1>5. q \in Seq(Delivery) /\ Range(q) \subseteq called
  BY <1>2, <1>3, OrderedSet, SeqMonotonic
<1>6. /\ plan' \in [Requests -> Seq(Delivery)] /\ plan'[r] = plan[r] \o q
      /\ Range(plan'[r]) = Range(plan[r]) \cup Range(q)
      /\ \A h \in Requests \ {r} : plan'[h] = plan[h]
  <2>1. plan \in [Requests -> Seq(Delivery)]
    BY DEF Base, TypeOK
  <2>2. plan[r] \o q \in Seq(Delivery) /\ Range(plan[r] \o q) = Range(plan[r]) \cup Range(q)
    BY <1>5, <2>1, ConcatProperties, RangeConcatenation
  <2> QED
    BY <1>4, <2>1, <2>2
<1>7. /\ p \in Range(roster[r]) /\ roster' \in [Requests -> Seq(Subscribers)]
      /\ roster'[r] = Tail(roster[r]) /\ \A h \in Requests \ {r} : roster'[h] = roster[h]
      /\ Range(roster'[r]) \subseteq Range(roster[r])
  BY HeadAndTail DEF Base, TypeOK
<1>8. TypeOK'
  BY <1>6, <1>7 DEF Base, TypeOK
<1>9. QueuesFit'
  BY <1>6 DEF Base, QueuesFit
<1>10. PlanFits'
  BY <1>2, <1>5, <1>6 DEF Base, PlanFits
<1>11. RosterFits'
  BY <1>7 DEF RosterFits
<1>12. LoopFits' /\ DismissedAreGone' /\ TodoFits' /\ SentFits' /\ InOrder'
  BY DEF Base, LoopFits, DismissedAreGone, TodoFits, SentFits, InOrder
<1>13. InactiveMissesLaterEvents'
  <2> SUFFICES ASSUME NEW d \in AllDeliveries'
               PROVE  /\ ~IsActive(subscription[d.sub]) => d.n <= stopped[d.sub]
                      /\ dismissed[Owner[d.sub]] # Null => d.n <= dismissed[Owner[d.sub]]
    BY DEF InactiveMissesLaterEvents
  <2>1. d \in AllDeliveries \/ d \in Range(q)
    BY <1>6 DEF AllDeliveries
  <2>2. CASE d \in AllDeliveries
    BY <2>2 DEF InactiveMissesLaterEvents
  <2>3. CASE d \in Range(q)
    BY <1>2, <1>5, <1>7, <2>3 DEF RosterFits
  <2> QED
    BY <2>1, <2>2, <2>3
<1> QED
  BY <1>8, <1>9, <1>10, <1>11, <1>12, <1>13 DEF Base

\* A task that raises ends, with those behind it.
LEMMA AbandonStep ==
  ASSUME EInv, NEW r \in Requests, Abandon(r), pc[r] \in {"scan", "send"}
  PROVE  EInv'
<1> USE DispatchAssumption, EmptyRange DEF EInv, Abandon, tables
<1>1. /\ todo' \in [Requests -> Seq(Event)] /\ todo'[r] = <<>>
      /\ roster' \in [Requests -> Seq(Subscribers)] /\ roster'[r] = <<>>
      /\ plan' \in [Requests -> Seq(Delivery)] /\ plan'[r] = <<>>
  BY EmptySeq DEF Base, TypeOK
<1>2. pc' \in [Requests -> {"idle", "task", "scan", "send", "wait"}] /\ pc'[r] = "idle"
  BY DEF Base, TypeOK
<1>3. \A h \in Requests \ {r} : pc'[h] = pc[h] /\ todo'[h] = todo[h] /\ roster'[h] = roster[h] /\ plan'[h] = plan[h]
  BY DEF Base, TypeOK
<1>4. TypeOK'
  BY <1>1, <1>2 DEF Base, TypeOK
<1>5. LoopFits'
  BY <1>2, <1>3 DEF Base, LoopFits
<1>6. QueuesFit' /\ TodoFits' /\ PlanFits' /\ RosterFits'
  BY <1>1, <1>2, <1>3 DEF Base, QueuesFit, TodoFits, PlanFits, RosterFits
<1>7. DismissedAreGone' /\ SentFits'
  BY DEF Base, DismissedAreGone, SentFits
<1>8. InOrder'
  BY <1>1, <1>3 DEF InOrder
<1>9. InactiveMissesLaterEvents'
  <2>1. \A h \in Requests : Range(plan'[h]) \subseteq Range(plan[h])
    BY <1>1, <1>3
  <2> QED
    BY <2>1, NothingNew DEF AllDeliveries
<1> QED
  BY <1>4, <1>5, <1>6, <1>7, <1>8, <1>9 DEF Base

\* A scan ends when every subscriber has been visited.
LEMMA EndScanStep ==
  ASSUME EInv, NEW r \in Requests, EndScan(r)
  PROVE  EInv'
<1> USE DispatchAssumption DEF EInv, EndScan, tables
<1>1. /\ pc' \in [Requests -> {"idle", "task", "scan", "send", "wait"}] /\ pc'[r] = "send"
      /\ \A h \in Requests \ {r} : pc'[h] = pc[h]
  BY DEF Base, TypeOK
<1>2. TypeOK'
  BY <1>1 DEF Base, TypeOK
<1>3. LoopFits' /\ QueuesFit' /\ RosterFits'
  BY <1>1 DEF Base, LoopFits, QueuesFit, RosterFits
<1>4. DismissedAreGone' /\ TodoFits' /\ PlanFits' /\ SentFits' /\ InOrder'
  BY DEF Base, DismissedAreGone, TodoFits, PlanFits, SentFits, InOrder
<1>5. InactiveMissesLaterEvents'
  BY NothingNew DEF AllDeliveries
<1> QED
  BY <1>2, <1>3, <1>4, <1>5 DEF Base


\* What a task has to do first comes before what it has to do later.
LEMMA HeadIsFirst ==
  ASSUME Base, NEW r \in Requests, todo[r] # <<>>
  PROVE  Head(todo[r]).n \in Nat /\ \A e \in Range(todo[r]) : Head(todo[r]).n <= e.n
<1> USE DEF Base, TypeOK
<1>1. Head(todo[r]) = todo[r][1] /\ 1 \in DOMAIN todo[r] /\ Head(todo[r]) \in Event
  BY HeadAndTail
<1>2. Len(todo[r]) \in Nat /\ DOMAIN todo[r] = 1..Len(todo[r])
  BY LenProperties
<1>3. \A k \in DOMAIN todo[r] : k = 1 \/ 1 < k
  BY <1>2
<1>4. \A k \in DOMAIN todo[r] : todo[r][1].n <= todo[r][k].n
  <2>1. todo[r] \in Seq(Event)
    OBVIOUS
  <2>2. ASSUME NEW k \in DOMAIN todo[r] PROVE todo[r][k].n \in Nat
    <3>1. todo[r][k] \in Event
      BY <1>2, <2>1, ElementOfSeq
    <3> QED
      BY <3>1, DispatchAssumption DEF Event
  <2>3. \A k \in DOMAIN todo[r] : 1 < k => todo[r][1].n < todo[r][k].n
    BY <1>1 DEF TodoFits
  <2> SUFFICES ASSUME NEW k \in DOMAIN todo[r] PROVE todo[r][1].n <= todo[r][k].n
    OBVIOUS
  <2>4. todo[r][1].n \in Nat /\ todo[r][k].n \in Nat
    BY <1>1, <2>2
  <2>5. k = 1 \/ todo[r][1].n < todo[r][k].n
    BY <1>3, <2>3
  <2> HIDE DEF Base, TypeOK
  <2> QED
    BY <2>4, <2>5
<1> QED
  BY <1>1, <1>4 DEF Range, Event

\* A delivery that the filter refuses is taken out of the plan.
LEMMA SkipStep ==
  ASSUME EInv, NEW r \in Requests, Skip(r)
  PROVE  EInv'
<1> USE DispatchAssumption DEF EInv, Skip, tables
<1>0. plan[r] # <<>> /\ pc[r] = "send" /\ plan \in [Requests -> Seq(Delivery)]
  BY DEF Base, TypeOK
<1>1. Tail(plan[r]) \in Seq(Delivery) /\ Range(Tail(plan[r])) \subseteq Range(plan[r])
  BY <1>0, HeadAndTail
<1>2. /\ plan' \in [Requests -> Seq(Delivery)]
      /\ \A h \in Requests : Range(plan'[h]) \subseteq Range(plan[h])
      /\ \A h \in Requests \ {r} : plan'[h] = plan[h]
  BY <1>0, <1>1
<1>3. TypeOK'
  BY <1>2 DEF Base, TypeOK
<1>4. QueuesFit' /\ PlanFits'
  BY <1>0, <1>2 DEF Base, QueuesFit, PlanFits
<1>5. LoopFits' /\ DismissedAreGone' /\ TodoFits' /\ SentFits' /\ RosterFits' /\ InOrder'
  BY DEF Base, LoopFits, DismissedAreGone, TodoFits, SentFits, RosterFits, InOrder
<1>6. InactiveMissesLaterEvents'
  BY <1>2, NothingNew DEF AllDeliveries
<1> QED
  BY <1>3, <1>4, <1>5, <1>6 DEF Base

\* A target that comes to the end of its answer moves nothing else.
LEMMA EndAnswerStep ==
  ASSUME EInv, NEW r \in Requests, EndAnswer(r)
  PROVE  EInv'
<1> USE DEF EInv, EndAnswer, tables
<1>1. answer' \in [Requests -> {"none", "ok", "error", "trickle"}]
  BY DEF Base, TypeOK
<1>2. TypeOK'
  BY <1>1 DEF Base, TypeOK
<1>3. Base' /\ RosterFits' /\ InOrder'
  BY <1>2 DEF Base, LoopFits, DismissedAreGone, QueuesFit, TodoFits, PlanFits, SentFits, RosterFits, InOrder
<1>4. InactiveMissesLaterEvents'
  BY NothingNew DEF AllDeliveries
<1> QED
  BY <1>3, <1>4

\* What a scan has found is what is sent.
LEMMA PostStep ==
  ASSUME EInv, NEW r \in Requests, Post(r)
  PROVE  EInv'
<1> USE DispatchAssumption DEF EInv, Post, tables
<1> DEFINE d == Head(plan[r])
<1>0. todo[r] # <<>> /\ loop = r
  BY DEF Base, QueuesFit, LoopFits
<1>1. d \in Range(plan[r]) /\ d \in Delivery
  BY HeadAndTail DEF Base, TypeOK
<1>2. d.r = r /\ d.n = Head(todo[r]).n
  BY <1>1 DEF Base, PlanFits
<1>3. d \in AllDeliveries
  BY <1>1 DEF AllDeliveries
<1>4. d.n <= made
  BY <1>3, DeliveriesAreMade
<1> HIDE DEF d
<1>5. wire' = wire \cup {d} /\ pc' = [pc EXCEPT ![r] = "wait"]
  BY DEF d
<1>6. /\ pc' \in [Requests -> {"idle", "task", "scan", "send", "wait"}] /\ pc'[r] = "wait"
      /\ \A h \in Requests \ {r} : pc'[h] = pc[h]
  BY DEF Base, TypeOK
<1>7. TypeOK'
  BY <1>1, <1>5, <1>6 DEF Base, TypeOK
<1>8. LoopFits'
  BY <1>0, <1>6 DEF Base, LoopFits
<1>9. QueuesFit' /\ RosterFits'
  BY <1>6 DEF Base, QueuesFit, RosterFits
<1>10. SentFits'
  BY <1>4, <1>5 DEF Base, SentFits
<1>11. DismissedAreGone' /\ TodoFits' /\ PlanFits'
  BY DEF Base, DismissedAreGone, TodoFits, PlanFits
<1>12. InOrder'
  BY <1>0, <1>2, <1>5, HeadIsFirst DEF InOrder
<1>13. InactiveMissesLaterEvents'
  BY <1>3, <1>5, NothingNew DEF AllDeliveries
<1> QED
  BY <1>7, <1>8, <1>9, <1>10, <1>11, <1>12, <1>13 DEF Base

\* A target takes in what was sent.
LEMMA TakeStep ==
  ASSUME EInv, NEW d \in wire, Take(d)
  PROVE  EInv'
<1> USE DispatchAssumption DEF EInv, Take, tables
<1>1. received' \in Seq(Delivery) /\ Range(received') = Range(received) \cup {d}
  BY Appended DEF Base, TypeOK
<1>2. PICK a \in {"ok", "error", "none", "trickle"} :
        answer' = [h \in Requests |-> IF pc[h] = "wait" /\ Head(plan[h]) = d THEN a ELSE answer[h]]
  OBVIOUS
<1>3. answer' \in [Requests -> {"none", "ok", "error", "trickle"}]
  BY <1>2 DEF Base, TypeOK
<1>4. TypeOK'
  BY <1>1, <1>3 DEF Base, TypeOK
<1>5. wire' \cup Range(received') \subseteq wire \cup Range(received)
  BY <1>1
<1>6. SentFits' /\ InOrder'
  BY <1>5 DEF Base, SentFits, InOrder
<1>7. LoopFits' /\ DismissedAreGone' /\ QueuesFit' /\ TodoFits' /\ PlanFits' /\ RosterFits'
  BY DEF Base, LoopFits, DismissedAreGone, QueuesFit, TodoFits, PlanFits, RosterFits
<1>8. InactiveMissesLaterEvents'
  BY <1>5, NothingNew DEF AllDeliveries
<1> QED
  BY <1>4, <1>6, <1>7, <1>8 DEF Base

\* The log stays within its size.
LEMMA LogFits ==
  ASSUME TypeOK, NEW entry \in Entry
  PROVE  Logged(entry) \in Seq(Entry) /\ Len(Logged(entry)) <= LogSize
<1> DEFINE all == Append(log, entry)
<1>0. log \in Seq(Entry) /\ Len(log) \in Nat
  BY LenProperties DEF TypeOK
<1>1. all \in Seq(Entry) /\ Len(all) = Len(log) + 1 /\ all # <<>>
  BY <1>0, AppendProperties, EmptySeq
<1>2. Len(log) \in Nat /\ Len(log) <= LogSize /\ LogSize \in Nat
  BY LenProperties, DispatchAssumption DEF TypeOK
<1>3. Tail(all) \in Seq(Entry) /\ Len(Tail(all)) = Len(all) - 1
  BY <1>1, HeadTailProperties
<1> HIDE DEF all
<1>4. Logged(entry) = IF Len(all) > LogSize THEN Tail(all) ELSE all
  BY DEF Logged, all
<1> QED
  BY <1>1, <1>2, <1>3, <1>4

\* A delivery is over, and the next is at the head of the plan.
LEMMA FinishStep ==
  ASSUME EInv, NEW r \in Requests, Finish(r)
  PROVE  EInv'
<1> USE DispatchAssumption DEF EInv, Finish, tables
<1>0. plan[r] # <<>> /\ plan \in [Requests -> Seq(Delivery)]
  BY DEF Base, TypeOK, QueuesFit
<1>1. /\ Head(plan[r]) \in Delivery /\ Tail(plan[r]) \in Seq(Delivery)
      /\ Range(Tail(plan[r])) \subseteq Range(plan[r])
  BY <1>0, HeadAndTail
<1>2. /\ plan' \in [Requests -> Seq(Delivery)]
      /\ \A h \in Requests : Range(plan'[h]) \subseteq Range(plan[h])
      /\ \A h \in Requests \ {r} : plan'[h] = plan[h]
  BY <1>0, <1>1
<1>3. [log_type |-> LogType(answer[r]), delivery |-> Head(plan[r])] \in Entry
  BY <1>1 DEF Entry, LogType
<1>4. log' \in Seq(Entry) /\ Len(log') <= LogSize
  BY <1>3, LogFits DEF Base
<1>5. /\ pc' \in [Requests -> {"idle", "task", "scan", "send", "wait"}] /\ pc'[r] = "send"
      /\ \A h \in Requests \ {r} : pc'[h] = pc[h]
  BY DEF Base, TypeOK
<1>6. wire' \subseteq wire /\ answer' \in [Requests -> {"none", "ok", "error", "trickle"}]
  BY DEF Base, TypeOK
<1>7. TypeOK'
  BY <1>2, <1>4, <1>5, <1>6 DEF Base, TypeOK
<1>8. LoopFits'
  BY <1>5 DEF Base, LoopFits
<1>9. QueuesFit' /\ RosterFits'
  BY <1>2, <1>5 DEF Base, QueuesFit, RosterFits
<1>10. PlanFits'
  BY <1>2 DEF Base, PlanFits
<1>11. DismissedAreGone' /\ TodoFits'
  BY DEF Base, DismissedAreGone, TodoFits
<1>12. SentFits' /\ InOrder'
  BY <1>6 DEF Base, SentFits, InOrder
<1>13. InactiveMissesLaterEvents'
  BY <1>2, <1>6, NothingNew DEF AllDeliveries
<1> QED
  BY <1>7, <1>8, <1>9, <1>10, <1>11, <1>12, <1>13 DEF Base

\* The task that follows has the later events.
LEMMA EndTaskStep ==
  ASSUME EInv, NEW r \in Requests, EndTask(r)
  PROVE  EInv'
<1> USE DispatchAssumption DEF EInv, EndTask, tables
<1>0. todo[r] # <<>> /\ loop = r /\ todo \in [Requests -> Seq(Event)]
  BY DEF Base, QueuesFit, LoopFits, TypeOK
<1>1. /\ Tail(todo[r]) \in Seq(Event) /\ Range(Tail(todo[r])) \subseteq Range(todo[r])
      /\ DOMAIN Tail(todo[r]) = 1..(Len(todo[r]) - 1)
      /\ \A j \in DOMAIN Tail(todo[r]) : Tail(todo[r])[j] = todo[r][j + 1]
  BY <1>0, HeadAndTail
<1>2. Len(todo[r]) \in Nat /\ DOMAIN todo[r] = 1..Len(todo[r])
  BY <1>0, LenProperties
<1>3. /\ todo' \in [Requests -> Seq(Event)] /\ todo'[r] = Tail(todo[r])
      /\ \A h \in Requests \ {r} : todo'[h] = todo[h]
  BY <1>0, <1>1
<1>4. Len(todo[r]) = 1 <=> Tail(todo[r]) = <<>>
  <2>1. Len(Tail(todo[r])) = Len(todo[r]) - 1
    BY <1>0, HeadTailProperties
  <2>2. Tail(todo[r]) = <<>> <=> Len(Tail(todo[r])) = 0
    BY <1>1, EmptySeq
  <2> QED
    BY <1>2, <2>1, <2>2
<1>5. /\ pc' \in [Requests -> {"idle", "task", "scan", "send", "wait"}]
      /\ pc'[r] = IF Len(todo[r]) = 1 THEN "idle" ELSE "task"
      /\ \A h \in Requests \ {r} : pc'[h] = pc[h]
  BY DEF Base, TypeOK
<1>6. loop' \in {loop, Null}
  OBVIOUS
<1>7. TypeOK'
  BY <1>3, <1>5, <1>6 DEF Base, TypeOK
<1>8. LoopFits'
  BY <1>0, <1>5 DEF Base, LoopFits
<1>9. QueuesFit'
  BY <1>3, <1>4, <1>5 DEF Base, QueuesFit
<1>10. TodoFits'
  <2>1. \A j \in DOMAIN todo'[r] : j \in Nat /\ j + 1 \in DOMAIN todo[r] /\ todo'[r][j] = todo[r][j + 1]
    BY <1>1, <1>2, <1>3
  <2>2. \A j, k \in DOMAIN todo'[r] : j < k => j + 1 < k + 1
    BY <2>1
  <2>3. \A j \in DOMAIN todo'[r] :
          /\ todo'[r][j].n <= made
          /\ \A k \in DOMAIN todo'[r] : j < k => todo'[r][j].n < todo'[r][k].n
    BY <2>1, <2>2 DEF Base, TodoFits
  <2> QED
    BY <1>3, <2>3 DEF Base, TodoFits
<1>11. PlanFits'
  BY <1>3, EmptyRange DEF Base, PlanFits
<1>12. DismissedAreGone' /\ SentFits'
  BY DEF Base, DismissedAreGone, SentFits
<1>13. RosterFits'
  BY <1>3, <1>5 DEF RosterFits
<1>14. InOrder'
  BY <1>1, <1>3 DEF InOrder
<1>15. InactiveMissesLaterEvents'
  <2>1. UNCHANGED <<wire, received, plan>> /\ UNCHANGED tables
    OBVIOUS
  <2>2. AllDeliveries' = AllDeliveries
    BY <2>1 DEF AllDeliveries
  <2> QED
    BY <2>1, <2>2, NothingNew
<1> QED
  BY <1>7, <1>8, <1>9, <1>10, <1>11, <1>12, <1>13, <1>14, <1>15 DEF Base

\* A crash leaves nothing to do.
LEMMA CrashStep == EInv /\ Crash => EInv'
<1> SUFFICES ASSUME EInv, Crash PROVE EInv'
  OBVIOUS
<1> USE DispatchAssumption, EmptyRange DEF EInv, Crash, tables
<1>1. /\ todo' \in [Requests -> Seq(Event)] /\ roster' \in [Requests -> Seq(Subscribers)]
      /\ plan' \in [Requests -> Seq(Delivery)] /\ log' \in Seq(Entry) /\ Len(log') <= LogSize
  BY EmptySeq
<1>2. crashes' \in 0..MaxCrashes
  BY DEF Base, TypeOK
<1>3. TypeOK'
  BY <1>1, <1>2 DEF Base, TypeOK
<1>4. LoopFits' /\ QueuesFit' /\ TodoFits' /\ PlanFits' /\ RosterFits'
  BY DEF LoopFits, QueuesFit, TodoFits, PlanFits, RosterFits
<1>5. DismissedAreGone' /\ SentFits' /\ InOrder'
  BY DEF Base, DismissedAreGone, SentFits, InOrder
<1>6. InactiveMissesLaterEvents'
  <2>1. UNCHANGED <<wire, received, subscription, stopped, dismissed>> /\ \A h \in Requests : Range(plan'[h]) = {}
    OBVIOUS
  <2>2. AllDeliveries' \subseteq AllDeliveries
    BY <2>1 DEF AllDeliveries
  <2> QED
    BY <2>1, <2>2, NothingNew
<1> QED
  BY <1>3, <1>4, <1>5, <1>6 DEF Base

----------------------------------------------------------------------------
(* The theorems. *)

\* Every step keeps the invariant.
LEMMA EInvStep == EInv /\ [Next]_vars => EInv'
<1> SUFFICES ASSUME EInv, [Next]_vars PROVE EInv'
  OBVIOUS
<1>1. ASSUME NEW s \in Subs, StoreSubscription(s) \/ Transition(s) \/ DeleteSubscription(s) PROVE EInv'
  BY <1>1, SubscriptionSteps
<1>2. ASSUME NEW p \in Subscribers,
             CreateSubscriber(p) \/ PatchSelect(p) \/ PatchWrite(p) \/ DeleteSubscriber(p)
      PROVE  EInv'
  BY <1>2, SubscriberSteps
<1>3. ASSUME NEW r \in Requests, Change(r) \/ Emit(r) \/ EndAnswer(r) PROVE EInv'
  BY <1>3, ChangeSteps, EndAnswerStep
<1>4. ASSUME NEW r \in Requests, Task(r) PROVE EInv'
  <2>1. CASE ScanRaises(r) \/ BuildRaises(r)
    BY <2>1, AbandonStep DEF ScanRaises, BuildRaises
  <2> QED
    BY <1>4, <2>1, StartTaskStep, ScanSubscriberStep, EndScanStep, SkipStep, PostStep, FinishStep, EndTaskStep
       DEF Task
<1>5. ASSUME NEW d \in wire, Take(d) PROVE EInv'
  BY <1>5, TakeStep
<1>6. CASE Crash
  BY <1>6, CrashStep
<1>7. CASE UNCHANGED vars
  BY <1>7 DEF vars, EInv, Base, TypeOK, LoopFits, DismissedAreGone, QueuesFit, TodoFits, PlanFits, SentFits,
     RosterFits, InOrder, InactiveMissesLaterEvents, AllDeliveries
<1> QED
  BY <1>1, <1>2, <1>3, <1>4, <1>5, <1>6, <1>7 DEF Next

\* So it always holds.
LEMMA EInvAlways == Spec => []EInv
<1> QED
  BY EInvInit, EInvStep, PTL DEF Spec

\* The types of the variables, among them that the log of deliveries stays within its
\* size however many events there are.
THEOREM DispatchTypeCorrect == Spec => []TypeOK
<1>1. EInv => TypeOK
  BY DEF EInv, Base
<1> QED
  BY <1>1, EInvAlways, PTL

\* The events of a batch leave in the order of their commits, for any number of targets
\* that answer late or never, and of tasks that interleave.
THEOREM SentInOrder == Spec => []InOrder
<1>1. EInv => InOrder
  BY DEF EInv
<1> QED
  BY <1>1, EInvAlways, PTL

\* A subscription that is not active, and one whose subscriber was deleted, is never sent
\* what was committed after that, for any numbers of both: a PATCH that had found the
\* subscriber before it was deleted does not bring it back.
THEOREM InactiveAreSpared == Spec => []InactiveMissesLaterEvents
<1>1. EInv => InactiveMissesLaterEvents
  BY DEF EInv
<1> QED
  BY <1>1, EInvAlways, PTL

----------------------------------------------------------------------------
(* The parser of filter expressions.                                       *)

\* A set of numbers has a least one.
LEMMA LeastNumber ==
  ASSUME NEW S \in SUBSET Nat, S # {}
  PROVE  \E m \in S : \A k \in S : m <= k
<1> DEFINE T == {0..c : c \in S}
<1>1. T \subseteq FiniteSubsetsOf(Nat) /\ T # {}
  <2>1. \A c \in S : IsFiniteSet(0..c) /\ 0..c \in SUBSET Nat
    BY FS_Interval
  <2> QED
    BY <2>1 DEF FiniteSubsetsOf
<1>2. PICK x \in T : \A y \in T : <<y, x>> \notin StrictSubsetOrdering(Nat)
  BY <1>1, FS_StrictSubsetOrderingWellFounded, WFMin
<1>3. PICK m \in S : x = 0..m
  OBVIOUS
<1>4. ASSUME NEW k \in S, k < m PROVE FALSE
  <2>1. 0..k \subseteq x /\ m \in x /\ m \notin 0..k
    BY <1>3, <1>4
  <2>2. 0..k \in SUBSET Nat /\ x \in SUBSET Nat
    BY <1>3
  <2>3. <<0..k, x>> \in StrictSubsetOrdering(Nat)
    BY <2>1, <2>2 DEF StrictSubsetOrdering
  <2> QED
    BY <1>2, <2>3
<1> QED
  BY <1>4

\* Sets of numbers that have their least number and with each the next have all.
LEMMA AllNumbers ==
  ASSUME NEW P, 0 \in P, \A m \in Nat : m \in P => m + 1 \in P
  PROVE  Nat \subseteq P
<1>1. ASSUME Nat \ P # {} PROVE FALSE
  <2>1. PICK m \in Nat \ P : \A k \in Nat \ P : m <= k
    BY <1>1, LeastNumber
  <2>2. m # 0 /\ m - 1 \in Nat /\ m - 1 \notin Nat \ P
    BY <2>1
  <2> QED
    BY <2>1, <2>2
<1> QED
  BY <1>1

\* What is read after the last token is no token.
LEMMA EndIsNoToken ==
  ASSUME TRUE
  PROVE  \A x : <<>> # <<x>>
<1>1. Len(<<>>) = 0 /\ \A x : Len(<<x>>) = 1
  OBVIOUS
<1> QED
  BY <1>1

\* A comma is no other mark.
LEMMA CommaIsNone ==
  ASSUME TRUE
  PROVE  Comma \notin {<<>>, <<")">>, <<"]">>}
<1>1. \A x, y : <<x>> = <<y>> => x = y
  OBVIOUS
<1>2. <<",">> # <<")">> /\ <<",">> # <<"]">>
  BY <1>1, Zenon
<1>3. <<",">> # <<>>
  BY EndIsNoToken, Zenon
<1> QED
  BY <1>2, <1>3, Zenon DEF Comma

\* The lists of strings exist, as they are defined: from every position from later ones.
LEMMA StringsAre ==
  ASSUME NEW tokens, Len(tokens) \in Nat, NEW closing
  PROVE  LET f == Strings(tokens, closing) IN
         f = [i \in 1..Len(tokens) + 1 |-> StringsAt(tokens, closing, f, i)]
<1> DEFINE n == Len(tokens)
           D == 1..n + 1
           Body(f, i) == StringsAt(tokens, closing, f, i)
           Good(f, m) == \A i \in D : i > n + 1 - m => f[i] = Body(f, i)
           P == {m \in Nat : \E f : f = [i \in D |-> f[i]] /\ Good(f, m)}
<1>1. ASSUME NEW f, NEW g, NEW i \in D, \A j \in D : j > i => f[j] = g[j]
      PROVE  Body(f, i) = Body(g, i)
  <2>1. CASE i + 2 \in D
    <3>1. f[i + 2] = g[i + 2]
      BY <1>1, <2>1
    <3> QED
      BY <3>1 DEF StringsAt
  <2>2. CASE i + 2 \notin D
    <3>1. Peek(tokens, i + 1) # Comma
      <4>1. i \in Nat /\ n \in Nat /\ ~(i + 1 <= n)
        BY <2>2
      <4>2. Peek(tokens, i + 1) = <<>>
        BY <4>1 DEF Peek
      <4> QED
        BY <4>2, CommaIsNone
    <3> QED
      BY <3>1 DEF StringsAt
  <2> QED
    BY <2>1, <2>2
<1> HIDE DEF Body
<1>2. 0 \in P
  <2>1. Good([i \in D |-> 0], 0)
    OBVIOUS
  <2> QED
    BY <2>1
<1>3. ASSUME NEW m \in Nat, m \in P PROVE m + 1 \in P
  <2>1. PICK f : f = [i \in D |-> f[i]] /\ Good(f, m)
    BY <1>3
  <2> DEFINE g == [i \in D |-> Body(f, i)]
  <2>2. \A j \in D : j > n + 1 - m => g[j] = f[j]
    BY <2>1
  <2>3. \A i \in D : i > n + 1 - (m + 1) => g[i] = Body(g, i)
    <3> SUFFICES ASSUME NEW i \in D, i > n + 1 - (m + 1) PROVE g[i] = Body(g, i)
      OBVIOUS
    <3>1. \A j \in D : j > i => f[j] = g[j]
      BY <2>2
    <3> QED
      BY <1>1, <3>1
  <2>4. g = [i \in D |-> g[i]]
    OBVIOUS
  <2> HIDE DEF g
  <2> QED
    BY <2>3, <2>4
<1>4. n + 1 \in P
  BY <1>2, <1>3, AllNumbers
<1>5. PICK f : f = [i \in D |-> f[i]] /\ Good(f, n + 1)
  BY <1>4
<1>6. f = [i \in D |-> StringsAt(tokens, closing, f, i)]
  BY <1>5 DEF Body
<1> QED
  BY <1>6 DEF Strings

\* Counting down: what holds at a position when it holds at all later ones holds everywhere.
LEMMA CountDown ==
  ASSUME NEW n \in Nat, NEW P, \A i \in 1..n + 1 : (\A j \in i + 1 .. n + 1 : j \in P) => i \in P
  PROVE  1..n + 1 \subseteq P
<1> DEFINE Q == {m \in Nat : \A i \in 1..n + 1 : i > n + 1 - m => i \in P}
<1>1. 0 \in Q
  OBVIOUS
<1>2. ASSUME NEW m \in Nat, m \in Q PROVE m + 1 \in Q
  <2>1. \A j \in 1..n + 1 : j > n + 1 - m => j \in P
    BY <1>2
  <2> HIDE DEF Q
  <2>2. ASSUME NEW i \in 1..n + 1, i > n + 1 - (m + 1) PROVE i \in P
    <3>1. \A j \in i + 1 .. n + 1 : j \in 1..n + 1 /\ j > n + 1 - m
      BY <2>2
    <3> QED
      BY <2>1, <3>1
  <2> QED
    BY <2>2 DEF Q
<1>3. n + 1 \in Q
  BY <1>1, <1>2, AllNumbers
<1> QED
  BY <1>3

\* A list of strings ends behind itself.
LEMMA StringsAhead ==
  ASSUME NEW tokens, Len(tokens) \in Nat, NEW closing, closing # <<>>
  PROVE  \A i \in 1..Len(tokens) + 1 :
           Strings(tokens, closing)[i].at \in {0} \cup i + 2 .. Len(tokens) + 1
<1> DEFINE n == Len(tokens)
           f == Strings(tokens, closing)
           P == {i \in 1..n + 1 : f[i].at \in {0} \cup i + 2 .. n + 1}
<1>1. \A i \in 1..n + 1 : f[i] = StringsAt(tokens, closing, f, i)
  BY StringsAre
<1> HIDE DEF f
<1>2. ASSUME NEW i \in 1..n + 1, \A j \in i + 1 .. n + 1 : j \in P PROVE i \in P
  <2>1. CASE i + 1 > n
    <3>1. Peek(tokens, i + 1) = <<>>
      BY <2>1 DEF Peek
    <3>2. StringsAt(tokens, closing, f, i) = [at |-> 0, allowed |-> {}]
      BY <3>1, CommaIsNone DEF StringsAt
    <3> QED
      BY <1>1, <3>2
  <2>2. CASE i + 1 <= n
    <3>1. i + 2 \in i + 1 .. n + 1
      BY <2>2
    <3>2. f[i + 2].at \in {0} \cup i + 4 .. n + 1
      BY <1>2, <3>1
    <3>3. f[i].at \in {0, i + 2, f[i + 2].at}
      <4>1. StringsAt(tokens, closing, f, i).at \in {0, i + 2, f[i + 2].at}
        BY DEF StringsAt
      <4> QED
        BY <1>1, <4>1
    <3> QED
      BY <2>2, <3>2, <3>3
  <2> QED
    BY <2>1, <2>2
<1>3. 1..n + 1 \subseteq P
  BY <1>2, CountDown
<1> QED
  BY <1>3 DEF f

\* A result at a position behind i, or none.
Ahead(tokens, result, i) == result.at \in {0} \cup i + 1 .. Len(tokens) + 1
AllAhead(tokens, results, i) ==
  Ahead(tokens, results.not, i) /\ Ahead(tokens, results.and, i) /\ Ahead(tokens, results.or, i)

\* A condition ends behind its field.
LEMMA LeafAhead ==
  ASSUME NEW tokens, Len(tokens) \in Nat, NEW facts, NEW i \in 1..Len(tokens) + 1
  PROVE  Ahead(tokens, ParseLeaf(tokens, facts, i), i)
<1> DEFINE n == Len(tokens)
           closing == Closing(Peek(tokens, i + 2))
           strings == Strings(tokens, closing)[i + 3]
<1>1. IsQuoted(Peek(tokens, i + 2)) => i + 2 <= n
  BY DEF Peek, IsQuoted
<1>2. closing # <<>> => i + 2 <= n
  <2>1. Peek(tokens, i + 2) = <<>> => closing = <<>>
    BY EndIsNoToken DEF Closing
  <2> QED
    BY <2>1 DEF Peek
<1>3. closing # <<>> => strings.at \in {0} \cup i + 1 .. n + 1
  <2> SUFFICES ASSUME closing # <<>> PROVE strings.at \in {0} \cup i + 1 .. n + 1
    OBVIOUS
  <2>1. i + 3 \in 1..n + 1
    BY <1>2
  <2> HIDE DEF closing
  <2>2. strings.at \in {0} \cup i + 5 .. n + 1
    BY <2>1, StringsAhead
  <2> QED
    BY <2>2
<1> HIDE DEF closing, strings
<1>4. ParseLeaf(tokens, facts, i).at \in
        {0} \cup {i + 3 : x \in {x \in {1} : IsQuoted(Peek(tokens, i + 2))}}
            \cup {strings.at : x \in {x \in {1} : closing # <<>>}}
  BY DEF ParseLeaf, ValueError, strings, closing
<1> QED
  BY <1>1, <1>3, <1>4 DEF Ahead

\* What parse_not reads depends on what is read from later positions on.
LEMMA NotLocal ==
  ASSUME NEW tokens, Len(tokens) \in Nat, NEW facts, NEW f, NEW g,
         NEW i \in 1..Len(tokens) + 1,
         \A j \in i + 1 .. Len(tokens) + 1 : f[j] = g[j] /\ AllAhead(tokens, f[j], j)
  PROVE  /\ ParseNot(tokens, facts, f, i) = ParseNot(tokens, facts, g, i)
         /\ Ahead(tokens, ParseNot(tokens, facts, f, i), i)
<1> DEFINE n == Len(tokens)
<1>1. CASE i \in 1..n
  <2>1. i + 1 \in i + 1 .. n + 1
    BY <1>1
  <2>2. f[i + 1] = g[i + 1] /\ AllAhead(tokens, f[i + 1], i + 1)
    BY <2>1
  <2>3. ParseNot(tokens, facts, f, i) = ParseNot(tokens, facts, g, i)
    BY <2>2 DEF ParseNot
  <2>4. Ahead(tokens, Negated(f[i + 1].not), i)
    BY <2>2 DEF AllAhead, Ahead, Negated
  <2>5. Ahead(tokens, Closed(tokens, f[i + 1].or), i)
    <3>1. CASE Raised(f[i + 1].or) \/ Peek(tokens, f[i + 1].or.at) # <<")">>
      BY <3>1 DEF Closed, ValueError, Ahead
    <3>2. CASE ~Raised(f[i + 1].or) /\ Peek(tokens, f[i + 1].or.at) = <<")">>
      <4>1. f[i + 1].or.at <= n
        BY <3>2, EndIsNoToken DEF Peek
      <4>2. f[i + 1].or.at \in i + 2 .. n + 1
        BY <3>2, <2>2 DEF Raised, AllAhead, Ahead
      <4>3. Closed(tokens, f[i + 1].or).at = f[i + 1].or.at + 1
        BY <3>2 DEF Closed
      <4> QED
        BY <4>1, <4>2, <4>3 DEF Ahead
    <3> QED
      BY <3>1, <3>2
  <2> QED
    BY <2>3, <2>4, <2>5, LeafAhead DEF ParseNot
<1>2. CASE i = n + 1
  <2>1. Peek(tokens, i) = <<>>
    BY <1>2 DEF Peek
  <2>2. \A h : ParseNot(tokens, facts, h, i) = ParseLeaf(tokens, facts, i)
    BY <2>1, EndIsNoToken DEF ParseNot
  <2> QED
    BY <2>2, LeafAhead
<1> QED
  BY <1>1, <1>2

\* A word that follows is a token, and there is a position behind it.
LEMMA GoesAhead ==
  ASSUME NEW tokens, Len(tokens) \in Nat, NEW word, NEW left,
         NEW i \in 1..Len(tokens) + 1, Ahead(tokens, left, i), Goes(tokens, word, left)
  PROVE  left.at \in i + 1 .. Len(tokens) /\ left.at + 1 \in i + 1 .. Len(tokens) + 1
<1>1. left.at <= Len(tokens)
  BY EndIsNoToken DEF Goes, Peek
<1>2. left.at \in i + 1 .. Len(tokens) + 1
  BY DEF Goes, Raised, Ahead
<1> QED
  BY <1>1, <1>2

\* The same for parse_and and parse_or.
LEMMA AndLocal ==
  ASSUME NEW tokens, Len(tokens) \in Nat, NEW f, NEW g,
         NEW i \in 1..Len(tokens) + 1, NEW left, Ahead(tokens, left, i),
         \A j \in i + 1 .. Len(tokens) + 1 : f[j] = g[j] /\ AllAhead(tokens, f[j], j)
  PROVE  /\ ParseAnd(tokens, f, left) = ParseAnd(tokens, g, left)
         /\ Ahead(tokens, ParseAnd(tokens, f, left), i)
         /\ ParseOr(tokens, f, left) = ParseOr(tokens, g, left)
         /\ Ahead(tokens, ParseOr(tokens, f, left), i)
<1>1. CASE Goes(tokens, "and", left)
  <2>1. left.at \in i + 1 .. Len(tokens) /\ left.at + 1 \in i + 1 .. Len(tokens) + 1
    BY <1>1, GoesAhead
  <2>2. f[left.at + 1] = g[left.at + 1] /\ AllAhead(tokens, f[left.at + 1], left.at + 1)
    BY <2>1
  <2>3. ParseAnd(tokens, f, left) = ParseAnd(tokens, g, left)
    BY <2>2 DEF ParseAnd
  <2>4. ParseAnd(tokens, f, left).at = f[left.at + 1].and.at
    BY <1>1 DEF ParseAnd, Join
  <2>5. Ahead(tokens, ParseAnd(tokens, f, left), i)
    BY <2>1, <2>2, <2>4 DEF AllAhead, Ahead
  <2>6. ~Goes(tokens, "or", left)
    BY <1>1 DEF Goes
  <2> QED
    BY <2>3, <2>5, <2>6 DEF ParseOr
<1>2. CASE Goes(tokens, "or", left)
  <2>1. left.at \in i + 1 .. Len(tokens) /\ left.at + 1 \in i + 1 .. Len(tokens) + 1
    BY <1>2, GoesAhead
  <2>2. f[left.at + 1] = g[left.at + 1] /\ AllAhead(tokens, f[left.at + 1], left.at + 1)
    BY <2>1
  <2>3. ParseOr(tokens, f, left) = ParseOr(tokens, g, left)
    BY <2>2 DEF ParseOr
  <2>4. ParseOr(tokens, f, left).at = f[left.at + 1].or.at
    BY <1>2 DEF ParseOr, Join
  <2>5. Ahead(tokens, ParseOr(tokens, f, left), i)
    BY <2>1, <2>2, <2>4 DEF AllAhead, Ahead
  <2>6. ~Goes(tokens, "and", left)
    BY <1>2 DEF Goes
  <2> QED
    BY <2>3, <2>5, <2>6 DEF ParseAnd
<1>3. CASE ~Goes(tokens, "and", left) /\ ~Goes(tokens, "or", left)
  BY <1>3 DEF ParseAnd, ParseOr
<1> QED
  BY <1>1, <1>2, <1>3

\* What is read from a position on depends on what is read from later positions on only,
\* and ends behind it.
LEMMA ParseLocal ==
  ASSUME NEW tokens, Len(tokens) \in Nat, NEW facts, NEW f, NEW g,
         NEW i \in 1..Len(tokens) + 1,
         \A j \in i + 1 .. Len(tokens) + 1 : f[j] = g[j] /\ AllAhead(tokens, f[j], j)
  PROVE  /\ ParseAt(tokens, facts, f, i) = ParseAt(tokens, facts, g, i)
         /\ AllAhead(tokens, ParseAt(tokens, facts, f, i), i)
<1> DEFINE l == ParseNot(tokens, facts, f, i)
           m == ParseAnd(tokens, f, l)
<1>1. l = ParseNot(tokens, facts, g, i) /\ Ahead(tokens, l, i)
  BY NotLocal
<1> HIDE DEF l
<1>2. m = ParseAnd(tokens, g, l) /\ Ahead(tokens, m, i)
  BY <1>1, AndLocal
<1> HIDE DEF m
<1>3. ParseOr(tokens, f, m) = ParseOr(tokens, g, m) /\ Ahead(tokens, ParseOr(tokens, f, m), i)
  BY <1>2, AndLocal
<1>4. ParseAt(tokens, facts, f, i) = [not |-> l, and |-> m, or |-> ParseOr(tokens, f, m)]
  BY DEF ParseAt, l, m
<1>5. ParseAt(tokens, facts, g, i) = [not |-> l, and |-> m, or |-> ParseOr(tokens, g, m)]
  <2>1. ParseAnd(tokens, g, ParseNot(tokens, facts, g, i)) = m
    BY <1>1, <1>2
  <2> QED
    BY <1>1, <2>1 DEF ParseAt
<1>6. AllAhead(tokens, ParseAt(tokens, facts, f, i), i)
  BY <1>1, <1>2, <1>3, <1>4 DEF AllAhead
<1> QED
  BY <1>3, <1>4, <1>5, <1>6

\* The parses exist, as they are defined: from every position from all later ones.
LEMMA ParsesAre ==
  ASSUME NEW tokens, Len(tokens) \in Nat, NEW facts
  PROVE  \A i \in 1..Len(tokens) + 1 :
           /\ Parses(tokens, facts)[i] = ParseAt(tokens, facts, Parses(tokens, facts), i)
           /\ AllAhead(tokens, Parses(tokens, facts)[i], i)
<1> DEFINE n == Len(tokens)
           D == 1..n + 1
           Body(f, i) == ParseAt(tokens, facts, f, i)
           Ends(f, i) == AllAhead(tokens, f[i], i)
           Good(f, m) == \A i \in D : i > n + 1 - m => f[i] = Body(f, i) /\ Ends(f, i)
           P == {m \in Nat : \E f : f = [i \in D |-> f[i]] /\ Good(f, m)}
<1>1. ASSUME NEW f, NEW g, NEW i \in D, \A j \in i + 1 .. n + 1 : f[j] = g[j] /\ Ends(f, j)
      PROVE  Body(f, i) = Body(g, i) /\ AllAhead(tokens, Body(f, i), i)
  BY <1>1, ParseLocal
<1> HIDE DEF Body
<1>2. 0 \in P
  <2>1. Good([i \in D |-> 0], 0)
    OBVIOUS
  <2> QED
    BY <2>1
<1>3. ASSUME NEW m \in Nat, m \in P PROVE m + 1 \in P
  <2>1. PICK f : f = [i \in D |-> f[i]] /\ Good(f, m)
    BY <1>3
  <2> DEFINE g == [i \in D |-> Body(f, i)]
  <2>2. \A j \in D : j > n + 1 - m => g[j] = f[j] /\ Ends(f, j) /\ Ends(g, j)
    <3> SUFFICES ASSUME NEW j \in D, j > n + 1 - m PROVE g[j] = f[j] /\ Ends(f, j) /\ Ends(g, j)
      OBVIOUS
    <3>1. g[j] = f[j] /\ Ends(f, j)
      BY <2>1
    <3> HIDE DEF g
    <3> QED
      BY <3>1
  <2>3. \A i \in D : i > n + 1 - (m + 1) => g[i] = Body(g, i) /\ Ends(g, i)
    <3> SUFFICES ASSUME NEW i \in D, i > n + 1 - (m + 1) PROVE g[i] = Body(g, i) /\ Ends(g, i)
      OBVIOUS
    <3>1. \A j \in i + 1 .. n + 1 : j \in D /\ j > n + 1 - m
      OBVIOUS
    <3> HIDE DEF Ends
    <3>2. \A j \in i + 1 .. n + 1 : f[j] = g[j] /\ Ends(f, j)
      BY <2>2, <3>1
    <3>3. Body(f, i) = Body(g, i) /\ AllAhead(tokens, Body(f, i), i)
      BY <1>1, <3>2
    <3>4. g[i] = Body(f, i)
      OBVIOUS
    <3> HIDE DEF g
    <3> QED
      BY <3>3, <3>4 DEF Ends
  <2>4. g = [i \in D |-> g[i]]
    OBVIOUS
  <2> HIDE DEF g, Ends
  <2> QED
    BY <2>3, <2>4
<1>4. n + 1 \in P
  <2> HIDE DEF P
  <2> QED
    BY <1>2, <1>3, AllNumbers
<1>5. PICK f : f = [i \in D |-> f[i]] /\ Good(f, n + 1)
  BY <1>4
<1>6. f = [i \in D |-> Body(f, i)]
  BY <1>5
<1>7. Parses(tokens, facts) = CHOOSE g : g = [i \in D |-> Body(g, i)]
  BY DEF Parses, Body
<1> DEFINE p == CHOOSE g : g = [i \in D |-> Body(g, i)]
<1>8. p = [i \in D |-> Body(p, i)]
  BY <1>6
<1> HIDE DEF p
<1>9. \A i \in D : p[i] = Body(p, i)
  BY <1>8
<1> DEFINE Q == {i \in D : Ends(p, i)}
<1>10. ASSUME NEW i \in D, \A j \in i + 1 .. n + 1 : j \in Q PROVE i \in Q
  <2> HIDE DEF Ends
  <2>1. \A j \in i + 1 .. n + 1 : p[j] = p[j] /\ Ends(p, j)
    BY <1>10
  <2>2. AllAhead(tokens, Body(p, i), i)
    BY <1>1, <2>1
  <2> QED
    BY <1>9, <2>2 DEF Ends
<1>11. D \subseteq Q
  <2> HIDE DEF Q
  <2> QED
    BY <1>10, CountDown
<1>12. p = Parses(tokens, facts)
  BY <1>7 DEF p
<1> QED
  BY <1>9, <1>11, <1>12 DEF Body

\* The readings of a part depend on those of smaller parts only.
LEMMA ReadLocal ==
  ASSUME NEW tokens, Len(tokens) \in Nat, NEW facts, NEW f, NEW g,
         NEW i \in 1..Len(tokens) + 1, NEW j \in 0..Len(tokens),
         \A k \in 1..Len(tokens) + 1, l \in 0..Len(tokens) :
           l - k < j - i => f[<<k, l>>] = g[<<k, l>>]
  PROVE  ReadPart(tokens, facts, f, i, j) = ReadPart(tokens, facts, g, i, j)
<1> DEFINE n == Len(tokens)
<1>1. ReadNot(tokens, facts, f, i, j) = ReadNot(tokens, facts, g, i, j)
  <2>1. CASE i > j
    BY <2>1 DEF ReadNot
  <2>2. CASE i <= j
    <3>1. i + 1 \in 1..n + 1 /\ j - 1 \in 0..n /\ j - (i + 1) < j - i /\ (j - 1) - (i + 1) < j - i
      BY <2>2
    <3>2. f[<<i + 1, j>>] = g[<<i + 1, j>>] /\ f[<<i + 1, j - 1>>] = g[<<i + 1, j - 1>>]
      BY <3>1
    <3> QED
      BY <3>2 DEF ReadNot
  <2> QED
    BY <2>1, <2>2
<1>2. \A word : \A k \in Splits(tokens, word, i, j) :
        f[<<i, k - 1>>] = g[<<i, k - 1>>] /\ f[<<k + 1, j>>] = g[<<k + 1, j>>]
  <2> SUFFICES ASSUME NEW k \in i + 1 .. j - 1
               PROVE  f[<<i, k - 1>>] = g[<<i, k - 1>>] /\ f[<<k + 1, j>>] = g[<<k + 1, j>>]
    BY DEF Splits
  <2>1. k - 1 \in 0..n /\ k + 1 \in 1..n + 1 /\ (k - 1) - i < j - i /\ j - (k + 1) < j - i
    OBVIOUS
  <2> QED
    BY <2>1
<1>3. \A left : ReadAnd(tokens, f, left, i, j) = ReadAnd(tokens, g, left, i, j)
  <2>1. {f[<<i, k - 1>>].and \X f[<<k + 1, j>>].not : k \in Splits(tokens, "and", i, j)}
        = {g[<<i, k - 1>>].and \X g[<<k + 1, j>>].not : k \in Splits(tokens, "and", i, j)}
    BY <1>2
  <2> QED
    BY <2>1 DEF ReadAnd
<1>4. \A left : ReadOr(tokens, f, left, i, j) = ReadOr(tokens, g, left, i, j)
  <2>1. {f[<<i, k - 1>>].or \X f[<<k + 1, j>>].and : k \in Splits(tokens, "or", i, j)}
        = {g[<<i, k - 1>>].or \X g[<<k + 1, j>>].and : k \in Splits(tokens, "or", i, j)}
    BY <1>2
  <2> QED
    BY <2>1 DEF ReadOr
<1> QED
  BY <1>1, <1>3, <1>4 DEF ReadPart

\* The readings exist, as they are defined.
LEMMA ReadingsAre ==
  ASSUME NEW tokens, Len(tokens) \in Nat, NEW facts
  PROVE  \A i \in 1..Len(tokens) + 1, j \in 0..Len(tokens) :
           AllReadings(tokens, facts)[<<i, j>>]
             = ReadPart(tokens, facts, AllReadings(tokens, facts), i, j)
<1> DEFINE n == Len(tokens)
           D == Parts(tokens)
           Body(f, i, j) == ReadPart(tokens, facts, f, i, j)
           Good(f, m) == \A i \in 1..n + 1, j \in 0..n :
                           j - i + n + 1 < m => f[<<i, j>>] = Body(f, i, j)
           P == {m \in Nat : \E f : f = [p \in D |-> f[p]] /\ Good(f, m)}
<1>1. ASSUME NEW f, NEW g, NEW i \in 1..n + 1, NEW j \in 0..n,
             \A k \in 1..n + 1, l \in 0..n : l - k < j - i => f[<<k, l>>] = g[<<k, l>>]
      PROVE  Body(f, i, j) = Body(g, i, j)
  BY <1>1, ReadLocal
<1> HIDE DEF Body
<1>2. 0 \in P
  <2>1. Good([p \in D |-> 0], 0)
    OBVIOUS
  <2> HIDE DEF Good
  <2> QED
    BY <2>1
<1>3. ASSUME NEW m \in Nat, m \in P PROVE m + 1 \in P
  <2>1. PICK f : f = [p \in D |-> f[p]] /\ Good(f, m)
    BY <1>3
  <2> DEFINE g == [p \in D |-> Body(f, p[1], p[2])]
  <2>2. \A i \in 1..n + 1, j \in 0..n : g[<<i, j>>] = Body(f, i, j)
    BY DEF Parts
  <2>3. g = [p \in D |-> g[p]]
    OBVIOUS
  <2> HIDE DEF g
  <2>4. \A k \in 1..n + 1, l \in 0..n : l - k + n + 1 < m => g[<<k, l>>] = f[<<k, l>>]
    BY <2>1, <2>2
  <2>5. ASSUME NEW i \in 1..n + 1, NEW j \in 0..n, j - i + n + 1 < m + 1
        PROVE  g[<<i, j>>] = Body(g, i, j)
    <3>1. \A k \in 1..n + 1, l \in 0..n : l - k < j - i => l - k + n + 1 < m
      BY <2>5
    <3>2. \A k \in 1..n + 1, l \in 0..n : l - k < j - i => f[<<k, l>>] = g[<<k, l>>]
      BY <2>4, <3>1
    <3>3. Body(f, i, j) = Body(g, i, j)
      BY <1>1, <3>2
    <3> QED
      BY <2>2, <3>3
  <2>6. Good(g, m + 1)
    BY <2>5
  <2> HIDE DEF Good
  <2> QED
    BY <2>3, <2>6
<1>4. 2 * n + 1 \in P
  <2> HIDE DEF P
  <2> QED
    BY <1>2, <1>3, AllNumbers
<1>5. PICK f : f = [p \in D |-> f[p]] /\ Good(f, 2 * n + 1)
  BY <1>4
<1>6. \A i \in 1..n + 1, j \in 0..n : f[<<i, j>>] = Body(f, i, j)
  <2>1. \A i \in 1..n + 1, j \in 0..n : j - i + n + 1 < 2 * n + 1
    OBVIOUS
  <2> QED
    BY <1>5, <2>1
<1>7. f = [p \in D |-> Body(f, p[1], p[2])]
  <2>1. \A p \in D : p[1] \in 1..n + 1 /\ p[2] \in 0..n /\ p = <<p[1], p[2]>>
    BY DEF Parts
  <2>2. \A p \in D : f[p] = Body(f, p[1], p[2])
    BY <1>6, <2>1
  <2> HIDE DEF D
  <2> QED
    BY <1>5, <2>2
<1>8. AllReadings(tokens, facts) = CHOOSE g : g = [p \in D |-> Body(g, p[1], p[2])]
  BY DEF AllReadings, Body
<1> DEFINE r == CHOOSE g : g = [p \in D |-> Body(g, p[1], p[2])]
<1>9. r = [p \in D |-> Body(r, p[1], p[2])]
  BY <1>7
<1> HIDE DEF r
<1>10. \A i \in 1..n + 1, j \in 0..n : r[<<i, j>>] = Body(r, i, j)
  BY <1>9 DEF Parts
<1>11. r = AllReadings(tokens, facts)
  BY <1>8 DEF r
<1> QED
  BY <1>10, <1>11 DEF Body

\* Words are not quoted.
LEMMA WordsNotQuoted ==
  ASSUME TRUE
  PROVE  ~IsQuoted(<<>>) /\ (\A x : ~IsQuoted(<<x>>)) /\ ~IsQuoted(Comma)
<1>1. Len(<<>>) = 0 /\ \A x : Len(<<x>>) = 1
  OBVIOUS
<1>2. ~IsQuoted(<<>>) /\ \A x : ~IsQuoted(<<x>>)
  BY <1>1 DEF IsQuoted
<1> QED
  BY <1>2, Zenon DEF Comma

Named(tokens, i, e) == {tokens[k][2] : k \in {k \in i .. e : IsQuoted(tokens[k])}}

\* A list of strings is one string, or a string, a comma and a list.
LEMMA StringsStep ==
  ASSUME NEW tokens, Len(tokens) \in Nat, NEW closing, closing \in {<<")">>, <<"]">>},
         NEW i \in 1..Len(tokens) + 1, NEW e \in 1..Len(tokens)
  PROVE  IsStrings(tokens, closing, i, e) <=>
           /\ i <= Len(tokens) /\ IsQuoted(tokens[i])
           /\ \/ e = i + 1 /\ tokens[e] = closing
              \/ e >= i + 3 /\ tokens[i + 1] = Comma /\ IsStrings(tokens, closing, i + 2, e)
<1>1. \A x : IsQuoted(x) => x # Comma
  BY WordsNotQuoted
<1>2. CASE e = i + 1
  <2>1. (\A k \in i .. e - 2 : FALSE) /\ e - 1 = i /\ e \in i + 1 .. Len(tokens) /\ i <= Len(tokens)
    BY <1>2
  <2>2. IsStrings(tokens, closing, i, e) <=> tokens[e] = closing /\ IsQuoted(tokens[i])
    BY <2>1 DEF IsStrings
  <2>3. ~(e >= i + 3)
    BY <1>2
  <2> QED
    BY <1>2, <2>1, <2>2, <2>3
<1>3. CASE e = i + 2
  <2>1. i \in i .. e - 2 /\ e - 1 = i + 1
    BY <1>3
  <2>2. IsStrings(tokens, closing, i, e) =>
          IsQuoted(tokens[i]) /\ IsQuoted(tokens[i + 1]) /\ TakeTurns(tokens[i], tokens[i + 1])
    BY <2>1 DEF IsStrings
  <2>3. ~IsStrings(tokens, closing, i, e)
    BY <1>1, <2>2 DEF TakeTurns
  <2>4. ~(e >= i + 3) /\ e # i + 1
    BY <1>3
  <2> QED
    BY <2>3, <2>4
<1>4. ASSUME e >= i + 3, IsStrings(tokens, closing, i, e)
      PROVE  /\ i <= Len(tokens) /\ IsQuoted(tokens[i])
             /\ tokens[i + 1] = Comma /\ IsStrings(tokens, closing, i + 2, e)
  <2>1. /\ TakeTurns(tokens[i], tokens[i + 1]) /\ TakeTurns(tokens[i + 1], tokens[i + 1 + 1])
        /\ i <= Len(tokens) /\ IsQuoted(tokens[i]) /\ i + 1 + 1 = i + 2
    BY <1>4 DEF IsStrings
  <2>2. tokens[i + 1] = Comma /\ IsQuoted(tokens[i + 2])
    BY <1>1, <2>1 DEF TakeTurns
  <2>3. e \in i + 2 + 1 .. Len(tokens) /\ \A k \in i + 2 .. e - 2 : k \in i .. e - 2
    BY <1>4
  <2>4. IsStrings(tokens, closing, i + 2, e)
    BY <1>4, <2>2, <2>3 DEF IsStrings
  <2> QED
    BY <2>1, <2>2, <2>4
<1>5. ASSUME i <= Len(tokens), IsQuoted(tokens[i]), e >= i + 3, tokens[i + 1] = Comma,
             IsStrings(tokens, closing, i + 2, e)
      PROVE  IsStrings(tokens, closing, i, e)
  <2>1. IsQuoted(tokens[i + 2])
    BY <1>5 DEF IsStrings
  <2>2. TakeTurns(tokens[i], tokens[i + 1]) /\ TakeTurns(tokens[i + 1], tokens[i + 2])
    BY <1>5, <2>1 DEF TakeTurns
  <2>3. \A k \in i .. e - 2 : k = i \/ k = i + 1 \/ k \in i + 2 .. e - 2
    OBVIOUS
  <2>4. i + 1 + 1 = i + 2
    OBVIOUS
  <2>5. \A k \in i .. e - 2 : TakeTurns(tokens[k], tokens[k + 1])
    BY <1>5, <2>2, <2>3, <2>4 DEF IsStrings
  <2>6. tokens[e] = closing /\ IsQuoted(tokens[e - 1])
    BY <1>5 DEF IsStrings
  <2>7. e \in i + 1 .. Len(tokens)
    <3>1. e >= i + 3
      BY <1>5
    <3> QED
      BY <3>1
  <2> QED
    BY <1>5, <2>5, <2>6, <2>7 DEF IsStrings
<1>6. e < i + 1 => ~IsStrings(tokens, closing, i, e)
  BY DEF IsStrings
<1>7. e < i + 1 \/ e = i + 1 \/ e = i + 2 \/ e >= i + 3
  OBVIOUS
<1> QED
  BY <1>2, <1>3, <1>4, <1>5, <1>6, <1>7

\* Strings reads the lists of strings, and of those what is in the quotes.
LEMMA StringsMean ==
  ASSUME NEW tokens, Len(tokens) \in Nat, NEW closing, closing \in {<<")">>, <<"]">>}
  PROVE  \A i \in 1..Len(tokens) + 1 :
           LET result == Strings(tokens, closing)[i] IN
           /\ \A e \in 1..Len(tokens) : IsStrings(tokens, closing, i, e) =>
                result.at = e + 1 /\ result.allowed = Named(tokens, i, e)
           /\ result.at # 0 =>
                result.at - 1 \in 1..Len(tokens) /\ IsStrings(tokens, closing, i, result.at - 1)
<1> DEFINE n == Len(tokens)
           f == Strings(tokens, closing)
           Reads(i) == \A e \in 1..n : IsStrings(tokens, closing, i, e) =>
                         f[i].at = e + 1 /\ f[i].allowed = Named(tokens, i, e)
           Strict(i) == f[i].at # 0 =>
                          f[i].at - 1 \in 1..n /\ IsStrings(tokens, closing, i, f[i].at - 1)
           P == {i \in 1..n + 1 : Reads(i) /\ Strict(i)}
<1>1. \A i \in 1..n + 1 : f[i] = StringsAt(tokens, closing, f, i)
  BY StringsAre
<1>2. \A i \in 1..n + 1 : f[i].at \in {0} \cup i + 2 .. n + 1
  <2>1. closing # <<>>
    BY EndIsNoToken
  <2> QED
    BY <2>1, StringsAhead
<1>3. closing # Comma
  BY CommaIsNone
<1> HIDE DEF f, P
<1>4. ASSUME NEW i \in 1..n + 1, \A j \in i + 1 .. n + 1 : j \in P PROVE i \in P
  <2>0. i \in 1..n + 1
    BY <1>4
  <2>1. Reads(i)
    <3> SUFFICES ASSUME NEW e \in 1..n, IsStrings(tokens, closing, i, e)
                 PROVE  f[i].at = e + 1 /\ f[i].allowed = Named(tokens, i, e)
      OBVIOUS
    <3>1. /\ i <= n /\ IsQuoted(tokens[i])
          /\ \/ e = i + 1 /\ tokens[e] = closing
             \/ e >= i + 3 /\ tokens[i + 1] = Comma /\ IsStrings(tokens, closing, i + 2, e)
      BY <2>0, StringsStep
    <3>2. Peek(tokens, i) = tokens[i]
      BY <3>1 DEF Peek
    <3>3. CASE e = i + 1 /\ tokens[e] = closing
      <4>1. Peek(tokens, i + 1) = closing
        BY <3>3 DEF Peek
      <4>2. StringsAt(tokens, closing, f, i) = [at |-> i + 2, allowed |-> {tokens[i][2]}]
        BY <3>1, <3>2, <4>1 DEF StringsAt
      <4>3. \A k \in i .. e : IsQuoted(tokens[k]) <=> k = i
        <5>1. ~IsQuoted(tokens[e])
          BY <3>3, WordsNotQuoted
        <5> QED
          BY <3>1, <3>3, <5>1
      <4>4. Named(tokens, i, e) = {tokens[i][2]}
        BY <3>3, <4>3 DEF Named
      <4>5. f[i] = [at |-> i + 2, allowed |-> {tokens[i][2]}]
        BY <1>1, <2>0, <4>2
      <4>6. i + 2 = e + 1
        BY <2>0, <3>3
      <4> QED
        BY <4>4, <4>5, <4>6
    <3>4. CASE e >= i + 3 /\ tokens[i + 1] = Comma /\ IsStrings(tokens, closing, i + 2, e)
      <4>1. Peek(tokens, i + 1) = Comma
        BY <2>0, <3>4 DEF Peek
      <4>2. StringsAt(tokens, closing, f, i)
              = [at |-> f[i + 2].at, allowed |-> f[i + 2].allowed \cup {tokens[i][2]}]
        BY <1>3, <3>1, <3>2, <4>1 DEF StringsAt
      <4>3. f[i + 2].at = e + 1 /\ f[i + 2].allowed = Named(tokens, i + 2, e)
        <5>1. i + 2 \in i + 1 .. n + 1
          BY <2>0, <3>4
        <5>2. i + 2 \in P
          BY <1>4, <5>1
        <5>3. Reads(i + 2)
          BY <5>2 DEF P
        <5> QED
          BY <3>4, <5>3
      <4>4. \A k \in i .. e : IsQuoted(tokens[k]) <=> k = i \/ (k \in i + 2 .. e /\ IsQuoted(tokens[k]))
        <5>1. ~IsQuoted(tokens[i + 1])
          BY <3>4, WordsNotQuoted
        <5>2. \A k \in i .. e : k = i \/ k = i + 1 \/ k \in i + 2 .. e
          OBVIOUS
        <5> QED
          BY <3>1, <5>1, <5>2
      <4>5. Named(tokens, i, e) = Named(tokens, i + 2, e) \cup {tokens[i][2]}
        <5>1. {k \in i .. e : IsQuoted(tokens[k])}
                = {k \in i + 2 .. e : IsQuoted(tokens[k])} \cup {i}
          BY <2>0, <3>1, <3>4, <4>4
        <5> QED
          BY <5>1 DEF Named
      <4> QED
        BY <1>1, <4>2, <4>3, <4>5
    <3> QED
      BY <3>1, <3>3, <3>4
  <2>2. Strict(i)
    <3> SUFFICES ASSUME f[i].at # 0
                 PROVE  f[i].at - 1 \in 1..n /\ IsStrings(tokens, closing, i, f[i].at - 1)
      OBVIOUS
    <3>1. f[i].at - 1 \in i + 1 .. n
      BY <1>2
    <3>2. StringsAt(tokens, closing, f, i).at # 0
      BY <1>1
    <3>3. IsQuoted(Peek(tokens, i)) /\ Peek(tokens, i + 1) \in {closing, Comma}
      BY <3>2 DEF StringsAt
    <3>4. i <= n /\ tokens[i] = Peek(tokens, i) /\ i + 1 <= n /\ tokens[i + 1] = Peek(tokens, i + 1)
      BY <3>1 DEF Peek
    <3>5. CASE Peek(tokens, i + 1) = closing
      <4>1. StringsAt(tokens, closing, f, i).at = i + 2
        BY <3>3, <3>5 DEF StringsAt
      <4>2. f[i].at - 1 = i + 1
        BY <1>1, <4>1
      <4> QED
        BY <2>0, <3>1, <3>3, <3>4, <3>5, <4>2, StringsStep
    <3>6. CASE Peek(tokens, i + 1) # closing
      <4>1. StringsAt(tokens, closing, f, i).at = f[i + 2].at
        BY <3>3, <3>6 DEF StringsAt
      <4>2. f[i].at = f[i + 2].at
        BY <1>1, <4>1
      <4>3. i + 2 \in P
        <5>1. i + 2 \in i + 1 .. n + 1
          BY <2>0, <3>4
        <5> QED
          BY <1>4, <5>1
      <4>4. Strict(i + 2) /\ i + 2 \in 1..n + 1
        BY <4>3 DEF P
      <4>5. IsStrings(tokens, closing, i + 2, f[i].at - 1) /\ f[i].at - 1 >= i + 3
        <5>1. f[i + 2].at \in {0} \cup i + 4 .. n + 1
          BY <1>2, <4>4
        <5> QED
          BY <4>2, <4>4, <5>1
      <4> QED
        BY <2>0, <3>1, <3>3, <3>4, <3>6, <4>5, StringsStep
    <3> QED
      BY <3>5, <3>6
  <2> QED
    BY <2>0, <2>1, <2>2 DEF P
<1>5. 1..n + 1 \subseteq P
  BY <1>4, CountDown
<1> QED
  BY <1>5 DEF P, f

\* Truths that follow from each other are the same.
LEMMA SameTruth ==
  ASSUME TRUE
  PROVE  \A p, q \in BOOLEAN : (p <=> q) => p = q
BY SMT

\* What the parser makes of a field and its strings is what they mean.
LEMMA AllowsMeans ==
  ASSUME NEW tokens, NEW facts, NEW i, NEW j, Len(tokens[i]) \in 1..2
  PROVE  Allows(tokens[i], Named(tokens, i + 2, j), facts) = LeafHolds(tokens, facts, i, j)
<1> DEFINE field == IF tokens[i] = <<"channel">> THEN "scope" ELSE tokens[i][1]
           known == IF field \in DOMAIN facts THEN facts[field] ELSE {}
           named == Named(tokens, i + 2, j)
<1>1. CASE IsQuoted(tokens[i])
  <2>1. ~Allows(tokens[i], named, facts)
    BY <1>1, Zenon DEF Allows
  <2>2. ~LeafHolds(tokens, facts, i, j)
    BY <1>1, Zenon DEF LeafHolds
  <2> QED
    BY <2>1, <2>2, Zenon DEF Allows, LeafHolds
<1>2. CASE ~IsQuoted(tokens[i])
  <2>1. Len(tokens[i]) = 1
    BY <1>2 DEF IsQuoted
  <2>2. Last(tokens[i]) = tokens[i][1]
    BY <2>1 DEF Last
  <2>3. LeafHolds(tokens, facts, i, j) <=>
          (known \cap named # {}) \/ (field \in {"locale", "scope"} /\ JsonNull \in known)
    BY <1>2, <2>2, Zenon DEF LeafHolds, Named
  <2>4. Allows(tokens[i], named, facts) <=>
          /\ field \in DOMAIN facts
          /\ \E fact \in facts[field] :
               fact \in named \/ (field \in {"locale", "scope"} /\ fact = JsonNull)
    BY <1>2, Zenon DEF Allows, NullableFields
  <2> HIDE DEF field, named
  <2>5. Allows(tokens[i], named, facts) <=> LeafHolds(tokens, facts, i, j)
    BY <2>3, <2>4
  <2>6. /\ Allows(tokens[i], named, facts) \in BOOLEAN
        /\ LeafHolds(tokens, facts, i, j) \in BOOLEAN
    BY Zenon DEF Allows, LeafHolds
  <2> QED
    BY <2>5, <2>6, SameTruth, Zenon DEF named
<1> QED
  BY <1>1, <1>2

\* The parser reads the leaves, and what they mean.
LEMMA LeafMeans ==
  ASSUME NEW tokens, Expression(tokens), NEW facts, NEW i \in 1..Len(tokens),
         tokens[i] \notin {<<"not">>, <<"(">>}
  PROVE  LET leaf == ParseLeaf(tokens, facts, i) IN
         /\ \A j \in 1..Len(tokens) : IsLeaf(tokens, i, j) =>
              leaf.at = j + 1 /\ leaf.is = LeafHolds(tokens, facts, i, j)
         /\ leaf.at # 0 => leaf.at - 1 \in i + 1 .. Len(tokens) /\ IsLeaf(tokens, i, leaf.at - 1)
<1> DEFINE n == Len(tokens)
           leaf == ParseLeaf(tokens, facts, i)
           one == Peek(tokens, i + 2)
           closing == Closing(one)
           strings == Strings(tokens, closing)[i + 3]
<1>0. n \in Nat /\ Len(tokens[i]) \in 1..2
  BY DEF Expression
<1>1. <<"=">> # <<"in">>
  <2>1. \A x, y : <<x>> = <<y>> => x = y
    OBVIOUS
  <2> QED
    BY <2>1, Zenon
<1>2. <<"(">> # <<"[">>
  <2>1. \A x, y : <<x>> = <<y>> => x = y
    OBVIOUS
  <2> QED
    BY <2>1, Zenon
<1>3. /\ one = <<"(">> => closing = <<")">>
      /\ one = <<"[">> => closing = <<"]">>
      /\ closing # <<>> => one \in {<<"(">>, <<"[">>}
  BY <1>2, Zenon DEF Closing
<1>4. leaf = IF Peek(tokens, i + 1) = <<"=">> /\ IsQuoted(one)
             THEN [at |-> i + 3, is |-> Allows(tokens[i], {one[2]}, facts)]
             ELSE IF Peek(tokens, i + 1) = <<"in">> /\ closing # <<>> /\ strings.at # 0
             THEN [at |-> strings.at, is |-> Allows(tokens[i], strings.allowed, facts)]
             ELSE ValueError
  <2>1. ~(i > Len(tokens))
    BY <1>0
  <2> QED
    BY <2>1, Zenon DEF ParseLeaf
<1> HIDE DEF leaf, strings, closing
<1>5. ASSUME NEW j \in 1..n, IsLeaf(tokens, i, j)
      PROVE  leaf.at = j + 1 /\ leaf.is = LeafHolds(tokens, facts, i, j)
  <2>1. j >= i + 2
    BY <1>5, Zenon DEF IsLeaf
  <2>2. Peek(tokens, i + 1) = tokens[i + 1] /\ one = tokens[i + 2]
    BY <1>0, <1>5, <2>1 DEF Peek
  <2>3. CASE j = i + 2 /\ tokens[i + 1] = <<"=">> /\ IsQuoted(tokens[j])
    <3>1. leaf = [at |-> i + 3, is |-> Allows(tokens[i], {one[2]}, facts)]
      BY <1>4, <2>2, <2>3, Zenon
    <3>2. \A k : k \in i + 2 .. j <=> k = j
      BY <1>0, <2>3
    <3>3. {k \in i + 2 .. j : IsQuoted(tokens[k])} = {j}
      BY <2>3, <3>2
    <3>4. {one[2]} = Named(tokens, i + 2, j)
      BY <2>2, <2>3, <3>3 DEF Named
    <3>5. leaf.is = Allows(tokens[i], Named(tokens, i + 2, j), facts)
      BY <3>1, <3>4, Zenon
    <3>6. leaf.at = j + 1
      BY <1>0, <2>3, <3>1
    <3> QED
      BY <1>0, <3>5, <3>6, AllowsMeans
  <2>4. ASSUME NEW end \in {<<")">>, <<"]">>}, tokens[i + 1] = <<"in">>,
               tokens[i + 2] \in {<<"(">>, <<"[">>}, closing = end, IsStrings(tokens, end, i + 3, j)
        PROVE  leaf.at = j + 1 /\ leaf.is = LeafHolds(tokens, facts, i, j)
    <3>1. i + 3 \in 1..n + 1 /\ j \in i + 4 .. n
      <4>1. j \in i + 3 + 1 .. n
        BY <2>4, Zenon DEF IsStrings
      <4> QED
        BY <1>0, <4>1
    <3>2. strings.at = j + 1 /\ strings.allowed = Named(tokens, i + 3, j)
      BY <1>0, <1>5, <2>4, <3>1, StringsMean DEF strings
    <3>3. closing # <<>>
      BY <2>4, EndIsNoToken, Zenon
    <3>4. strings.at # 0
      BY <3>1, <3>2
    <3>5. leaf = [at |-> strings.at, is |-> Allows(tokens[i], strings.allowed, facts)]
      BY <1>1, <1>4, <2>2, <2>4, <3>3, <3>4, Zenon
    <3>6. ~IsQuoted(tokens[i + 2])
      BY <2>4, WordsNotQuoted, Zenon
    <3>7. \A k : k \in i + 2 .. j <=> k = i + 2 \/ k \in i + 3 .. j
      BY <1>0, <3>1
    <3>8. {k \in i + 2 .. j : IsQuoted(tokens[k])} = {k \in i + 3 .. j : IsQuoted(tokens[k])}
      BY <3>6, <3>7
    <3>9. Named(tokens, i + 2, j) = Named(tokens, i + 3, j)
      BY <3>8 DEF Named
    <3>10. leaf.is = Allows(tokens[i], Named(tokens, i + 2, j), facts)
      BY <3>2, <3>5, <3>9, Zenon
    <3>11. leaf.at = j + 1
      BY <3>2, <3>5
    <3> QED
      BY <1>0, <3>10, <3>11, AllowsMeans
  <2>5. \/ j = i + 2 /\ tokens[i + 1] = <<"=">> /\ IsQuoted(tokens[j])
        \/ \E end \in {<<")">>, <<"]">>} :
             /\ tokens[i + 1] = <<"in">> /\ tokens[i + 2] \in {<<"(">>, <<"[">>}
             /\ closing = end /\ IsStrings(tokens, end, i + 3, j)
    BY <1>3, <1>5, <2>2, Zenon DEF IsLeaf
  <2> QED
    BY <2>3, <2>4, <2>5, Zenon
<1>6. ASSUME leaf.at # 0
      PROVE  leaf.at - 1 \in i + 1 .. n /\ IsLeaf(tokens, i, leaf.at - 1)
  <2>1. CASE Peek(tokens, i + 1) = <<"=">> /\ IsQuoted(one)
    <3>1. leaf.at = i + 3
      BY <1>4, <2>1
    <3>2. i + 2 <= n
      BY <1>0, <2>1, WordsNotQuoted DEF Peek
    <3>3. tokens[i + 1] = <<"=">> /\ IsQuoted(tokens[i + 2])
      BY <1>0, <2>1, <3>2 DEF Peek
    <3>4. leaf.at - 1 = i + 2 /\ i + 2 >= i + 2
      BY <1>0, <3>1
    <3>5. IsLeaf(tokens, i, i + 2)
      BY <3>3, <3>4, Zenon DEF IsLeaf
    <3> QED
      BY <1>0, <3>2, <3>4, <3>5
  <2>2. CASE ~(Peek(tokens, i + 1) = <<"=">> /\ IsQuoted(one))
    <3>1. Peek(tokens, i + 1) = <<"in">> /\ closing # <<>> /\ strings.at # 0 /\ leaf.at = strings.at
      BY <1>4, <1>6, <2>2 DEF ValueError
    <3>2. one \in {<<"(">>, <<"[">>} /\ closing \in {<<")">>, <<"]">>}
      BY <1>3, <3>1, Zenon
    <3>3. i + 2 <= n
      BY <1>0, <3>2, EndIsNoToken DEF Peek
    <3>4. tokens[i + 1] = <<"in">> /\ one = tokens[i + 2]
      BY <1>0, <3>1, <3>3 DEF Peek
    <3>5. i + 3 \in 1..n + 1
      BY <1>0, <3>3
    <3>6. strings.at - 1 \in 1..n /\ IsStrings(tokens, closing, i + 3, strings.at - 1)
      BY <1>0, <3>1, <3>2, <3>5, StringsMean DEF strings
    <3>7. strings.at - 1 \in i + 3 + 1 .. n
      BY <3>6, Zenon DEF IsStrings
    <3>8. strings.at - 1 >= i + 2 /\ strings.at - 1 \in i + 1 .. n
      BY <1>0, <3>7
    <3>9. IsLeaf(tokens, i, strings.at - 1)
      BY <1>3, <3>2, <3>4, <3>6, <3>8, Zenon DEF IsLeaf
    <3> QED
      BY <3>1, <3>8, <3>9
  <2> QED
    BY <2>1, <2>2
<1> QED
  BY <1>5, <1>6 DEF leaf

\* The connectives as operators, which the solvers need not look into.
Both(a, b) == a /\ b
Either(a, b) == a \/ b
Opposite(a) == ~a

\* The parser groups to the right, the grammar to the left.
LEMMA BothAssociates ==
  ASSUME TRUE
  PROVE  /\ \A a, b, c : Both(a, Both(b, c)) = Both(Both(a, b), c)
         /\ \A a, b, c : Either(a, Either(b, c)) = Either(Either(a, b), c)
<1>1. ASSUME NEW a, NEW b, NEW c PROVE Both(a, Both(b, c)) = Both(Both(a, b), c)
  <2>1. Both(a, Both(b, c)) \in BOOLEAN /\ Both(Both(a, b), c) \in BOOLEAN
    BY Zenon DEF Both
  <2>2. Both(a, Both(b, c)) <=> Both(Both(a, b), c)
    BY Zenon DEF Both
  <2> QED
    BY <2>1, <2>2, SameTruth, Zenon
<1>2. ASSUME NEW a, NEW b, NEW c PROVE Either(a, Either(b, c)) = Either(Either(a, b), c)
  <2>1. Either(a, Either(b, c)) \in BOOLEAN /\ Either(Either(a, b), c) \in BOOLEAN
    BY Zenon DEF Either
  <2>2. Either(a, Either(b, c)) <=> Either(Either(a, b), c)
    BY Zenon DEF Either
  <2> QED
    BY <2>1, <2>2, SameTruth, Zenon
<1> QED
  BY <1>1, <1>2

\* What the parser returns at a position, in terms of what it returns at later ones.
LEMMA ParsesUnfold ==
  ASSUME NEW tokens, Len(tokens) \in Nat, NEW facts, NEW i \in 1..Len(tokens) + 1
  PROVE  LET p == Parses(tokens, facts) IN
         /\ Peek(tokens, i) = <<"not">> =>
              /\ p[i].not.at = p[i + 1].not.at
              /\ p[i].not.is = Opposite(p[i + 1].not.is)
         /\ Peek(tokens, i) = <<"(">> =>
              IF Raised(p[i + 1].or) \/ Peek(tokens, p[i + 1].or.at) # <<")">>
              THEN p[i].not.at = 0
              ELSE /\ p[i].not.at = p[i + 1].or.at + 1
                   /\ p[i].not.is = p[i + 1].or.is
         /\ Peek(tokens, i) \notin {<<"not">>, <<"(">>} => p[i].not = ParseLeaf(tokens, facts, i)
         /\ Goes(tokens, "and", p[i].not) =>
              /\ p[i].and.at = p[p[i].not.at + 1].and.at
              /\ p[i].and.is = Both(p[i].not.is, p[p[i].not.at + 1].and.is)
         /\ ~Goes(tokens, "and", p[i].not) => p[i].and = p[i].not
         /\ Goes(tokens, "or", p[i].and) =>
              /\ p[i].or.at = p[p[i].and.at + 1].or.at
              /\ p[i].or.is = Either(p[i].and.is, p[p[i].and.at + 1].or.is)
         /\ ~Goes(tokens, "or", p[i].and) => p[i].or = p[i].and
<1> DEFINE p == Parses(tokens, facts)
<1>1. p[i] = ParseAt(tokens, facts, p, i)
  BY ParsesAre
<1> HIDE DEF p
<1>2. /\ p[i].not = ParseNot(tokens, facts, p, i)
      /\ p[i].and = ParseAnd(tokens, p, p[i].not)
      /\ p[i].or = ParseOr(tokens, p, p[i].and)
  <2>1. p[i].not = ParseNot(tokens, facts, p, i)
    BY <1>1 DEF ParseAt
  <2>2. p[i].and = ParseAnd(tokens, p, ParseNot(tokens, facts, p, i))
    BY <1>1 DEF ParseAt
  <2>3. p[i].or = ParseOr(tokens, p, ParseAnd(tokens, p, ParseNot(tokens, facts, p, i)))
    BY <1>1 DEF ParseAt
  <2> QED
    BY <2>1, <2>2, <2>3
<1>3. <<"not">> # <<"(">>
  <2>1. \A x, y : <<x>> = <<y>> => x = y
    OBVIOUS
  <2> QED
    BY <2>1, Zenon
<1>4. ASSUME Peek(tokens, i) = <<"not">>
      PROVE  p[i].not.at = p[i + 1].not.at /\ p[i].not.is = Opposite(p[i + 1].not.is)
  <2>1. p[i].not = Negated(p[i + 1].not)
    BY <1>2, <1>3, <1>4, Zenon DEF ParseNot
  <2>2. \A x : Negated(x) = [at |-> x.at, is |-> Opposite(x.is)]
    BY Zenon DEF Negated, Opposite
  <2> QED
    BY <2>1, <2>2
<1>5. ASSUME Peek(tokens, i) = <<"(">>
      PROVE  IF Raised(p[i + 1].or) \/ Peek(tokens, p[i + 1].or.at) # <<")">>
             THEN p[i].not.at = 0
             ELSE p[i].not.at = p[i + 1].or.at + 1 /\ p[i].not.is = p[i + 1].or.is
  <2>1. p[i].not = Closed(tokens, p[i + 1].or)
    BY <1>2, <1>3, <1>5, Zenon DEF ParseNot
  <2> QED
    BY <2>1 DEF Closed, ValueError
<1>6. ASSUME Peek(tokens, i) \notin {<<"not">>, <<"(">>}
      PROVE  p[i].not = ParseLeaf(tokens, facts, i)
  BY <1>2, <1>6, Zenon DEF ParseNot
<1>7. \A left, right : /\ Join("and", left, right) = [at |-> right.at, is |-> Both(left.is, right.is)]
                       /\ Join("or", left, right) = [at |-> right.at, is |-> Either(left.is, right.is)]
  BY Zenon DEF Join, Both, Either
<1>8. ASSUME Goes(tokens, "and", p[i].not)
      PROVE  /\ p[i].and.at = p[p[i].not.at + 1].and.at
             /\ p[i].and.is = Both(p[i].not.is, p[p[i].not.at + 1].and.is)
  <2>1. p[i].and = Join("and", p[i].not, p[p[i].not.at + 1].and)
    BY <1>2, <1>8 DEF ParseAnd
  <2> QED
    BY <1>7, <2>1
<1>9. ASSUME Goes(tokens, "or", p[i].and)
      PROVE  /\ p[i].or.at = p[p[i].and.at + 1].or.at
             /\ p[i].or.is = Either(p[i].and.is, p[p[i].and.at + 1].or.is)
  <2>1. p[i].or = Join("or", p[i].and, p[p[i].and.at + 1].or)
    BY <1>2, <1>9 DEF ParseOr
  <2> QED
    BY <1>7, <2>1
<1>10. /\ ~Goes(tokens, "and", p[i].not) => p[i].and = p[i].not
       /\ ~Goes(tokens, "or", p[i].and) => p[i].or = p[i].and
  BY <1>2 DEF ParseAnd, ParseOr
<1> QED
  BY <1>4, <1>5, <1>6, <1>8, <1>9, <1>10 DEF p

\* The readings of a part, in terms of those of smaller parts.
LEMMA ReadingsUnfold ==
  ASSUME NEW tokens, Len(tokens) \in Nat, NEW facts,
         NEW i \in 1..Len(tokens) + 1, NEW j \in 0..Len(tokens), NEW v
  PROVE  LET r == AllReadings(tokens, facts) IN
         /\ v \in r[<<i, j>>].not <=>
              /\ i <= j
              /\ \/ /\ tokens[i] = <<"not">>
                    /\ \E w \in r[<<i + 1, j>>].not : v = Opposite(w)
                 \/ tokens[i] = <<"(">> /\ tokens[j] = <<")">> /\ v \in r[<<i + 1, j - 1>>].or
                 \/ IsLeaf(tokens, i, j) /\ v = LeafHolds(tokens, facts, i, j)
         /\ v \in r[<<i, j>>].and <=>
              \/ v \in r[<<i, j>>].not
              \/ \E k \in i + 1 .. j - 1 :
                   /\ tokens[k] = <<"and">>
                   /\ \E a \in r[<<i, k - 1>>].and, b \in r[<<k + 1, j>>].not : v = Both(a, b)
         /\ v \in r[<<i, j>>].or <=>
              \/ v \in r[<<i, j>>].and
              \/ \E k \in i + 1 .. j - 1 :
                   /\ tokens[k] = <<"or">>
                   /\ \E a \in r[<<i, k - 1>>].or, b \in r[<<k + 1, j>>].and : v = Either(a, b)
<1> DEFINE r == AllReadings(tokens, facts)
<1>1. r[<<i, j>>] = ReadPart(tokens, facts, r, i, j)
  BY ReadingsAre
<1> HIDE DEF r
<1>2. /\ r[<<i, j>>].not = ReadNot(tokens, facts, r, i, j)
      /\ r[<<i, j>>].and = ReadAnd(tokens, r, r[<<i, j>>].not, i, j)
      /\ r[<<i, j>>].or = ReadOr(tokens, r, r[<<i, j>>].and, i, j)
  <2>1. r[<<i, j>>].not = ReadNot(tokens, facts, r, i, j)
    BY <1>1 DEF ReadPart
  <2>2. r[<<i, j>>].and = ReadAnd(tokens, r, ReadNot(tokens, facts, r, i, j), i, j)
    BY <1>1 DEF ReadPart
  <2>3. r[<<i, j>>].or
          = ReadOr(tokens, r, ReadAnd(tokens, r, ReadNot(tokens, facts, r, i, j), i, j), i, j)
    BY <1>1 DEF ReadPart
  <2> QED
    BY <2>1, <2>2, <2>3
<1>3. <<"not">> # <<"(">>
  <2>1. \A x, y : <<x>> = <<y>> => x = y
    OBVIOUS
  <2> QED
    BY <2>1, Zenon
<1>4. IsLeaf(tokens, i, j) => tokens[i] # <<"not">> /\ tokens[i] # <<"(">>
  BY Zenon DEF IsLeaf
<1>5. ReadNot(tokens, facts, r, i, j) =
        IF i > j THEN {}
        ELSE IF tokens[i] = <<"not">> THEN {Opposite(w) : w \in r[<<i + 1, j>>].not}
        ELSE IF tokens[i] = <<"(">>
             THEN IF tokens[j] = <<")">> THEN r[<<i + 1, j - 1>>].or ELSE {}
        ELSE IF IsLeaf(tokens, i, j) THEN {LeafHolds(tokens, facts, i, j)}
        ELSE {}
  BY Zenon DEF ReadNot, Opposite
<1>6. i > j <=> ~(i <= j)
  OBVIOUS
<1>7. v \in r[<<i, j>>].not <=>
        /\ i <= j
        /\ \/ /\ tokens[i] = <<"not">>
              /\ \E w \in r[<<i + 1, j>>].not : v = Opposite(w)
           \/ tokens[i] = <<"(">> /\ tokens[j] = <<")">> /\ v \in r[<<i + 1, j - 1>>].or
           \/ IsLeaf(tokens, i, j) /\ v = LeafHolds(tokens, facts, i, j)
  <2>1. CASE ~(i <= j)
    BY <1>2, <1>5, <1>6, <2>1, Zenon
  <2>2. CASE i <= j /\ tokens[i] = <<"not">>
    <3>1. r[<<i, j>>].not = {Opposite(w) : w \in r[<<i + 1, j>>].not}
      BY <1>2, <1>5, <1>6, <2>2, Zenon
    <3>2. v \in r[<<i, j>>].not <=> \E w \in r[<<i + 1, j>>].not : v = Opposite(w)
      BY <3>1, Zenon
    <3> QED
      BY <1>3, <1>4, <2>2, <3>2, Zenon
  <2>3. CASE i <= j /\ tokens[i] = <<"(">>
    <3>1. r[<<i, j>>].not = IF tokens[j] = <<")">> THEN r[<<i + 1, j - 1>>].or ELSE {}
      BY <1>2, <1>3, <1>5, <1>6, <2>3, Zenon
    <3>2. v \in r[<<i, j>>].not <=> tokens[j] = <<")">> /\ v \in r[<<i + 1, j - 1>>].or
      BY <3>1, Zenon
    <3> QED
      BY <1>3, <1>4, <2>3, <3>2, Zenon
  <2>4. CASE i <= j /\ tokens[i] # <<"not">> /\ tokens[i] # <<"(">>
    <3>1. r[<<i, j>>].not = IF IsLeaf(tokens, i, j) THEN {LeafHolds(tokens, facts, i, j)} ELSE {}
      BY <1>2, <1>5, <1>6, <2>4, Zenon
    <3>2. v \in r[<<i, j>>].not <=> IsLeaf(tokens, i, j) /\ v = LeafHolds(tokens, facts, i, j)
      BY <3>1, Zenon
    <3> QED
      BY <2>4, <3>2, Zenon
  <2> QED
    BY <2>1, <2>2, <2>3, <2>4, Zenon
<1>8. \A left : ReadAnd(tokens, r, left, i, j) = left \cup
        {Both(x[1], x[2]) : x \in UNION {r[<<i, k - 1>>].and \X r[<<k + 1, j>>].not :
                                         k \in Splits(tokens, "and", i, j)}}
  BY Zenon DEF ReadAnd, Both
<1>9. \A left : ReadOr(tokens, r, left, i, j) = left \cup
        {Either(x[1], x[2]) : x \in UNION {r[<<i, k - 1>>].or \X r[<<k + 1, j>>].and :
                                           k \in Splits(tokens, "or", i, j)}}
  BY Zenon DEF ReadOr, Either
<1>10. \A word, k : k \in Splits(tokens, word, i, j) <=> k \in i + 1 .. j - 1 /\ tokens[k] = <<word>>
  BY DEF Splits
<1>11. v \in r[<<i, j>>].and <=>
         \/ v \in r[<<i, j>>].not
         \/ \E k \in i + 1 .. j - 1 :
              /\ tokens[k] = <<"and">>
              /\ \E a \in r[<<i, k - 1>>].and, b \in r[<<k + 1, j>>].not : v = Both(a, b)
  <2> DEFINE Pairs(k) == r[<<i, k - 1>>].and \X r[<<k + 1, j>>].not
  <2>1. \A k : \A x \in Pairs(k) : x[1] \in r[<<i, k - 1>>].and /\ x[2] \in r[<<k + 1, j>>].not
    OBVIOUS
  <2>2. \A k : \A a \in r[<<i, k - 1>>].and, b \in r[<<k + 1, j>>].not :
          <<a, b>> \in Pairs(k) /\ <<a, b>>[1] = a /\ <<a, b>>[2] = b
    OBVIOUS
  <2> HIDE DEF Pairs
  <2>3. v \in {Both(x[1], x[2]) : x \in UNION {Pairs(k) : k \in Splits(tokens, "and", i, j)}} <=>
          \E k \in Splits(tokens, "and", i, j) : \E x \in Pairs(k) : v = Both(x[1], x[2])
    BY Zenon
  <2>4. \A k : (\E x \in Pairs(k) : v = Both(x[1], x[2])) <=>
               \E a \in r[<<i, k - 1>>].and, b \in r[<<k + 1, j>>].not : v = Both(a, b)
    <3> TAKE k
    <3>1. ASSUME NEW x \in Pairs(k), v = Both(x[1], x[2])
          PROVE  \E a \in r[<<i, k - 1>>].and, b \in r[<<k + 1, j>>].not : v = Both(a, b)
      BY <2>1, <3>1, Zenon
    <3>2. ASSUME NEW a \in r[<<i, k - 1>>].and, NEW b \in r[<<k + 1, j>>].not, v = Both(a, b)
          PROVE  \E x \in Pairs(k) : v = Both(x[1], x[2])
      BY <2>2, <3>2
    <3> QED
      BY <3>1, <3>2, Zenon
  <2>5. v \in r[<<i, j>>].and <=>
          \/ v \in r[<<i, j>>].not
          \/ v \in {Both(x[1], x[2]) : x \in UNION {Pairs(k) : k \in Splits(tokens, "and", i, j)}}
    <3>1. r[<<i, j>>].and = r[<<i, j>>].not
            \cup {Both(x[1], x[2]) : x \in UNION {Pairs(k) : k \in Splits(tokens, "and", i, j)}}
      BY <1>2, <1>8, Zenon DEF Pairs
    <3> QED
      BY <3>1, Zenon
  <2> QED
    BY <1>10, <2>3, <2>4, <2>5, Zenon
<1>12. v \in r[<<i, j>>].or <=>
         \/ v \in r[<<i, j>>].and
         \/ \E k \in i + 1 .. j - 1 :
              /\ tokens[k] = <<"or">>
              /\ \E a \in r[<<i, k - 1>>].or, b \in r[<<k + 1, j>>].and : v = Either(a, b)
  <2> DEFINE Pairs(k) == r[<<i, k - 1>>].or \X r[<<k + 1, j>>].and
  <2>1. \A k : \A x \in Pairs(k) : x[1] \in r[<<i, k - 1>>].or /\ x[2] \in r[<<k + 1, j>>].and
    OBVIOUS
  <2>2. \A k : \A a \in r[<<i, k - 1>>].or, b \in r[<<k + 1, j>>].and :
          <<a, b>> \in Pairs(k) /\ <<a, b>>[1] = a /\ <<a, b>>[2] = b
    OBVIOUS
  <2> HIDE DEF Pairs
  <2>3. v \in {Either(x[1], x[2]) : x \in UNION {Pairs(k) : k \in Splits(tokens, "or", i, j)}} <=>
          \E k \in Splits(tokens, "or", i, j) : \E x \in Pairs(k) : v = Either(x[1], x[2])
    BY Zenon
  <2>4. \A k : (\E x \in Pairs(k) : v = Either(x[1], x[2])) <=>
               \E a \in r[<<i, k - 1>>].or, b \in r[<<k + 1, j>>].and : v = Either(a, b)
    <3> TAKE k
    <3>1. ASSUME NEW x \in Pairs(k), v = Either(x[1], x[2])
          PROVE  \E a \in r[<<i, k - 1>>].or, b \in r[<<k + 1, j>>].and : v = Either(a, b)
      BY <2>1, <3>1, Zenon
    <3>2. ASSUME NEW a \in r[<<i, k - 1>>].or, NEW b \in r[<<k + 1, j>>].and, v = Either(a, b)
          PROVE  \E x \in Pairs(k) : v = Either(x[1], x[2])
      BY <2>2, <3>2
    <3> QED
      BY <3>1, <3>2, Zenon
  <2>5. v \in r[<<i, j>>].or <=>
          \/ v \in r[<<i, j>>].and
          \/ v \in {Either(x[1], x[2]) : x \in UNION {Pairs(k) : k \in Splits(tokens, "or", i, j)}}
    <3>1. r[<<i, j>>].or = r[<<i, j>>].and
            \cup {Either(x[1], x[2]) : x \in UNION {Pairs(k) : k \in Splits(tokens, "or", i, j)}}
      BY <1>2, <1>9, Zenon DEF Pairs
    <3> QED
      BY <3>1, Zenon
  <2> QED
    BY <1>10, <2>3, <2>4, <2>5, Zenon
<1> QED
  BY <1>7, <1>11, <1>12, Zenon DEF r

\* The parser's position and its truth are those of the reading.
Ends(result, j, v) == result.at = j + 1 /\ result.is = v

\* Where the parser is when it has read a part at a level: it goes on if the word of the
\* level follows.
GoesOnAnd(tokens, p, i, j, v) ==
  IF Peek(tokens, j + 1) = <<"and">>
  THEN p[i].and.at = p[j + 2].and.at /\ p[i].and.is = Both(v, p[j + 2].and.is)
  ELSE Ends(p[i].and, j, v)

GoesOnOr(tokens, p, i, j, v) ==
  IF Peek(tokens, j + 1) = <<"or">>
  THEN p[i].or.at = p[j + 2].or.at /\ p[i].or.is = Either(v, p[j + 2].or.is)
  ELSE Ends(p[i].or, j, v)

\* The words that follow are different words.
LEMMA WordsDiffer ==
  ASSUME TRUE
  PROVE  <<"and">> # <<"or">> /\ <<")">> # <<"and">> /\ <<")">> # <<"or">>
<1>1. \A x, y : <<x>> = <<y>> => x = y
  OBVIOUS
<1> QED
  BY <1>1, Zenon

\* After a reading of parse_not, parse_and goes on if "and" follows.
LEMMA NotEnds ==
  ASSUME NEW tokens, Len(tokens) \in Nat, NEW facts, NEW i \in 1..Len(tokens) + 1,
         NEW j \in 0..Len(tokens), NEW v, Ends(Parses(tokens, facts)[i].not, j, v)
  PROVE  GoesOnAnd(tokens, Parses(tokens, facts), i, j, v)
<1> DEFINE p == Parses(tokens, facts)
<1>1. Goes(tokens, "and", p[i].not) <=> Peek(tokens, j + 1) = <<"and">>
  BY DEF Goes, Raised, Ends
<1>2. /\ Goes(tokens, "and", p[i].not) =>
           /\ p[i].and.at = p[p[i].not.at + 1].and.at
           /\ p[i].and.is = Both(p[i].not.is, p[p[i].not.at + 1].and.is)
      /\ ~Goes(tokens, "and", p[i].not) => p[i].and = p[i].not
  BY ParsesUnfold
<1>3. p[i].not.at + 1 = j + 2
  BY DEF Ends
<1> HIDE DEF p
<1> QED
  BY <1>1, <1>2, <1>3 DEF GoesOnAnd, Ends, p

\* After a reading of parse_and, parse_or goes on if "or" follows.
LEMMA AndEnds ==
  ASSUME NEW tokens, Len(tokens) \in Nat, NEW facts, NEW i \in 1..Len(tokens) + 1,
         NEW j \in 0..Len(tokens), NEW v, Ends(Parses(tokens, facts)[i].and, j, v)
  PROVE  GoesOnOr(tokens, Parses(tokens, facts), i, j, v)
<1> DEFINE p == Parses(tokens, facts)
<1>1. Goes(tokens, "or", p[i].and) <=> Peek(tokens, j + 1) = <<"or">>
  BY DEF Goes, Raised, Ends
<1>2. /\ Goes(tokens, "or", p[i].and) =>
           /\ p[i].or.at = p[p[i].and.at + 1].or.at
           /\ p[i].or.is = Either(p[i].and.is, p[p[i].and.at + 1].or.is)
      /\ ~Goes(tokens, "or", p[i].and) => p[i].or = p[i].and
  BY ParsesUnfold
<1>3. p[i].and.at + 1 = j + 2
  BY DEF Ends
<1> HIDE DEF p
<1> QED
  BY <1>1, <1>2, <1>3 DEF GoesOnOr, Ends, p

\* The parser finds every reading of a part that is the longest at its level.
Found(tokens, facts, i, j) ==
  LET p == Parses(tokens, facts)
      r == AllReadings(tokens, facts) IN
  /\ \A v \in r[<<i, j>>].not : Ends(p[i].not, j, v)
  /\ \A v \in r[<<i, j>>].and : GoesOnAnd(tokens, p, i, j, v)
  /\ Peek(tokens, j + 1) # <<"and">> =>
       \A v \in r[<<i, j>>].or : GoesOnOr(tokens, p, i, j, v)

\* The parser finds the readings of a part if it finds those of smaller parts.
LEMMA FoundStep ==
  ASSUME NEW tokens, Expression(tokens), NEW facts,
         NEW i \in 1..Len(tokens) + 1, NEW j \in 0..Len(tokens),
         \A k \in 1..Len(tokens) + 1, l \in 0..Len(tokens) :
           l - k < j - i => Found(tokens, facts, k, l)
  PROVE  Found(tokens, facts, i, j)
<1> DEFINE n == Len(tokens)
           p == Parses(tokens, facts)
           r == AllReadings(tokens, facts)
<1>0. n \in Nat
  BY DEF Expression
<1>1. ASSUME NEW k \in 1..n + 1, NEW l \in 0..n, l - k < j - i
      PROVE  /\ \A v \in r[<<k, l>>].not : Ends(p[k].not, l, v)
             /\ \A v \in r[<<k, l>>].and : GoesOnAnd(tokens, p, k, l, v)
             /\ Peek(tokens, l + 1) # <<"and">> =>
                  \A v \in r[<<k, l>>].or : GoesOnOr(tokens, p, k, l, v)
  BY <1>1 DEF Found
<1>2. \A k \in 1..n : Peek(tokens, k) = tokens[k]
  BY <1>0 DEF Peek
<1>3. ASSUME NEW k \in i + 1 .. j - 1
      PROVE  /\ k \in 1..n /\ k + 1 \in 1..n + 1 /\ k - 1 \in 0..n
             /\ (k - 1) - i < j - i /\ j - (k + 1) < j - i /\ (k - 1) + 1 = k /\ (k - 1) + 2 = k + 1
  BY <1>0, <1>3
<1>4. ASSUME NEW v \in r[<<i, j>>].not PROVE Ends(p[i].not, j, v)
  <2>1. /\ i <= j
        /\ \/ /\ tokens[i] = <<"not">>
              /\ \E w \in r[<<i + 1, j>>].not : v = Opposite(w)
           \/ tokens[i] = <<"(">> /\ tokens[j] = <<")">> /\ v \in r[<<i + 1, j - 1>>].or
           \/ IsLeaf(tokens, i, j) /\ v = LeafHolds(tokens, facts, i, j)
    BY <1>0, <1>4, ReadingsUnfold
  <2>2. /\ i \in 1..n /\ j \in 1..n /\ i + 1 \in 1..n + 1 /\ j - 1 \in 0..n
        /\ j - (i + 1) < j - i /\ (j - 1) - (i + 1) < j - i /\ (j - 1) + 1 = j
    BY <1>0, <2>1
  <2>3. Peek(tokens, i) = tokens[i] /\ Peek(tokens, j) = tokens[j]
    BY <1>2, <2>2
  <2>4. ASSUME tokens[i] = <<"not">>, NEW w \in r[<<i + 1, j>>].not, v = Opposite(w)
        PROVE  Ends(p[i].not, j, v)
    <3>1. Ends(p[i + 1].not, j, w)
      BY <1>1, <2>2, <2>4
    <3>2. p[i].not.at = p[i + 1].not.at /\ p[i].not.is = Opposite(p[i + 1].not.is)
      BY <1>0, <2>3, <2>4, ParsesUnfold
    <3> HIDE DEF p
    <3> QED
      BY <2>4, <3>1, <3>2 DEF Ends
  <2>5. ASSUME tokens[i] = <<"(">>, tokens[j] = <<")">>, v \in r[<<i + 1, j - 1>>].or
        PROVE  Ends(p[i].not, j, v)
    <3>1. Peek(tokens, (j - 1) + 1) # <<"and">> /\ Peek(tokens, (j - 1) + 1) # <<"or">>
      BY <2>2, <2>3, <2>5, WordsDiffer
    <3>2. GoesOnOr(tokens, p, i + 1, j - 1, v)
      BY <1>1, <2>2, <2>5, <3>1
    <3>3. p[i + 1].or.at = j /\ p[i + 1].or.is = v
      BY <2>2, <3>1, <3>2 DEF GoesOnOr, Ends
    <3>4. IF Raised(p[i + 1].or) \/ Peek(tokens, p[i + 1].or.at) # <<")">>
          THEN p[i].not.at = 0
          ELSE p[i].not.at = p[i + 1].or.at + 1 /\ p[i].not.is = p[i + 1].or.is
      BY <1>0, <2>3, <2>5, ParsesUnfold
    <3> HIDE DEF p
    <3>5. ~Raised(p[i + 1].or) /\ Peek(tokens, p[i + 1].or.at) = <<")">>
      BY <2>2, <2>3, <2>5, <3>3 DEF Raised
    <3> QED
      BY <3>3, <3>4, <3>5 DEF Ends
  <2>6. ASSUME IsLeaf(tokens, i, j), v = LeafHolds(tokens, facts, i, j)
        PROVE  Ends(p[i].not, j, v)
    <3>1. tokens[i] \notin {<<"not">>, <<"(">>}
      BY <2>6, Zenon DEF IsLeaf
    <3>2. p[i].not = ParseLeaf(tokens, facts, i)
      BY <1>0, <2>3, <3>1, ParsesUnfold
    <3>3. /\ ParseLeaf(tokens, facts, i).at = j + 1
          /\ ParseLeaf(tokens, facts, i).is = LeafHolds(tokens, facts, i, j)
      BY <2>2, <2>6, <3>1, LeafMeans
    <3> HIDE DEF p
    <3> QED
      BY <2>6, <3>2, <3>3 DEF Ends
  <2> QED
    BY <2>1, <2>4, <2>5, <2>6, Zenon
<1>5. ASSUME NEW v \in r[<<i, j>>].and PROVE GoesOnAnd(tokens, p, i, j, v)
  <2>1. \/ v \in r[<<i, j>>].not
        \/ \E k \in i + 1 .. j - 1 :
             /\ tokens[k] = <<"and">>
             /\ \E a \in r[<<i, k - 1>>].and, b \in r[<<k + 1, j>>].not : v = Both(a, b)
    BY <1>0, <1>5, ReadingsUnfold
  <2>2. CASE v \in r[<<i, j>>].not
    BY <1>0, <1>4, <2>2, NotEnds
  <2>3. ASSUME NEW k \in i + 1 .. j - 1, tokens[k] = <<"and">>,
               NEW a \in r[<<i, k - 1>>].and, NEW b \in r[<<k + 1, j>>].not, v = Both(a, b)
        PROVE  GoesOnAnd(tokens, p, i, j, v)
    <3>1. /\ k \in 1..n /\ k + 1 \in 1..n + 1 /\ k - 1 \in 0..n
          /\ (k - 1) - i < j - i /\ j - (k + 1) < j - i /\ (k - 1) + 1 = k /\ (k - 1) + 2 = k + 1
      BY <1>3, <2>3
    <3>2. GoesOnAnd(tokens, p, i, k - 1, a)
      BY <1>1, <2>3, <3>1
    <3>3. Peek(tokens, (k - 1) + 1) = <<"and">>
      BY <1>2, <2>3, <3>1
    <3>4. p[i].and.at = p[k + 1].and.at /\ p[i].and.is = Both(a, p[k + 1].and.is)
      BY <3>1, <3>2, <3>3 DEF GoesOnAnd
    <3>5. Ends(p[k + 1].not, j, b)
      BY <1>1, <2>3, <3>1
    <3>6. GoesOnAnd(tokens, p, k + 1, j, b)
      BY <1>0, <3>1, <3>5, NotEnds
    <3> HIDE DEF p
    <3>7. CASE Peek(tokens, j + 1) = <<"and">>
      <4>1. p[k + 1].and.at = p[j + 2].and.at /\ p[k + 1].and.is = Both(b, p[j + 2].and.is)
        BY <3>6, <3>7 DEF GoesOnAnd
      <4>2. p[i].and.is = Both(Both(a, b), p[j + 2].and.is)
        BY <3>4, <4>1, BothAssociates
      <4> QED
        BY <2>3, <3>4, <3>7, <4>1, <4>2 DEF GoesOnAnd
    <3>8. CASE Peek(tokens, j + 1) # <<"and">>
      <4>1. p[k + 1].and.at = j + 1 /\ p[k + 1].and.is = b
        BY <3>6, <3>8 DEF GoesOnAnd, Ends
      <4> QED
        BY <2>3, <3>4, <3>8, <4>1 DEF GoesOnAnd, Ends
    <3> QED
      BY <3>7, <3>8
  <2> QED
    BY <2>1, <2>2, <2>3, Zenon
<1>6. ASSUME Peek(tokens, j + 1) # <<"and">>, NEW v \in r[<<i, j>>].or
      PROVE  GoesOnOr(tokens, p, i, j, v)
  <2>1. \/ v \in r[<<i, j>>].and
        \/ \E k \in i + 1 .. j - 1 :
             /\ tokens[k] = <<"or">>
             /\ \E a \in r[<<i, k - 1>>].or, b \in r[<<k + 1, j>>].and : v = Either(a, b)
    BY <1>0, <1>6, ReadingsUnfold
  <2>2. CASE v \in r[<<i, j>>].and
    <3>1. Ends(p[i].and, j, v)
      BY <1>5, <1>6, <2>2 DEF GoesOnAnd
    <3> QED
      BY <1>0, <3>1, AndEnds
  <2>3. ASSUME NEW k \in i + 1 .. j - 1, tokens[k] = <<"or">>,
               NEW a \in r[<<i, k - 1>>].or, NEW b \in r[<<k + 1, j>>].and, v = Either(a, b)
        PROVE  GoesOnOr(tokens, p, i, j, v)
    <3>1. /\ k \in 1..n /\ k + 1 \in 1..n + 1 /\ k - 1 \in 0..n
          /\ (k - 1) - i < j - i /\ j - (k + 1) < j - i /\ (k - 1) + 1 = k /\ (k - 1) + 2 = k + 1
      BY <1>3, <2>3
    <3>2. Peek(tokens, (k - 1) + 1) = <<"or">> /\ Peek(tokens, (k - 1) + 1) # <<"and">>
      BY <1>2, <2>3, <3>1, WordsDiffer
    <3>3. GoesOnOr(tokens, p, i, k - 1, a)
      BY <1>1, <2>3, <3>1, <3>2
    <3>4. p[i].or.at = p[k + 1].or.at /\ p[i].or.is = Either(a, p[k + 1].or.is)
      BY <3>1, <3>2, <3>3 DEF GoesOnOr
    <3>5. GoesOnAnd(tokens, p, k + 1, j, b)
      BY <1>1, <2>3, <3>1
    <3>6. Ends(p[k + 1].and, j, b)
      BY <1>6, <3>5 DEF GoesOnAnd
    <3>7. GoesOnOr(tokens, p, k + 1, j, b)
      BY <1>0, <3>1, <3>6, AndEnds
    <3> HIDE DEF p
    <3>8. CASE Peek(tokens, j + 1) = <<"or">>
      <4>1. p[k + 1].or.at = p[j + 2].or.at /\ p[k + 1].or.is = Either(b, p[j + 2].or.is)
        BY <3>7, <3>8 DEF GoesOnOr
      <4>2. p[i].or.is = Either(Either(a, b), p[j + 2].or.is)
        BY <3>4, <4>1, BothAssociates
      <4> QED
        BY <2>3, <3>4, <3>8, <4>1, <4>2 DEF GoesOnOr
    <3>9. CASE Peek(tokens, j + 1) # <<"or">>
      <4>1. p[k + 1].or.at = j + 1 /\ p[k + 1].or.is = b
        BY <3>7, <3>9 DEF GoesOnOr, Ends
      <4> QED
        BY <2>3, <3>4, <3>9, <4>1 DEF GoesOnOr, Ends
    <3> QED
      BY <3>8, <3>9
  <2> QED
    BY <2>1, <2>2, <2>3, Zenon
<1> QED
  BY <1>4, <1>5, <1>6 DEF Found

\* So it finds all.
LEMMA AllFound ==
  ASSUME NEW tokens, Expression(tokens), NEW facts
  PROVE  \A i \in 1..Len(tokens) + 1, j \in 0..Len(tokens) : Found(tokens, facts, i, j)
<1> DEFINE n == Len(tokens)
           P == {m \in Nat : \A i \in 1..n + 1, j \in 0..n :
                               j - i + n + 1 < m => Found(tokens, facts, i, j)}
<1>0. n \in Nat
  BY DEF Expression
<1>1. 0 \in P
  BY <1>0
<1>2. ASSUME NEW m \in Nat, m \in P PROVE m + 1 \in P
  <2>1. \A k \in 1..n + 1, l \in 0..n : l - k + n + 1 < m => Found(tokens, facts, k, l)
    BY <1>2
  <2>2. ASSUME NEW i \in 1..n + 1, NEW j \in 0..n, j - i + n + 1 < m + 1
        PROVE  Found(tokens, facts, i, j)
    <3>1. \A k \in 1..n + 1, l \in 0..n : l - k < j - i => l - k + n + 1 < m
      BY <1>0, <2>2
    <3>2. \A k \in 1..n + 1, l \in 0..n : l - k < j - i => Found(tokens, facts, k, l)
      BY <2>1, <3>1
    <3> QED
      BY <2>2, <3>2, FoundStep
  <2> QED
    BY <2>2
<1>3. 2 * n + 1 \in P
  <2> HIDE DEF P
  <2> QED
    BY <1>0, <1>1, <1>2, AllNumbers
<1>4. \A i \in 1..n + 1, j \in 0..n : j - i + n + 1 < 2 * n + 1
  BY <1>0
<1> QED
  BY <1>3, <1>4

\* Readings joined by a word are a reading, however many words the right one has.
Joined(tokens, facts, j) ==
  LET r == AllReadings(tokens, facts) IN
  \A i \in 1..Len(tokens) + 1, l \in 1..Len(tokens) :
    /\ tokens[l] = <<"and">> /\ i < l /\ l < j =>
         \A a \in r[<<i, l - 1>>].and, b \in r[<<l + 1, j>>].and : Both(a, b) \in r[<<i, j>>].and
    /\ tokens[l] = <<"or">> /\ i < l /\ l < j =>
         \A a \in r[<<i, l - 1>>].or, b \in r[<<l + 1, j>>].or : Either(a, b) \in r[<<i, j>>].or

\* One more step: a reading that ends at j.
LEMMA JoinedStep ==
  ASSUME NEW tokens, Len(tokens) \in Nat, NEW facts, NEW j \in 0..Len(tokens),
         \A k \in 0 .. j - 1 : Joined(tokens, facts, k)
  PROVE  Joined(tokens, facts, j)
<1> DEFINE n == Len(tokens)
           r == AllReadings(tokens, facts)
<1> SUFFICES ASSUME NEW i \in 1..n + 1, NEW l \in 1..n, i < l, l < j
             PROVE  /\ tokens[l] = <<"and">> =>
                         \A a \in r[<<i, l - 1>>].and, b \in r[<<l + 1, j>>].and :
                           Both(a, b) \in r[<<i, j>>].and
                    /\ tokens[l] = <<"or">> =>
                         \A a \in r[<<i, l - 1>>].or, b \in r[<<l + 1, j>>].or :
                           Either(a, b) \in r[<<i, j>>].or
  BY DEF Joined
<1>1. l \in i + 1 .. j - 1 /\ l + 1 \in 1..n + 1
  OBVIOUS
<1>3. ASSUME tokens[l] = <<"and">>, NEW a \in r[<<i, l - 1>>].and, NEW b \in r[<<l + 1, j>>].and
      PROVE  Both(a, b) \in r[<<i, j>>].and
  <2>1. \A v : (\E k \in i + 1 .. j - 1 :
                  /\ tokens[k] = <<"and">>
                  /\ \E c \in r[<<i, k - 1>>].and, d \in r[<<k + 1, j>>].not : v = Both(c, d))
               => v \in r[<<i, j>>].and
    BY ReadingsUnfold
  <2>2. \/ b \in r[<<l + 1, j>>].not
        \/ \E k \in l + 1 + 1 .. j - 1 :
             /\ tokens[k] = <<"and">>
             /\ \E c \in r[<<l + 1, k - 1>>].and, d \in r[<<k + 1, j>>].not : b = Both(c, d)
    BY <1>1, <1>3, ReadingsUnfold
  <2>3. CASE b \in r[<<l + 1, j>>].not
    BY <1>1, <1>3, <2>1, <2>3, Zenon
  <2>4. ASSUME NEW k \in l + 1 + 1 .. j - 1, tokens[k] = <<"and">>,
               NEW c \in r[<<l + 1, k - 1>>].and, NEW d \in r[<<k + 1, j>>].not, b = Both(c, d)
        PROVE  Both(a, b) \in r[<<i, j>>].and
    <3>1. k \in i + 1 .. j - 1 /\ k - 1 \in 0 .. j - 1 /\ l < k
      BY <2>4
    <3>2. l < k - 1
      BY <2>4
    <3>3. Both(a, c) \in r[<<i, k - 1>>].and
      BY <1>3, <2>4, <3>1, <3>2 DEF Joined
    <3>4. Both(a, b) = Both(Both(a, c), d)
      BY <2>4, BothAssociates
    <3> QED
      BY <2>1, <2>4, <3>1, <3>3, <3>4, Zenon
  <2> QED
    BY <2>2, <2>3, <2>4, Zenon
<1>4. ASSUME tokens[l] = <<"or">>, NEW a \in r[<<i, l - 1>>].or, NEW b \in r[<<l + 1, j>>].or
      PROVE  Either(a, b) \in r[<<i, j>>].or
  <2>1. \A v : (\E k \in i + 1 .. j - 1 :
                  /\ tokens[k] = <<"or">>
                  /\ \E c \in r[<<i, k - 1>>].or, d \in r[<<k + 1, j>>].and : v = Either(c, d))
               => v \in r[<<i, j>>].or
    BY ReadingsUnfold
  <2>2. \/ b \in r[<<l + 1, j>>].and
        \/ \E k \in l + 1 + 1 .. j - 1 :
             /\ tokens[k] = <<"or">>
             /\ \E c \in r[<<l + 1, k - 1>>].or, d \in r[<<k + 1, j>>].and : b = Either(c, d)
    BY <1>1, <1>4, ReadingsUnfold
  <2>3. CASE b \in r[<<l + 1, j>>].and
    BY <1>1, <1>4, <2>1, <2>3, Zenon
  <2>4. ASSUME NEW k \in l + 1 + 1 .. j - 1, tokens[k] = <<"or">>,
               NEW c \in r[<<l + 1, k - 1>>].or, NEW d \in r[<<k + 1, j>>].and, b = Either(c, d)
        PROVE  Either(a, b) \in r[<<i, j>>].or
    <3>1. k \in i + 1 .. j - 1 /\ k - 1 \in 0 .. j - 1 /\ l < k
      BY <2>4
    <3>2. l < k - 1
      BY <2>4
    <3>3. Either(a, c) \in r[<<i, k - 1>>].or
      BY <1>4, <2>4, <3>1, <3>2 DEF Joined
    <3>4. Either(a, b) = Either(Either(a, c), d)
      BY <2>4, BothAssociates
    <3> QED
      BY <2>1, <2>4, <3>1, <3>3, <3>4, Zenon
  <2> QED
    BY <2>2, <2>3, <2>4, Zenon
<1> QED
  BY <1>3, <1>4

\* So for all parts.
LEMMA AllJoined ==
  ASSUME NEW tokens, Len(tokens) \in Nat, NEW facts
  PROVE  \A j \in 0..Len(tokens) : Joined(tokens, facts, j)
<1> DEFINE n == Len(tokens)
           P == {m \in Nat : \A k \in 0..n : k < m => Joined(tokens, facts, k)}
<1>1. 0 \in P
  OBVIOUS
<1>2. ASSUME NEW m \in Nat, m \in P PROVE m + 1 \in P
  <2>1. \A k \in 0..n : k < m => Joined(tokens, facts, k)
    BY <1>2
  <2>2. ASSUME NEW j \in 0..n, j < m + 1 PROVE Joined(tokens, facts, j)
    <3>1. \A k \in 0 .. j - 1 : Joined(tokens, facts, k)
      BY <1>2, <2>1, <2>2
    <3> QED
      BY <2>2, <3>1, JoinedStep
  <2> QED
    BY <1>2, <2>2
<1>3. n + 1 \in P
  <2> HIDE DEF P
  <2> QED
    BY <1>1, <1>2, AllNumbers
<1> QED
  BY <1>3

\* What the parser returns is a reading of what it has read.
Right(tokens, facts, i) ==
  LET p == Parses(tokens, facts)[i]
      r == AllReadings(tokens, facts) IN
  /\ p.not.at # 0 => p.not.is \in r[<<i, p.not.at - 1>>].not
  /\ p.and.at # 0 => p.and.is \in r[<<i, p.and.at - 1>>].and
  /\ p.or.at # 0 => p.or.is \in r[<<i, p.or.at - 1>>].or

\* What the parser returns from a position on is right if it is from all later ones on.
LEMMA RightStep ==
  ASSUME NEW tokens, Expression(tokens), NEW facts, NEW i \in 1..Len(tokens) + 1,
         \A j \in i + 1 .. Len(tokens) + 1 : Right(tokens, facts, j)
  PROVE  Right(tokens, facts, i)
<1> DEFINE n == Len(tokens)
           p == Parses(tokens, facts)
           r == AllReadings(tokens, facts)
<1>0. n \in Nat
  BY DEF Expression
<1>1. ASSUME NEW k \in 1..n + 1
      PROVE  /\ p[k].not.at \in {0} \cup k + 1 .. n + 1
             /\ p[k].and.at \in {0} \cup k + 1 .. n + 1
             /\ p[k].or.at \in {0} \cup k + 1 .. n + 1
  BY <1>0, <1>1, ParsesAre DEF AllAhead, Ahead
<1>2. ASSUME NEW j \in i + 1 .. n + 1
      PROVE  /\ p[j].not.at # 0 => p[j].not.is \in r[<<j, p[j].not.at - 1>>].not
             /\ p[j].and.at # 0 => p[j].and.is \in r[<<j, p[j].and.at - 1>>].and
             /\ p[j].or.at # 0 => p[j].or.is \in r[<<j, p[j].or.at - 1>>].or
  BY <1>2 DEF Right
<1>3. \A k : k \in Nat /\ Peek(tokens, k) # <<>> => k <= n /\ Peek(tokens, k) = tokens[k]
  BY <1>0 DEF Peek
<1>4. ASSUME NEW word, NEW left, Ahead(tokens, left, i), Goes(tokens, word, left)
      PROVE  left.at \in i + 1 .. n /\ left.at + 1 \in i + 1 .. n + 1 /\ tokens[left.at] = <<word>>
  <2>1. left.at \in i + 1 .. n /\ left.at + 1 \in i + 1 .. n + 1
    BY <1>0, <1>4, GoesAhead
  <2>2. Peek(tokens, left.at) = <<word>>
    BY <1>4 DEF Goes
  <2>3. Peek(tokens, left.at) = tokens[left.at]
    BY <1>0, <2>1 DEF Peek
  <2> QED
    BY <2>1, <2>2, <2>3
<1>5. ASSUME p[i].not.at # 0 PROVE p[i].not.is \in r[<<i, p[i].not.at - 1>>].not
  <2> DEFINE j == p[i].not.at - 1
  <2>1. j \in i .. n /\ j \in 0..n /\ i <= j /\ i \in 1..n
    BY <1>0, <1>1, <1>5
  <2> HIDE DEF j
  <2>2. Peek(tokens, i) = tokens[i]
    BY <1>0, <2>1 DEF Peek
  <2>3. \A v : \/ /\ tokens[i] = <<"not">>
                  /\ \E w \in r[<<i + 1, j>>].not : v = Opposite(w)
               \/ tokens[i] = <<"(">> /\ tokens[j] = <<")">> /\ v \in r[<<i + 1, j - 1>>].or
               \/ IsLeaf(tokens, i, j) /\ v = LeafHolds(tokens, facts, i, j)
               => v \in r[<<i, j>>].not
    BY <1>0, <2>1, ReadingsUnfold
  <2>4. i + 1 \in i + 1 .. n + 1
    BY <1>0, <2>1
  <2>5. CASE tokens[i] = <<"not">>
    <3>1. p[i].not.at = p[i + 1].not.at /\ p[i].not.is = Opposite(p[i + 1].not.is)
      BY <1>0, <2>2, <2>5, ParsesUnfold
    <3>2. p[i + 1].not.is \in r[<<i + 1, j>>].not
      BY <1>2, <1>5, <2>4, <3>1 DEF j
    <3> HIDE DEF p
    <3> QED
      BY <2>3, <2>5, <3>1, <3>2, Zenon DEF j
  <2>6. CASE tokens[i] = <<"(">>
    <3>1. IF Raised(p[i + 1].or) \/ Peek(tokens, p[i + 1].or.at) # <<")">>
          THEN p[i].not.at = 0
          ELSE p[i].not.at = p[i + 1].or.at + 1 /\ p[i].not.is = p[i + 1].or.is
      BY <1>0, <2>2, <2>6, ParsesUnfold
    <3>2. p[i + 1].or.at \in {0} \cup i + 2 .. n + 1
      BY <1>0, <1>1, <2>4
    <3>3. p[i + 1].or.is \in r[<<i + 1, p[i + 1].or.at - 1>>].or \/ p[i + 1].or.at = 0
      BY <1>2, <2>4
    <3> HIDE DEF p
    <3>4. /\ p[i + 1].or.at # 0 /\ Peek(tokens, p[i + 1].or.at) = <<")">>
          /\ p[i].not.at = p[i + 1].or.at + 1 /\ p[i].not.is = p[i + 1].or.is
      BY <1>5, <3>1 DEF Raised
    <3>5. j = p[i + 1].or.at
      BY <1>0, <3>2, <3>4 DEF j
    <3>6. tokens[j] = <<")">>
      BY <1>0, <2>1, <3>4, <3>5 DEF Peek
    <3>7. p[i].not.is \in r[<<i + 1, j - 1>>].or
      BY <3>3, <3>4, <3>5
    <3> QED
      BY <2>3, <2>6, <3>6, <3>7, Zenon DEF j
  <2>7. CASE tokens[i] \notin {<<"not">>, <<"(">>}
    <3>1. p[i].not = ParseLeaf(tokens, facts, i)
      BY <1>0, <2>2, <2>7, ParsesUnfold
    <3>2. IsLeaf(tokens, i, j)
      BY <1>5, <2>1, <2>7, <3>1, LeafMeans DEF j
    <3>3. p[i].not.is = LeafHolds(tokens, facts, i, j)
      BY <2>1, <2>7, <3>1, <3>2, LeafMeans
    <3> HIDE DEF p
    <3> QED
      BY <2>3, <3>2, <3>3, Zenon DEF j
  <2> QED
    BY <2>5, <2>6, <2>7
<1>6. ASSUME p[i].and.at # 0 PROVE p[i].and.is \in r[<<i, p[i].and.at - 1>>].and
  <2> DEFINE j == p[i].and.at - 1
  <2>1. j \in 0..n
    BY <1>0, <1>1, <1>6
  <2> HIDE DEF j
  <2>2. CASE ~Goes(tokens, "and", p[i].not)
    <3>1. p[i].and = p[i].not
      BY <1>0, <2>2, ParsesUnfold
    <3>2. p[i].and.is \in r[<<i, j>>].not
      BY <1>5, <1>6, <3>1 DEF j
    <3>3. p[i].and.is \in r[<<i, j>>].and
      BY <1>0, <2>1, <3>2, ReadingsUnfold
    <3> QED
      BY <3>3 DEF j
  <2>3. CASE Goes(tokens, "and", p[i].not)
    <3> DEFINE l == p[i].not.at
    <3>1. p[i].and.at = p[l + 1].and.at /\ p[i].and.is = Both(p[i].not.is, p[l + 1].and.is)
      BY <1>0, <2>3, ParsesUnfold
    <3>2. l \in i + 1 .. n /\ l + 1 \in i + 1 .. n + 1 /\ tokens[l] = <<"and">>
      BY <1>1, <1>4, <2>3 DEF Ahead
    <3>3. p[i].not.is \in r[<<i, l - 1>>].not
      BY <1>0, <1>5, <3>2
    <3>4. p[l + 1].and.is \in r[<<l + 1, j>>].and
      BY <1>2, <1>6, <3>1, <3>2 DEF j
    <3>5. p[l + 1].and.at \in {0} \cup l + 1 + 1 .. n + 1
      <4>1. l + 1 \in 1..n + 1
        BY <1>0, <3>2
      <4> HIDE DEF p, l
      <4> QED
        BY <1>1, <4>1
    <3>6. p[i].not.is \in r[<<i, l - 1>>].and
      <4>1. l - 1 \in 0..n
        BY <1>0, <3>2
      <4> QED
        BY <1>0, <3>3, <4>1, ReadingsUnfold
    <3> HIDE DEF p, l
    <3>7. l \in 1..n /\ i < l /\ l < j
      <4>1. p[l + 1].and.at # 0
        BY <1>6, <3>1
      <4>2. j = p[l + 1].and.at - 1
        BY <3>1 DEF j
      <4> QED
        BY <1>0, <3>2, <3>5, <4>1, <4>2
    <3>8. Joined(tokens, facts, j)
      BY <1>0, <2>1, AllJoined
    <3>9. Both(p[i].not.is, p[l + 1].and.is) \in r[<<i, j>>].and
      BY <3>2, <3>4, <3>6, <3>7, <3>8 DEF Joined
    <3> QED
      BY <3>1, <3>9 DEF j
  <2> QED
    BY <2>2, <2>3
<1>7. ASSUME p[i].or.at # 0 PROVE p[i].or.is \in r[<<i, p[i].or.at - 1>>].or
  <2> DEFINE j == p[i].or.at - 1
  <2>1. j \in 0..n
    BY <1>0, <1>1, <1>7
  <2> HIDE DEF j
  <2>2. CASE ~Goes(tokens, "or", p[i].and)
    <3>1. p[i].or = p[i].and
      BY <1>0, <2>2, ParsesUnfold
    <3>2. p[i].or.is \in r[<<i, j>>].and
      BY <1>6, <1>7, <3>1 DEF j
    <3>3. p[i].or.is \in r[<<i, j>>].or
      BY <1>0, <2>1, <3>2, ReadingsUnfold
    <3> QED
      BY <3>3 DEF j
  <2>3. CASE Goes(tokens, "or", p[i].and)
    <3> DEFINE l == p[i].and.at
    <3>1. p[i].or.at = p[l + 1].or.at /\ p[i].or.is = Either(p[i].and.is, p[l + 1].or.is)
      BY <1>0, <2>3, ParsesUnfold
    <3>2. l \in i + 1 .. n /\ l + 1 \in i + 1 .. n + 1 /\ tokens[l] = <<"or">>
      BY <1>1, <1>4, <2>3 DEF Ahead
    <3>3. p[i].and.is \in r[<<i, l - 1>>].and
      BY <1>0, <1>6, <3>2
    <3>4. p[l + 1].or.is \in r[<<l + 1, j>>].or
      BY <1>2, <1>7, <3>1, <3>2 DEF j
    <3>5. p[l + 1].or.at \in {0} \cup l + 1 + 1 .. n + 1
      <4>1. l + 1 \in 1..n + 1
        BY <1>0, <3>2
      <4> HIDE DEF p, l
      <4> QED
        BY <1>1, <4>1
    <3>6. p[i].and.is \in r[<<i, l - 1>>].or
      <4>1. l - 1 \in 0..n
        BY <1>0, <3>2
      <4> QED
        BY <1>0, <3>3, <4>1, ReadingsUnfold
    <3> HIDE DEF p, l
    <3>7. l \in 1..n /\ i < l /\ l < j
      <4>1. p[l + 1].or.at # 0
        BY <1>7, <3>1
      <4>2. j = p[l + 1].or.at - 1
        BY <3>1 DEF j
      <4> QED
        BY <1>0, <3>2, <3>5, <4>1, <4>2
    <3>8. Joined(tokens, facts, j)
      BY <1>0, <2>1, AllJoined
    <3>9. Either(p[i].and.is, p[l + 1].or.is) \in r[<<i, j>>].or
      BY <3>2, <3>4, <3>6, <3>7, <3>8 DEF Joined
    <3> QED
      BY <3>1, <3>9 DEF j
  <2> QED
    BY <2>2, <2>3
<1> QED
  BY <1>5, <1>6, <1>7 DEF Right

\* So it is right everywhere.
LEMMA AllRight ==
  ASSUME NEW tokens, Expression(tokens), NEW facts
  PROVE  \A i \in 1..Len(tokens) + 1 : Right(tokens, facts, i)
<1> DEFINE P == {i \in 1..Len(tokens) + 1 : Right(tokens, facts, i)}
<1>1. ASSUME NEW i \in 1..Len(tokens) + 1, \A j \in i + 1 .. Len(tokens) + 1 : j \in P
      PROVE  i \in P
  BY <1>1, RightStep
<1>2. Len(tokens) \in Nat
  BY DEF Expression
<1>3. 1..Len(tokens) + 1 \subseteq P
  <2> HIDE DEF P
  <2> QED
    BY <1>1, <1>2, CountDown
<1> QED
  BY <1>3

\* The parser computes what the grammar says: it accepts the expressions that have a
\* reading, and the truth it finds is that of their only reading.
LEMMA ParseMeans ==
  ASSUME NEW tokens, Expression(tokens), NEW facts
  PROVE  Parse(tokens, facts) = Readings(tokens, facts)
<1> DEFINE n == Len(tokens)
           p == Parses(tokens, facts)
           r == AllReadings(tokens, facts)
           parsed == Parse(tokens, facts)
<1>1. n \in Nat /\ 1 \in 1..n + 1 /\ n \in 0..n
  BY DEF Expression
<1>2. Readings(tokens, facts) = r[<<1, n>>].or
  BY DEF Readings
<1>3. parsed = IF p[1].or.at = 0 \/ p[1].or.at # n + 1 THEN {} ELSE {p[1].or.is}
  BY Zenon DEF Parse, Raised
<1>4. ASSUME NEW v \in r[<<1, n>>].or PROVE p[1].or.at = n + 1 /\ p[1].or.is = v
  <2>1. Peek(tokens, n + 1) = <<>>
    BY <1>1 DEF Peek
  <2>2. Peek(tokens, n + 1) # <<"and">> /\ Peek(tokens, n + 1) # <<"or">>
    BY <2>1, EndIsNoToken
  <2>3. Found(tokens, facts, 1, n)
    BY <1>1, AllFound
  <2>4. GoesOnOr(tokens, p, 1, n, v)
    BY <1>4, <2>2, <2>3 DEF Found
  <2> HIDE DEF p
  <2> QED
    BY <2>2, <2>4 DEF GoesOnOr, Ends
<1>5. ASSUME p[1].or.at = n + 1 PROVE p[1].or.is \in r[<<1, n>>].or
  <2>1. Right(tokens, facts, 1)
    BY <1>1, AllRight
  <2>2. p[1].or.at # 0 /\ p[1].or.at - 1 = n
    BY <1>1, <1>5
  <2> QED
    BY <2>1, <2>2 DEF Right
<1>6. n + 1 # 0
  BY <1>1
<1> HIDE DEF p, r, parsed, n
<1>7. CASE p[1].or.at = n + 1
  <2>1. parsed = {p[1].or.is}
    BY <1>3, <1>6, <1>7
  <2>2. r[<<1, n>>].or = {p[1].or.is}
    BY <1>4, <1>5, <1>7
  <2> QED
    BY <1>2, <2>1, <2>2 DEF parsed
<1>8. CASE p[1].or.at # n + 1
  <2>1. parsed = {}
    BY <1>3, <1>8
  <2>2. r[<<1, n>>].or = {}
    BY <1>4, <1>8
  <2> QED
    BY <1>2, <2>1, <2>2 DEF parsed
<1> QED
  BY <1>7, <1>8

\* How far the parser gets from a position, given how far it gets from later ones.
Reaches(tokens, facts, p, i) ==
  /\ Peek(tokens, i) = <<"not">> => p[i].not.at = p[i + 1].not.at
  /\ Peek(tokens, i) = <<"(">> =>
       IF p[i + 1].or.at = 0 \/ Peek(tokens, p[i + 1].or.at) # <<")">>
       THEN p[i].not.at = 0 ELSE p[i].not.at = p[i + 1].or.at + 1
  /\ Peek(tokens, i) \notin {<<"not">>, <<"(">>} => p[i].not = ParseLeaf(tokens, facts, i)
  /\ IF Goes(tokens, "and", p[i].not)
     THEN p[i].and.at = p[p[i].not.at + 1].and.at ELSE p[i].and = p[i].not
  /\ IF Goes(tokens, "or", p[i].and)
     THEN p[i].or.at = p[p[i].and.at + 1].or.at ELSE p[i].or = p[i].and

\* The parser is such.
LEMMA ParsesReach ==
  ASSUME NEW tokens, Len(tokens) \in Nat, NEW facts, NEW i \in 1..Len(tokens) + 1
  PROVE  Reaches(tokens, facts, Parses(tokens, facts), i)
<1> DEFINE p == Parses(tokens, facts)
<1>1. Peek(tokens, i) = <<"not">> => p[i].not.at = p[i + 1].not.at
  BY ParsesUnfold
<1>2. Peek(tokens, i) = <<"(">> =>
        IF p[i + 1].or.at = 0 \/ Peek(tokens, p[i + 1].or.at) # <<")">>
        THEN p[i].not.at = 0 ELSE p[i].not.at = p[i + 1].or.at + 1
  BY ParsesUnfold DEF Raised
<1>3. Peek(tokens, i) \notin {<<"not">>, <<"(">>} => p[i].not = ParseLeaf(tokens, facts, i)
  BY ParsesUnfold
<1>4. IF Goes(tokens, "and", p[i].not)
      THEN p[i].and.at = p[p[i].not.at + 1].and.at ELSE p[i].and = p[i].not
  BY ParsesUnfold
<1>5. IF Goes(tokens, "or", p[i].and)
      THEN p[i].or.at = p[p[i].and.at + 1].or.at ELSE p[i].or = p[i].and
  BY ParsesUnfold
<1> HIDE DEF p
<1>6. Reaches(tokens, facts, p, i)
  BY <1>1, <1>2, <1>3, <1>4, <1>5 DEF Reaches
<1> QED
  BY <1>6 DEF p

\* Where the parser gets to does not depend on the facts.
LEMMA SamePlaces ==
  ASSUME NEW tokens, Len(tokens) \in Nat, NEW facts, NEW others
  PROVE  \A i \in 1..Len(tokens) + 1 :
           LET p == Parses(tokens, facts)[i]
               q == Parses(tokens, others)[i] IN
           p.not.at = q.not.at /\ p.and.at = q.and.at /\ p.or.at = q.or.at
<1> DEFINE n == Len(tokens)
           p == Parses(tokens, facts)
           q == Parses(tokens, others)
           Same(i) == /\ p[i].not.at = q[i].not.at /\ p[i].and.at = q[i].and.at
                      /\ p[i].or.at = q[i].or.at
           P == {i \in 1..n + 1 : Same(i)}
<1>0. \A i \in 1..n + 1 : /\ Reaches(tokens, facts, p, i) /\ AllAhead(tokens, p[i], i)
                           /\ Reaches(tokens, others, q, i)
  BY ParsesReach, ParsesAre
<1> HIDE DEF p, q
<1>1. ASSUME NEW i \in 1..n + 1, \A j \in i + 1 .. n + 1 : j \in P PROVE i \in P
  <2>0. i \in 1..n + 1 /\ \A j \in i + 1 .. n + 1 : Same(j)
    BY <1>1
  <2>1. p[i].not.at = q[i].not.at
    <3>1. CASE Peek(tokens, i) \notin {<<"not">>, <<"(">>}
      <4>1. p[i].not = ParseLeaf(tokens, facts, i) /\ q[i].not = ParseLeaf(tokens, others, i)
        BY <1>0, <2>0, <3>1 DEF Reaches
      <4>2. ParseLeaf(tokens, facts, i).at = ParseLeaf(tokens, others, i).at
        BY DEF ParseLeaf
      <4> QED
        BY <4>1, <4>2
    <3>2. CASE Peek(tokens, i) \in {<<"not">>, <<"(">>}
      <4>1. i + 1 \in i + 1 .. n + 1
        BY <2>0, <3>2, EndIsNoToken DEF Peek
      <4>2. Same(i + 1)
        BY <2>0, <4>1
      <4>3. CASE Peek(tokens, i) = <<"not">>
        <5>1. p[i].not.at = p[i + 1].not.at /\ q[i].not.at = q[i + 1].not.at
          BY <1>0, <2>0, <4>3 DEF Reaches
        <5> QED
          BY <4>2, <5>1
      <4>4. CASE Peek(tokens, i) = <<"(">>
        <5>1. /\ IF p[i + 1].or.at = 0 \/ Peek(tokens, p[i + 1].or.at) # <<")">>
                 THEN p[i].not.at = 0 ELSE p[i].not.at = p[i + 1].or.at + 1
              /\ IF q[i + 1].or.at = 0 \/ Peek(tokens, q[i + 1].or.at) # <<")">>
                 THEN q[i].not.at = 0 ELSE q[i].not.at = q[i + 1].or.at + 1
          BY <1>0, <2>0, <4>4 DEF Reaches
        <5> QED
          BY <4>2, <5>1
      <4> QED
        BY <3>2, <4>3, <4>4
    <3> QED
      BY <3>1, <3>2
  <2>2. ASSUME NEW word, NEW left, NEW right, left.at = right.at, Ahead(tokens, left, i)
        PROVE  /\ Goes(tokens, word, left) <=> Goes(tokens, word, right)
               /\ Goes(tokens, word, left) => Same(left.at + 1)
    <3>1. Goes(tokens, word, left) <=> Goes(tokens, word, right)
      BY <2>2 DEF Goes, Raised
    <3>2. Goes(tokens, word, left) => left.at + 1 \in i + 1 .. n + 1
      BY <2>0, <2>2, GoesAhead
    <3> HIDE DEF Same
    <3> QED
      BY <2>0, <3>1, <3>2
  <2>3. Ahead(tokens, p[i].not, i) /\ Ahead(tokens, p[i].and, i)
    BY <1>0, <2>0 DEF AllAhead
  <2>4. p[i].and.at = q[i].and.at
    <3>1. /\ Goes(tokens, "and", p[i].not) <=> Goes(tokens, "and", q[i].not)
          /\ Goes(tokens, "and", p[i].not) => Same(p[i].not.at + 1)
      BY <2>1, <2>2, <2>3
    <3>2. /\ IF Goes(tokens, "and", p[i].not)
             THEN p[i].and.at = p[p[i].not.at + 1].and.at ELSE p[i].and = p[i].not
          /\ IF Goes(tokens, "and", q[i].not)
             THEN q[i].and.at = q[q[i].not.at + 1].and.at ELSE q[i].and = q[i].not
      BY <1>0, <2>0 DEF Reaches
    <3> QED
      BY <2>1, <3>1, <3>2
  <2>5. p[i].or.at = q[i].or.at
    <3>1. /\ Goes(tokens, "or", p[i].and) <=> Goes(tokens, "or", q[i].and)
          /\ Goes(tokens, "or", p[i].and) => Same(p[i].and.at + 1)
      BY <2>4, <2>2, <2>3
    <3>2. /\ IF Goes(tokens, "or", p[i].and)
             THEN p[i].or.at = p[p[i].and.at + 1].or.at ELSE p[i].or = p[i].and
          /\ IF Goes(tokens, "or", q[i].and)
             THEN q[i].or.at = q[q[i].and.at + 1].or.at ELSE q[i].or = q[i].and
      BY <1>0, <2>0 DEF Reaches
    <3> QED
      BY <2>4, <3>1, <3>2
  <2> QED
    BY <2>0, <2>1, <2>4, <2>5
<1>2. 1..n + 1 \subseteq P
  <2> HIDE DEF P
  <2> QED
    BY <1>1, CountDown
<1> QED
  BY <1>2 DEF p, q

\* An expression that is accepted once is accepted with any facts; and it has one truth.
LEMMA SameAccepted ==
  ASSUME NEW tokens, Len(tokens) \in Nat, NEW facts, NEW others
  PROVE  /\ Parse(tokens, facts) # {} => Parse(tokens, others) # {}
         /\ Parse(tokens, facts) = {} \/ \E v : Parse(tokens, facts) = {v}
<1>1. Parses(tokens, facts)[1].or.at = Parses(tokens, others)[1].or.at
  <2>1. 1 \in 1..Len(tokens) + 1
    OBVIOUS
  <2> QED
    BY <2>1, SamePlaces
<1>2. \A f : Parse(tokens, f) = IF \/ Parses(tokens, f)[1].or.at = 0
                                   \/ Parses(tokens, f)[1].or.at # Len(tokens) + 1
                                THEN {} ELSE {Parses(tokens, f)[1].or.is}
  BY Zenon DEF Parse, Raised
<1> QED
  BY <1>1, <1>2

\* Facts that are among others.
Among(facts, others) ==
  DOMAIN facts \subseteq DOMAIN others /\ \A field \in DOMAIN facts : facts[field] \subseteq others[field]

\* A result is true when another is.
Implies(result, other) == result.is \in BOOLEAN /\ other.is \in BOOLEAN /\ (result.is => other.is)

\* A condition that is met stays met when there are more facts.
LEMMA LeafGrows ==
  ASSUME NEW tokens, NEW facts, NEW others, Among(facts, others), NEW i
  PROVE  Implies(ParseLeaf(tokens, facts, i), ParseLeaf(tokens, others, i))
<1>1. ASSUME NEW field, NEW allowed
      PROVE  /\ Allows(field, allowed, facts) \in BOOLEAN /\ Allows(field, allowed, others) \in BOOLEAN
             /\ Allows(field, allowed, facts) => Allows(field, allowed, others)
  <2>1. Allows(field, allowed, facts) \in BOOLEAN /\ Allows(field, allowed, others) \in BOOLEAN
    BY Zenon DEF Allows
  <2>2. ASSUME Allows(field, allowed, facts) PROVE Allows(field, allowed, others)
    <3> DEFINE name == IF field = <<"channel">> THEN "scope" ELSE field[1]
    <3>1. /\ ~IsQuoted(field) /\ name \in DOMAIN facts
          /\ \E fact \in facts[name] :
               fact \in allowed \/ (name \in NullableFields /\ fact = JsonNull)
      BY <2>2, Zenon DEF Allows
    <3> HIDE DEF name
    <3>2. name \in DOMAIN others /\ facts[name] \subseteq others[name]
      BY <3>1 DEF Among
    <3>3. /\ ~IsQuoted(field) /\ name \in DOMAIN others
          /\ \E fact \in others[name] :
               fact \in allowed \/ (name \in NullableFields /\ fact = JsonNull)
      BY <3>1, <3>2
    <3> QED
      BY <3>3, Zenon DEF Allows, name
  <2> QED
    BY <2>1, <2>2
<1> DEFINE operator == Peek(tokens, i + 1)
           closing == Closing(Peek(tokens, i + 2))
           strings == Strings(tokens, closing)[i + 3]
           one == Peek(tokens, i + 2)
           Is(f) == IF i > Len(tokens) THEN FALSE
                    ELSE IF operator = <<"=">> /\ IsQuoted(one)
                    THEN Allows(tokens[i], {one[2]}, f)
                    ELSE IF operator = <<"in">> /\ closing # <<>> /\ strings.at # 0
                    THEN Allows(tokens[i], strings.allowed, f)
                    ELSE FALSE
<1>2. ASSUME NEW f PROVE ParseLeaf(tokens, f, i).is = Is(f)
  <2>1. CASE i > Len(tokens)
    BY <2>1, Zenon DEF ParseLeaf, ValueError
  <2>2. CASE ~(i > Len(tokens)) /\ operator = <<"=">> /\ IsQuoted(one)
    <3>1. ParseLeaf(tokens, f, i) = [at |-> i + 3, is |-> Allows(tokens[i], {one[2]}, f)]
      BY <2>2, Zenon DEF ParseLeaf
    <3>2. ParseLeaf(tokens, f, i).is = Allows(tokens[i], {one[2]}, f)
      BY <3>1
    <3> QED
      BY <2>2, <3>2, Zenon
  <2>3. CASE /\ ~(i > Len(tokens)) /\ ~(operator = <<"=">> /\ IsQuoted(one))
             /\ operator = <<"in">> /\ closing # <<>> /\ strings.at # 0
    <3>1. ParseLeaf(tokens, f, i) = [at |-> strings.at, is |-> Allows(tokens[i], strings.allowed, f)]
      BY <2>3, Zenon DEF ParseLeaf
    <3>2. ParseLeaf(tokens, f, i).is = Allows(tokens[i], strings.allowed, f)
      BY <3>1
    <3> QED
      BY <2>3, <3>2, Zenon
  <2>4. CASE /\ ~(i > Len(tokens)) /\ ~(operator = <<"=">> /\ IsQuoted(one))
             /\ ~(operator = <<"in">> /\ closing # <<>> /\ strings.at # 0)
    <3>1. ParseLeaf(tokens, f, i) = ValueError
      BY <2>4, Zenon DEF ParseLeaf
    <3>2. ParseLeaf(tokens, f, i).is = FALSE
      BY <3>1 DEF ValueError
    <3> QED
      BY <2>4, <3>2, Zenon
  <2> QED
    BY <2>1, <2>2, <2>3, <2>4, Zenon
<1>3. Is(facts) \in BOOLEAN /\ Is(others) \in BOOLEAN /\ (Is(facts) => Is(others))
  BY <1>1, Zenon
<1> HIDE DEF Is
<1> QED
  BY <1>2, <1>3, Zenon DEF Implies

\* Without "not", an expression that is true stays true when there are more facts.
LEMMA TruthGrows ==
  ASSUME NEW tokens, Len(tokens) \in Nat, \A i \in 1..Len(tokens) : tokens[i] # <<"not">>,
         NEW facts, NEW others, Among(facts, others), TRUE \in Parse(tokens, facts)
  PROVE  TRUE \in Parse(tokens, others)
<1> DEFINE n == Len(tokens)
           p == Parses(tokens, facts)
           q == Parses(tokens, others)
           Grows(i) == /\ Implies(p[i].not, q[i].not) /\ Implies(p[i].and, q[i].and)
                       /\ Implies(p[i].or, q[i].or)
           P == {i \in 1..n + 1 : Grows(i)}
<1>1. \A a, b : Both(a, b) \in BOOLEAN /\ Either(a, b) \in BOOLEAN
  BY Zenon DEF Both, Either
<1>2. ASSUME NEW a \in BOOLEAN, NEW b \in BOOLEAN, NEW c \in BOOLEAN, NEW d \in BOOLEAN, a => c, b => d
      PROVE  (Both(a, b) => Both(c, d)) /\ (Either(a, b) => Either(c, d))
  BY <1>2, Zenon DEF Both, Either
<1>3. ASSUME NEW i \in 1..n + 1, \A j \in i + 1 .. n + 1 : j \in P PROVE i \in P
  <2>00. i \in 1..n + 1
    BY <1>3
  <2>0. i \in 1..n + 1 /\ \A j \in i + 1 .. n + 1 : Grows(j)
    BY <1>3
  <2>1. /\ p[i].not.at = q[i].not.at /\ p[i].and.at = q[i].and.at
        /\ Ahead(tokens, p[i].not, i) /\ Ahead(tokens, p[i].and, i)
    BY <2>0, SamePlaces, ParsesAre DEF AllAhead
  <2>2. Implies(p[i].not, q[i].not)
    <3>1. Peek(tokens, i) # <<"not">>
      BY <2>0, EndIsNoToken DEF Peek
    <3>2. CASE Peek(tokens, i) = <<"(">>
      <4>1. i + 1 \in i + 1 .. n + 1
        BY <2>0, <3>2, EndIsNoToken DEF Peek
      <4>2. Implies(p[i + 1].or, q[i + 1].or) /\ p[i + 1].or.at = q[i + 1].or.at
        BY <2>0, <4>1, SamePlaces
      <4>3. p[i].not = Closed(tokens, p[i + 1].or) /\ q[i].not = Closed(tokens, q[i + 1].or)
        <5>1. \A f : ParseNot(tokens, f, Parses(tokens, f), i) = Closed(tokens, Parses(tokens, f)[i + 1].or)
          BY <3>1, <3>2, Zenon DEF ParseNot
        <5>2. \A f : Parses(tokens, f)[i].not = ParseNot(tokens, f, Parses(tokens, f), i)
          <6> TAKE f
          <6>1. Parses(tokens, f)[i] = ParseAt(tokens, f, Parses(tokens, f), i)
            BY <2>00, ParsesAre
          <6> QED
            BY <6>1 DEF ParseAt
        <5> QED
          BY <5>1, <5>2
      <4> HIDE DEF p, q
      <4>4. CASE p[i + 1].or.at = 0 \/ Peek(tokens, p[i + 1].or.at) # <<")">>
        <5>1. p[i].not = ValueError /\ q[i].not = ValueError
          BY <4>2, <4>3, <4>4 DEF Closed, Raised
        <5>2. p[i].not.is = FALSE /\ q[i].not.is = FALSE
          BY <5>1 DEF ValueError
        <5> QED
          BY <5>2, Zenon DEF Implies
      <4>5. CASE ~(p[i + 1].or.at = 0 \/ Peek(tokens, p[i + 1].or.at) # <<")">>)
        <5>1. p[i].not.is = p[i + 1].or.is /\ q[i].not.is = q[i + 1].or.is
          BY <4>2, <4>3, <4>5 DEF Closed, Raised
        <5> QED
          BY <4>2, <5>1, Zenon DEF Implies
      <4> QED
        BY <4>4, <4>5
    <3>3. CASE Peek(tokens, i) # <<"(">>
      <4>1. p[i].not = ParseLeaf(tokens, facts, i) /\ q[i].not = ParseLeaf(tokens, others, i)
        BY <2>0, <3>1, <3>3, ParsesUnfold
      <4> HIDE DEF p, q
      <4> QED
        BY <4>1, LeafGrows
    <3> QED
      BY <3>2, <3>3
  <2>3. ASSUME NEW word, NEW left, NEW right, left.at = right.at, Ahead(tokens, left, i)
        PROVE  /\ Goes(tokens, word, left) <=> Goes(tokens, word, right)
               /\ Goes(tokens, word, left) => Grows(left.at + 1)
    <3>1. Goes(tokens, word, left) <=> Goes(tokens, word, right)
      BY <2>3 DEF Goes, Raised
    <3>2. Goes(tokens, word, left) => left.at + 1 \in i + 1 .. n + 1
      BY <2>0, <2>3, GoesAhead
    <3> HIDE DEF Grows
    <3> QED
      BY <2>0, <3>1, <3>2
  <2>4. Implies(p[i].and, q[i].and)
    <3>1. CASE Goes(tokens, "and", p[i].not)
      <4>1. Goes(tokens, "and", q[i].not)
        BY <2>1, <2>3, <3>1
      <4>6. Grows(p[i].not.at + 1)
        BY <2>1, <2>3, <3>1
      <4>2. p[i].and.is = Both(p[i].not.is, p[p[i].not.at + 1].and.is)
        BY <2>00, <3>1, ParsesUnfold
      <4>3. q[i].and.is = Both(q[i].not.is, q[q[i].not.at + 1].and.is)
        BY <2>00, <4>1, ParsesUnfold
      <4>4. q[i].and.is = Both(q[i].not.is, q[p[i].not.at + 1].and.is)
        BY <2>1, <4>3
      <4>5. Implies(p[p[i].not.at + 1].and, q[p[i].not.at + 1].and)
        BY <4>6
      <4> HIDE DEF p, q
      <4> QED
        BY <1>1, <1>2, <2>2, <4>2, <4>4, <4>5, Zenon DEF Implies
    <3>2. CASE ~Goes(tokens, "and", p[i].not)
      <4>1. ~Goes(tokens, "and", q[i].not)
        BY <2>1, <2>3, <3>2
      <4>2. p[i].and = p[i].not
        BY <2>00, <3>2, ParsesUnfold
      <4>3. q[i].and = q[i].not
        BY <2>00, <4>1, ParsesUnfold
      <4> QED
        BY <2>2, <4>2, <4>3
    <3> QED
      BY <3>1, <3>2
  <2>5. Implies(p[i].or, q[i].or)
    <3>1. CASE Goes(tokens, "or", p[i].and)
      <4>1. Goes(tokens, "or", q[i].and)
        BY <2>1, <2>3, <3>1
      <4>6. Grows(p[i].and.at + 1)
        BY <2>1, <2>3, <3>1
      <4>2. p[i].or.is = Either(p[i].and.is, p[p[i].and.at + 1].or.is)
        BY <2>00, <3>1, ParsesUnfold
      <4>3. q[i].or.is = Either(q[i].and.is, q[q[i].and.at + 1].or.is)
        BY <2>00, <4>1, ParsesUnfold
      <4>4. q[i].or.is = Either(q[i].and.is, q[p[i].and.at + 1].or.is)
        BY <2>1, <4>3
      <4>5. Implies(p[p[i].and.at + 1].or, q[p[i].and.at + 1].or)
        BY <4>6
      <4> HIDE DEF p, q
      <4> QED
        BY <1>1, <1>2, <2>4, <4>2, <4>4, <4>5, Zenon DEF Implies
    <3>2. CASE ~Goes(tokens, "or", p[i].and)
      <4>1. ~Goes(tokens, "or", q[i].and)
        BY <2>1, <2>3, <3>2
      <4>2. p[i].or = p[i].and
        BY <2>00, <3>2, ParsesUnfold
      <4>3. q[i].or = q[i].and
        BY <2>00, <4>1, ParsesUnfold
      <4> QED
        BY <2>4, <4>2, <4>3
    <3> QED
      BY <3>1, <3>2
  <2> QED
    BY <2>0, <2>2, <2>4, <2>5
<1>4. 1..n + 1 \subseteq P
  <2> HIDE DEF P
  <2> QED
    BY <1>3, CountDown
<1>5. 1 \in 1..n + 1
  OBVIOUS
<1>6. Implies(p[1].or, q[1].or) /\ p[1].or.at = q[1].or.at
  BY <1>4, <1>5, SamePlaces
<1>7. \A f : Parse(tokens, f) = IF \/ Parses(tokens, f)[1].or.at = 0
                                   \/ Parses(tokens, f)[1].or.at # n + 1
                                THEN {} ELSE {Parses(tokens, f)[1].or.is}
  BY Zenon DEF Parse, Raised
<1>8. TRUE \in IF p[1].or.at = 0 \/ p[1].or.at # n + 1 THEN {} ELSE {p[1].or.is}
  BY <1>7, Zenon
<1>9. Parse(tokens, others) = IF q[1].or.at = 0 \/ q[1].or.at # n + 1 THEN {} ELSE {q[1].or.is}
  BY <1>7, Zenon
<1> HIDE DEF p, q, n
<1>10. ~(p[1].or.at = 0 \/ p[1].or.at # n + 1) /\ p[1].or.is = TRUE
  BY <1>8, Zenon
<1>11. q[1].or.is = TRUE
  BY <1>6, <1>10, Zenon DEF Implies
<1>12. Parse(tokens, others) = {q[1].or.is}
  BY <1>6, <1>9, <1>10
<1> QED
  BY <1>11, <1>12, Zenon

----------------------------------------------------------------------------
(* What a document says at a path, field by field.                         *)

SaysScalar(doc, at, v) == \E f \in ScalarFields[kind] : at = <<f>> /\ v = Get(doc, f)
SaysItem(doc, at, v) ==
  \E f \in ListFields[kind] : at = <<f, v>> /\ v \in ToSet(ItemsOf(Get(doc, f)))
SaysLink(doc, at, v) ==
  kind \in WithAssociations /\
    \E type \in DOMAIN AssociationsOf(doc) : \E target \in AssociationTargets :
      at = <<"associations", type, target, v>> /\ v \in ToSet(ItemsOf(Linked(doc, type, target)))
SaysLabel(doc, at, v) ==
  kind \in WithLabels /\
    \E locale \in DOMAIN LabelsOf(doc) : at = <<"labels", locale>> /\ v = LabelsOf(doc)[locale]
SaysValue(doc, at, v) ==
  kind \in WithValues /\
    \E key \in DOMAIN Indexed(doc) :
      at = <<"values", key[1], key[2], key[3]>> /\ v = Indexed(doc)[key]

Says(doc, at, v) ==
  v # JsonNull /\ (SaysScalar(doc, at, v) \/ SaysItem(doc, at, v) \/ SaysLink(doc, at, v)
                     \/ SaysLabel(doc, at, v) \/ SaysValue(doc, at, v))

\* The paths of each kind of field.
ScalarPath(at) == \E f \in ScalarFields[kind] : at = <<f>>
ItemPath(at) == \E f \in ListFields[kind] : \E x : at = <<f, x>>
LinkPath(at) ==
  \E type, x : \E target \in AssociationTargets : at = <<"associations", type, target, x>>
LabelPath(at) == \E locale : at = <<"labels", locale>>
ValuePath(at) == \E a, l, s : at = <<"values", a, l, s>>

\* The fields are those of the table in compute_delta_changes.
LEMMA FieldsAre ==
  ASSUME kind \in DeltaKinds
  PROVE  /\ ScalarFields[kind] \subseteq {"enabled", "family", "parent", "sort_order"}
         /\ ListFields[kind] \subseteq {"groups", "categories"}
BY DEF ScalarFields, ListFields, DeltaKinds

\* No path is of two kinds.
LEMMA PathsDiffer ==
  ASSUME kind \in DeltaKinds, NEW at
  PROVE  /\ at = <<>> => ~(ScalarPath(at) \/ ItemPath(at) \/ LinkPath(at) \/ LabelPath(at) \/ ValuePath(at))
         /\ ScalarPath(at) => ~(ItemPath(at) \/ LinkPath(at) \/ LabelPath(at) \/ ValuePath(at))
         /\ ItemPath(at) => ~(LinkPath(at) \/ LabelPath(at) \/ ValuePath(at))
         /\ LinkPath(at) => ~(LabelPath(at) \/ ValuePath(at))
         /\ LabelPath(at) => ~ValuePath(at)
BY FieldsAre DEF ScalarPath, ItemPath, LinkPath, LabelPath, ValuePath

\* The keys of the index of "values" have three parts.
LEMMA IndexKeys ==
  ASSUME NEW doc, NEW key \in DOMAIN Indexed(doc)
  PROVE  key = <<key[1], key[2], key[3]>>
BY DEF Indexed, ValueIndex

\* Each part of a document speaks of its own paths.
LEMMA SaysAt ==
  ASSUME NEW doc, NEW at, NEW v
  PROVE  /\ SaysScalar(doc, at, v) => ScalarPath(at)
         /\ SaysItem(doc, at, v) => ItemPath(at)
         /\ SaysLink(doc, at, v) => LinkPath(at)
         /\ SaysLabel(doc, at, v) => LabelPath(at)
         /\ SaysValue(doc, at, v) => ValuePath(at)
BY DEF SaysScalar, SaysItem, SaysLink, SaysLabel, SaysValue,
       ScalarPath, ItemPath, LinkPath, LabelPath, ValuePath

\* A view has the cells that its document says, and the cell without a path.
LEMMA ViewIs ==
  ASSUME NEW doc, NEW c
  PROVE  c \in View(doc) <=>
           c = Exists \/ \E at, v : c = [at |-> at, is |-> v] /\ Says(doc, at, v)
<1>1. c \in ScalarCells(doc) <=>
        \E at, v : c = [at |-> at, is |-> v] /\ v # JsonNull /\ SaysScalar(doc, at, v)
  BY DEF SaysScalar, ScalarCells, Cell
<1>2. c \in ListCells(doc) <=>
        \E at, v : c = [at |-> at, is |-> v] /\ v # JsonNull /\ SaysItem(doc, at, v)
  BY DEF SaysItem, ListCells, Cell
<1>3. kind \in WithAssociations =>
        (c \in AssociationCells(doc) <=>
           \E at, v : c = [at |-> at, is |-> v] /\ v # JsonNull /\ SaysLink(doc, at, v))
  BY DEF SaysLink, AssociationCells, Cell
<1>4. kind \in WithLabels =>
        (c \in LabelCells(doc) <=>
           \E at, v : c = [at |-> at, is |-> v] /\ v # JsonNull /\ SaysLabel(doc, at, v))
  BY DEF SaysLabel, LabelCells, Cell
<1>5. kind \in WithValues =>
        (c \in ValueCells(doc) <=>
           \E at, v : c = [at |-> at, is |-> v] /\ v # JsonNull /\ SaysValue(doc, at, v))
  BY DEF SaysValue, ValueCells, Cell
<1>6. c \in View(doc) <=>
        \/ c = Exists \/ c \in ScalarCells(doc) \/ c \in ListCells(doc)
        \/ kind \in WithAssociations /\ c \in AssociationCells(doc)
        \/ kind \in WithLabels /\ c \in LabelCells(doc)
        \/ kind \in WithValues /\ c \in ValueCells(doc)
  BY DEF View
<1> QED
  BY <1>1, <1>2, <1>3, <1>4, <1>5, <1>6 DEF Says, SaysLink, SaysLabel, SaysValue

\* An association without a type has no items of it.
LEMMA LinkedNone ==
  ASSUME NEW doc, NEW type, NEW target, type \notin DOMAIN AssociationsOf(doc)
  PROVE  ToSet(ItemsOf(Linked(doc, type, target))) = {}
BY DEF JsonNull, Linked, Get, DictOf, IsDict, ItemsOf, IsList, ToSet

\* A set of changes tells how a part of the documents differs: at the path of a change the
\* current one says what is new there and nothing else; elsewhere they say the same.
Tells(changes, SaysBefore(_, _), SaysAfter(_, _)) ==
  /\ \A c \in changes : \A v : v # JsonNull => (SaysAfter(c.at, v) <=> v = c.new)
  /\ \A at : (\A c \in changes : c.at # at) =>
       \A v : v # JsonNull => (SaysBefore(at, v) <=> SaysAfter(at, v))

\* The changes of the scalar fields tell how those differ.
LEMMA FieldsTell ==
  ASSUME NEW previous, NEW current
  PROVE  /\ Tells(FieldChanges(kind, previous, current),
                  LAMBDA at, v : SaysScalar(previous, at, v), LAMBDA at, v : SaysScalar(current, at, v))
         /\ \A c \in FieldChanges(kind, previous, current) : ScalarPath(c.at)
<1> DEFINE changes == FieldChanges(kind, previous, current)
<1>1. \A c : c \in changes <=>
        \E f \in ScalarFields[kind] :
          /\ Get(previous, f) # Get(current, f)
          /\ c = [at |-> <<f>>, previous |-> Get(previous, f), new |-> Get(current, f)]
  BY DEF FieldChanges, ScalarChange
<1> HIDE DEF changes
<1>2. \A c \in changes : ScalarPath(c.at)
  BY <1>1 DEF ScalarPath
<1>3. ASSUME NEW c \in changes, NEW v
      PROVE  SaysScalar(current, c.at, v) <=> v = c.new
  BY <1>1, <1>3 DEF SaysScalar
<1>4. ASSUME NEW at, \A c \in changes : c.at # at, NEW v
      PROVE  SaysScalar(previous, at, v) <=> SaysScalar(current, at, v)
  <2>1. \A f \in ScalarFields[kind] : at = <<f>> => Get(previous, f) = Get(current, f)
    <3>1. ASSUME NEW f \in ScalarFields[kind], at = <<f>>, Get(previous, f) # Get(current, f)
          PROVE  FALSE
      <4> DEFINE c == [at |-> <<f>>, previous |-> Get(previous, f), new |-> Get(current, f)]
      <4>1. c \in changes
        BY <1>1, <3>1
      <4> QED
        BY <1>4, <3>1, <4>1
    <3> QED
      BY <3>1
  <2> QED
    BY <2>1 DEF SaysScalar
<1> QED
  BY <1>2, <1>3, <1>4 DEF Tells, changes

\* The changes of a list are the items added and those removed.
LEMMA ListChanges ==
  ASSUME NEW previous, NEW current
  PROVE  LET Before == ToSet(ItemsOf(previous))
             After == ToSet(ItemsOf(current)) IN
         /\ \A c \in ListChange(previous, current) :
              \/ c.item \in After \ Before /\ c.previous = JsonNull /\ c.new = c.item
              \/ c.item \in Before \ After /\ c.previous = c.item /\ c.new = JsonNull
         /\ \A x \in After \ Before :
              \E c \in ListChange(previous, current) :
                c.item = x /\ c.previous = JsonNull /\ c.new = x
         /\ \A x \in Before \ After :
              \E c \in ListChange(previous, current) :
                c.item = x /\ c.previous = x /\ c.new = JsonNull
<1> DEFINE Before == ToSet(ItemsOf(previous))
           After == ToSet(ItemsOf(current))
<1>1. \A c : c \in ListChange(previous, current) <=>
        \/ \E x \in After \ Before : c = [item |-> x, previous |-> JsonNull, new |-> x]
        \/ \E x \in Before \ After : c = [item |-> x, previous |-> x, new |-> JsonNull]
  BY DEF ListChange
<1> HIDE DEF Before, After
<1>2. \A x \in After \ Before :
        [item |-> x, previous |-> JsonNull, new |-> x] \in ListChange(previous, current)
  BY <1>1
<1>3. \A x \in Before \ After :
        [item |-> x, previous |-> x, new |-> JsonNull] \in ListChange(previous, current)
  BY <1>1
<1>4. \A c \in ListChange(previous, current) :
        \/ c.item \in After \ Before /\ c.previous = JsonNull /\ c.new = c.item
        \/ c.item \in Before \ After /\ c.previous = c.item /\ c.new = JsonNull
  BY <1>1
<1>5. ASSUME NEW x \in After \ Before
      PROVE  \E c \in ListChange(previous, current) : c.item = x /\ c.previous = JsonNull /\ c.new = x
  <2> USE <1>2
  <2> WITNESS [item |-> x, previous |-> JsonNull, new |-> x] \in ListChange(previous, current)
  <2> QED
    OBVIOUS
<1>6. ASSUME NEW x \in Before \ After
      PROVE  \E c \in ListChange(previous, current) : c.item = x /\ c.previous = x /\ c.new = JsonNull
  <2> USE <1>3
  <2> WITNESS [item |-> x, previous |-> x, new |-> JsonNull] \in ListChange(previous, current)
  <2> QED
    OBVIOUS
<1> QED
  BY <1>4, <1>5, <1>6 DEF Before, After

\* The changes of the lists tell how those differ.
LEMMA ItemsTell ==
  ASSUME NEW previous, NEW current
  PROVE  /\ Tells(ItemChanges(kind, previous, current),
                  LAMBDA at, v : SaysItem(previous, at, v), LAMBDA at, v : SaysItem(current, at, v))
         /\ \A c \in ItemChanges(kind, previous, current) : ItemPath(c.at)
<1> DEFINE changes == ItemChanges(kind, previous, current)
           Before(f) == ToSet(ItemsOf(Get(previous, f)))
           After(f) == ToSet(ItemsOf(Get(current, f)))
<1>1. \A c : c \in changes <=>
        \E f \in ListFields[kind] :
          \/ \E x \in After(f) \ Before(f) : c = [at |-> <<f, x>>, previous |-> JsonNull, new |-> x]
          \/ \E x \in Before(f) \ After(f) : c = [at |-> <<f, x>>, previous |-> x, new |-> JsonNull]
  <2>1. \A c : c \in changes <=>
          \E f \in ListFields[kind] : \E d \in ListChange(Get(previous, f), Get(current, f)) :
            c = [at |-> <<f, d.item>>, previous |-> d.previous, new |-> d.new]
    BY DEF ItemChanges
  <2>2. \A f \in ListFields[kind] :
          /\ \A d \in ListChange(Get(previous, f), Get(current, f)) :
               \/ d.item \in After(f) \ Before(f) /\ d.previous = JsonNull /\ d.new = d.item
               \/ d.item \in Before(f) \ After(f) /\ d.previous = d.item /\ d.new = JsonNull
          /\ \A x \in After(f) \ Before(f) :
               \E d \in ListChange(Get(previous, f), Get(current, f)) :
                 d.item = x /\ d.previous = JsonNull /\ d.new = x
          /\ \A x \in Before(f) \ After(f) :
               \E d \in ListChange(Get(previous, f), Get(current, f)) :
                 d.item = x /\ d.previous = x /\ d.new = JsonNull
    BY ListChanges
  <2> HIDE DEF changes, Before, After
  <2> QED
    BY <2>1, <2>2
<1>2. \A at, v : /\ SaysItem(previous, at, v) <=>
                      \E f \in ListFields[kind] : at = <<f, v>> /\ v \in Before(f)
                 /\ SaysItem(current, at, v) <=>
                      \E f \in ListFields[kind] : at = <<f, v>> /\ v \in After(f)
  BY DEF SaysItem
<1> HIDE DEF changes, Before, After
<1>3. \A c \in changes : ItemPath(c.at)
  BY <1>1 DEF ItemPath
<1>4. ASSUME NEW c \in changes, NEW v, v # JsonNull
      PROVE  SaysItem(current, c.at, v) <=> v = c.new
  BY <1>1, <1>2, <1>4
<1>5. ASSUME NEW at, \A c \in changes : c.at # at, NEW v
      PROVE  SaysItem(previous, at, v) <=> SaysItem(current, at, v)
  <2>1. \A f \in ListFields[kind] : at = <<f, v>> => (v \in Before(f) <=> v \in After(f))
    <3>1. ASSUME NEW f \in ListFields[kind], at = <<f, v>>, v \in After(f) \ Before(f)
          PROVE  FALSE
      <4> DEFINE c == [at |-> <<f, v>>, previous |-> JsonNull, new |-> v]
      <4>1. c \in changes
        BY <1>1, <3>1
      <4> QED
        BY <1>5, <3>1, <4>1
    <3>2. ASSUME NEW f \in ListFields[kind], at = <<f, v>>, v \in Before(f) \ After(f)
          PROVE  FALSE
      <4> DEFINE c == [at |-> <<f, v>>, previous |-> v, new |-> JsonNull]
      <4>1. c \in changes
        BY <1>1, <3>2
      <4> QED
        BY <1>5, <3>2, <4>1
    <3> QED
      BY <3>1, <3>2
  <2> QED
    BY <1>2, <2>1
<1> QED
  BY <1>3, <1>4, <1>5 DEF Tells, changes

\* So do the changes of the associations.
LEMMA LinksTell ==
  ASSUME NEW previous, NEW current, kind \in WithAssociations
  PROVE  /\ Tells(AssociationChanges(previous, current),
                  LAMBDA at, v : SaysLink(previous, at, v), LAMBDA at, v : SaysLink(current, at, v))
         /\ \A c \in AssociationChanges(previous, current) : LinkPath(c.at)
<1> DEFINE changes == AssociationChanges(previous, current)
           Before(type, target) == ToSet(ItemsOf(Linked(previous, type, target)))
           After(type, target) == ToSet(ItemsOf(Linked(current, type, target)))
           types == DOMAIN AssociationsOf(previous) \cup DOMAIN AssociationsOf(current)
<1>1. \A c : c \in changes <=>
        \E type \in types : \E target \in AssociationTargets :
          \/ \E x \in After(type, target) \ Before(type, target) :
               c = [at |-> <<"associations", type, target, x>>, previous |-> JsonNull, new |-> x]
          \/ \E x \in Before(type, target) \ After(type, target) :
               c = [at |-> <<"associations", type, target, x>>, previous |-> x, new |-> JsonNull]
  <2>1. \A c : c \in changes <=>
          \E type \in types : \E target \in AssociationTargets :
            \E d \in ListChange(Linked(previous, type, target), Linked(current, type, target)) :
              c = [at |-> <<"associations", type, target, d.item>>,
                   previous |-> d.previous, new |-> d.new]
    BY DEF AssociationChanges
  <2>2. \A type, target :
          /\ \A d \in ListChange(Linked(previous, type, target), Linked(current, type, target)) :
               \/ /\ d.item \in After(type, target) \ Before(type, target)
                  /\ d.previous = JsonNull /\ d.new = d.item
               \/ /\ d.item \in Before(type, target) \ After(type, target)
                  /\ d.previous = d.item /\ d.new = JsonNull
          /\ \A x \in After(type, target) \ Before(type, target) :
               \E d \in ListChange(Linked(previous, type, target), Linked(current, type, target)) :
                 d.item = x /\ d.previous = JsonNull /\ d.new = x
          /\ \A x \in Before(type, target) \ After(type, target) :
               \E d \in ListChange(Linked(previous, type, target), Linked(current, type, target)) :
                 d.item = x /\ d.previous = x /\ d.new = JsonNull
    BY ListChanges
  <2> HIDE DEF changes, types, Before, After
  <2> QED
    BY <2>1, <2>2
<1>2. \A at, v :
        /\ SaysLink(previous, at, v) <=>
             \E type \in types : \E target \in AssociationTargets :
               at = <<"associations", type, target, v>> /\ v \in Before(type, target)
        /\ SaysLink(current, at, v) <=>
             \E type \in types : \E target \in AssociationTargets :
               at = <<"associations", type, target, v>> /\ v \in After(type, target)
  BY LinkedNone DEF SaysLink
<1> HIDE DEF changes, Before, After, types
<1>3. \A c \in changes : LinkPath(c.at)
  BY <1>1 DEF LinkPath
<1>4. ASSUME NEW c \in changes, NEW v, v # JsonNull
      PROVE  SaysLink(current, c.at, v) <=> v = c.new
  BY <1>1, <1>2, <1>4
<1>5. ASSUME NEW at, \A c \in changes : c.at # at, NEW v
      PROVE  SaysLink(previous, at, v) <=> SaysLink(current, at, v)
  <2>1. \A type \in types : \A target \in AssociationTargets :
          at = <<"associations", type, target, v>> =>
            (v \in Before(type, target) <=> v \in After(type, target))
    <3> SUFFICES ASSUME NEW type \in types, NEW target \in AssociationTargets,
                        at = <<"associations", type, target, v>>
                 PROVE  v \in Before(type, target) <=> v \in After(type, target)
      OBVIOUS
    <3>1. ASSUME v \in After(type, target) \ Before(type, target) PROVE FALSE
      <4> DEFINE c == [at |-> <<"associations", type, target, v>>, previous |-> JsonNull, new |-> v]
      <4>1. c \in changes
        BY <1>1, <3>1
      <4> QED
        BY <1>5, <4>1
    <3>2. ASSUME v \in Before(type, target) \ After(type, target) PROVE FALSE
      <4> DEFINE c == [at |-> <<"associations", type, target, v>>, previous |-> v, new |-> JsonNull]
      <4>1. c \in changes
        BY <1>1, <3>2
      <4> QED
        BY <1>5, <4>1
    <3> QED
      BY <3>1, <3>2
  <2> QED
    BY <1>2, <2>1
<1> QED
  BY <1>3, <1>4, <1>5 DEF Tells, changes

\* So do the changes of the labels.
LEMMA LabelsTell ==
  ASSUME NEW previous, NEW current, kind \in WithLabels
  PROVE  /\ Tells(LabelsChanges(previous, current),
                  LAMBDA at, v : SaysLabel(previous, at, v), LAMBDA at, v : SaysLabel(current, at, v))
         /\ \A c \in LabelsChanges(previous, current) : LabelPath(c.at)
<1> DEFINE changes == LabelsChanges(previous, current)
           before == LabelsOf(previous)
           after == LabelsOf(current)
<1>1. \A c : c \in changes <=>
        \E l \in DOMAIN before \cup DOMAIN after :
          /\ Get(before, l) # Get(after, l)
          /\ c = [at |-> <<"labels", l>>, previous |-> Get(before, l), new |-> Get(after, l)]
  BY DEF LabelsChanges, ScalarChange
<1>2. \A at, v : v # JsonNull =>
        /\ SaysLabel(previous, at, v) <=>
             \E l \in DOMAIN before \cup DOMAIN after : at = <<"labels", l>> /\ v = Get(before, l)
        /\ SaysLabel(current, at, v) <=>
             \E l \in DOMAIN before \cup DOMAIN after : at = <<"labels", l>> /\ v = Get(after, l)
  BY DEF SaysLabel, Get
<1> HIDE DEF changes, before, after
<1>3. \A c \in changes : LabelPath(c.at)
  BY <1>1 DEF LabelPath
<1>4. ASSUME NEW c \in changes, NEW v, v # JsonNull
      PROVE  SaysLabel(current, c.at, v) <=> v = c.new
  BY <1>1, <1>2, <1>4
<1>5. ASSUME NEW at, \A c \in changes : c.at # at, NEW v, v # JsonNull
      PROVE  SaysLabel(previous, at, v) <=> SaysLabel(current, at, v)
  <2>1. \A l \in DOMAIN before \cup DOMAIN after :
          at = <<"labels", l>> => Get(before, l) = Get(after, l)
    <3>1. ASSUME NEW l \in DOMAIN before \cup DOMAIN after, at = <<"labels", l>>,
                 Get(before, l) # Get(after, l)
          PROVE  FALSE
      <4> DEFINE c == [at |-> <<"labels", l>>, previous |-> Get(before, l), new |-> Get(after, l)]
      <4>1. c \in changes
        BY <1>1, <3>1
      <4> QED
        BY <1>5, <3>1, <4>1
    <3> QED
      BY <3>1
  <2> QED
    BY <1>2, <1>5, <2>1
<1> QED
  BY <1>3, <1>4, <1>5 DEF Tells, changes

\* So do the changes of the values.
LEMMA ValuesTell ==
  ASSUME NEW previous, NEW current, kind \in WithValues
  PROVE  /\ Tells(ValuesChanges(previous, current),
                  LAMBDA at, v : SaysValue(previous, at, v), LAMBDA at, v : SaysValue(current, at, v))
         /\ \A c \in ValuesChanges(previous, current) : ValuePath(c.at)
<1> DEFINE changes == ValuesChanges(previous, current)
           before == Indexed(previous)
           after == Indexed(current)
           keys == DOMAIN before \cup DOMAIN after
           At(key) == <<"values", key[1], key[2], key[3]>>
<1>1. \A c : c \in changes <=>
        \E key \in keys :
          /\ ~(key \in DOMAIN before /\ key \in DOMAIN after /\ before[key] = after[key])
          /\ c = [at |-> At(key), previous |-> Get(before, key), new |-> Get(after, key)]
  BY DEF ValuesChanges
<1>2. \A at, v : v # JsonNull =>
        /\ SaysValue(previous, at, v) <=>
             \E key \in keys : at = At(key) /\ v = Get(before, key)
        /\ SaysValue(current, at, v) <=>
             \E key \in keys : at = At(key) /\ v = Get(after, key)
  BY DEF SaysValue, Get
<1>3. \A key, other \in keys : At(key) = At(other) => key = other
  BY IndexKeys
<1>4. \A key \in keys : ValuePath(At(key))
  BY DEF ValuePath
<1>5. \A key : (key \in DOMAIN before /\ key \in DOMAIN after /\ before[key] = after[key])
               => Get(before, key) = Get(after, key)
  BY DEF Get
<1> HIDE DEF changes, before, after, keys, At
<1>6. \A c \in changes : ValuePath(c.at)
  BY <1>1, <1>4
<1>7. ASSUME NEW c \in changes, NEW v, v # JsonNull
      PROVE  SaysValue(current, c.at, v) <=> v = c.new
  BY <1>1, <1>2, <1>3, <1>7
<1>8. ASSUME NEW at, \A c \in changes : c.at # at, NEW v, v # JsonNull
      PROVE  SaysValue(previous, at, v) <=> SaysValue(current, at, v)
  <2>1. \A key \in keys : at = At(key) => Get(before, key) = Get(after, key)
    <3>1. ASSUME NEW key \in keys, at = At(key), Get(before, key) # Get(after, key)
          PROVE  FALSE
      <4> DEFINE c == [at |-> At(key), previous |-> Get(before, key), new |-> Get(after, key)]
      <4>1. c \in changes
        BY <1>1, <1>5, <3>1
      <4> QED
        BY <1>8, <3>1, <4>1
    <3> QED
      BY <3>1
  <2> QED
    BY <1>2, <1>8, <2>1
<1> QED
  BY <1>6, <1>7, <1>8 DEF Tells, changes

\* A delta tells how two documents differ: each change has a path, at which the current
\* document says what is new there; elsewhere the documents say the same.
LEMMA DeltaTells ==
  ASSUME kind \in DeltaKinds, NEW previous, NEW current
  PROVE  LET changes == ComputeDeltaChanges(kind, previous, current) IN
         /\ \A c \in changes :
              c.at # <<>> /\ \A v : Says(current, c.at, v) <=> v # JsonNull /\ v = c.new
         /\ \A at : (\A c \in changes : c.at # at) =>
              \A v : Says(previous, at, v) <=> Says(current, at, v)
<1> DEFINE changes == ComputeDeltaChanges(kind, previous, current)
           fields == FieldChanges(kind, previous, current)
           items == ItemChanges(kind, previous, current)
           links == AssociationChanges(previous, current)
           labels == LabelsChanges(previous, current)
           values == ValuesChanges(previous, current)
<1>1. \A c : c \in changes <=>
        \/ c \in fields \/ c \in items
        \/ kind \in WithAssociations /\ c \in links
        \/ kind \in WithLabels /\ c \in labels
        \/ kind \in WithValues /\ c \in values
  BY DEF ComputeDeltaChanges
<1>2. /\ \A c \in fields : ScalarPath(c.at)
      /\ \A c \in items : ItemPath(c.at)
      /\ kind \in WithAssociations => \A c \in links : LinkPath(c.at)
      /\ kind \in WithLabels => \A c \in labels : LabelPath(c.at)
      /\ kind \in WithValues => \A c \in values : ValuePath(c.at)
  BY FieldsTell, ItemsTell, LinksTell, LabelsTell, ValuesTell DEF Tells
<1>3. /\ \A c \in fields : \A v : v # JsonNull => (SaysScalar(current, c.at, v) <=> v = c.new)
      /\ \A c \in items : \A v : v # JsonNull => (SaysItem(current, c.at, v) <=> v = c.new)
      /\ kind \in WithAssociations =>
           \A c \in links : \A v : v # JsonNull => (SaysLink(current, c.at, v) <=> v = c.new)
      /\ kind \in WithLabels =>
           \A c \in labels : \A v : v # JsonNull => (SaysLabel(current, c.at, v) <=> v = c.new)
      /\ kind \in WithValues =>
           \A c \in values : \A v : v # JsonNull => (SaysValue(current, c.at, v) <=> v = c.new)
  BY FieldsTell, ItemsTell, LinksTell, LabelsTell, ValuesTell DEF Tells
<1>4. /\ \A at : (\A c \in fields : c.at # at) =>
           \A v : v # JsonNull => (SaysScalar(previous, at, v) <=> SaysScalar(current, at, v))
      /\ \A at : (\A c \in items : c.at # at) =>
           \A v : v # JsonNull => (SaysItem(previous, at, v) <=> SaysItem(current, at, v))
      /\ kind \in WithAssociations => \A at : (\A c \in links : c.at # at) =>
           \A v : v # JsonNull => (SaysLink(previous, at, v) <=> SaysLink(current, at, v))
      /\ kind \in WithLabels => \A at : (\A c \in labels : c.at # at) =>
           \A v : v # JsonNull => (SaysLabel(previous, at, v) <=> SaysLabel(current, at, v))
      /\ kind \in WithValues => \A at : (\A c \in values : c.at # at) =>
           \A v : v # JsonNull => (SaysValue(previous, at, v) <=> SaysValue(current, at, v))
  BY FieldsTell, ItemsTell, LinksTell, LabelsTell, ValuesTell DEF Tells
<1>5. \A doc, at, v : /\ SaysLink(doc, at, v) => kind \in WithAssociations
                      /\ SaysLabel(doc, at, v) => kind \in WithLabels
                      /\ SaysValue(doc, at, v) => kind \in WithValues
  BY DEF SaysLink, SaysLabel, SaysValue
<1> HIDE DEF changes, fields, items, links, labels, values
<1>6. ASSUME NEW c \in changes
      PROVE  c.at # <<>> /\ \A v : Says(current, c.at, v) <=> v # JsonNull /\ v = c.new
  <2>1. CASE c \in fields
    BY <1>2, <1>3, <2>1, PathsDiffer, SaysAt DEF Says
  <2>2. CASE c \in items
    BY <1>2, <1>3, <2>2, PathsDiffer, SaysAt DEF Says
  <2>3. CASE kind \in WithAssociations /\ c \in links
    BY <1>2, <1>3, <2>3, PathsDiffer, SaysAt DEF Says
  <2>4. CASE kind \in WithLabels /\ c \in labels
    BY <1>2, <1>3, <2>4, PathsDiffer, SaysAt DEF Says
  <2>5. CASE kind \in WithValues /\ c \in values
    BY <1>2, <1>3, <2>5, PathsDiffer, SaysAt DEF Says
  <2> QED
    BY <1>1, <2>1, <2>2, <2>3, <2>4, <2>5
<1>7. ASSUME NEW at, \A c \in changes : c.at # at, NEW v
      PROVE  Says(previous, at, v) <=> Says(current, at, v)
  <2>1. /\ \A c \in fields : c.at # at
        /\ \A c \in items : c.at # at
        /\ kind \in WithAssociations => \A c \in links : c.at # at
        /\ kind \in WithLabels => \A c \in labels : c.at # at
        /\ kind \in WithValues => \A c \in values : c.at # at
    BY <1>1, <1>7
  <2> QED
    BY <1>4, <1>5, <2>1 DEF Says
<1> QED
  BY <1>6, <1>7 DEF changes

\* The cells that a view has at a path.
CellsAt(view, at) == {c \in view : c.at = at}

\* A document says nothing at the empty path.
LEMMA SaysSomewhere ==
  ASSUME kind \in DeltaKinds, NEW doc, NEW v
  PROVE  ~Says(doc, <<>>, v)
BY PathsDiffer, SaysAt DEF Says

\* Documents that say the same at a path have the same cells there.
LEMMA SameCells ==
  ASSUME NEW doc, NEW other, NEW at, \A v : Says(doc, at, v) <=> Says(other, at, v)
  PROVE  CellsAt(View(doc), at) = CellsAt(View(other), at)
<1>1. \A c : c \in View(doc) /\ c.at = at => c \in View(other)
  BY ViewIs
<1>2. \A c : c \in View(other) /\ c.at = at => c \in View(doc)
  BY ViewIs
<1> QED
  BY <1>1, <1>2 DEF CellsAt

\* Where a delta has a change, whoever applies it has what is there in the current document.
LEMMA ChangedCells ==
  ASSUME kind \in DeltaKinds, NEW view, NEW previous, NEW current,
         NEW c \in ComputeDeltaChanges(kind, previous, current)
  PROVE  /\ c.at # <<>>
         /\ CellsAt(Apply(view, ComputeDeltaChanges(kind, previous, current)), c.at)
              = CellsAt(View(current), c.at)
<1> DEFINE changes == ComputeDeltaChanges(kind, previous, current)
<1>1. c.at # <<>> /\ \A v : Says(current, c.at, v) <=> v # JsonNull /\ v = c.new
  BY DeltaTells
<1>2. \A d \in changes : \A v : Says(current, d.at, v) <=> v # JsonNull /\ v = d.new
  BY DeltaTells
<1> HIDE DEF changes
<1>3. \A d \in changes : d.at = c.at /\ d.new # JsonNull => d.new = c.new
  BY <1>1, <1>2
<1>4. CellsAt(Apply(view, changes), c.at)
        = {d \in {[at |-> c.at, is |-> c.new]} : c.new # JsonNull}
  BY <1>3 DEF CellsAt, Apply, changes
<1>5. CellsAt(View(current), c.at) = {d \in {[at |-> c.at, is |-> c.new]} : c.new # JsonNull}
  <2>1. \A d : d \in View(current) /\ d.at = c.at =>
               d = [at |-> c.at, is |-> c.new] /\ c.new # JsonNull
    BY <1>1, ViewIs DEF Exists
  <2>2. c.new # JsonNull => [at |-> c.at, is |-> c.new] \in View(current)
    BY <1>1, ViewIs
  <2> QED
    BY <2>1, <2>2 DEF CellsAt
<1> QED
  BY <1>1, <1>4, <1>5 DEF changes

\* Where it has none, nothing is changed, and there was nothing to change.
LEMMA UnchangedCells ==
  ASSUME kind \in DeltaKinds, NEW view, NEW previous, NEW current, NEW at,
         \A c \in ComputeDeltaChanges(kind, previous, current) : c.at # at
  PROVE  /\ CellsAt(Apply(view, ComputeDeltaChanges(kind, previous, current)), at) = CellsAt(view, at)
         /\ CellsAt(View(previous), at) = CellsAt(View(current), at)
<1> DEFINE changes == ComputeDeltaChanges(kind, previous, current)
<1>1. CellsAt(View(previous), at) = CellsAt(View(current), at)
  BY DeltaTells, SameCells
<1> HIDE DEF changes
<1>2. \A c \in changes : c.at # at
  BY DEF changes
<1>3. CellsAt(Apply(view, changes), at) = CellsAt(view, at)
  BY <1>2 DEF CellsAt, Apply
<1> QED
  BY <1>1, <1>3 DEF changes

----------------------------------------------------------------------------
(* What is stored, and what is seen of it.                                 *)

\* Leaving out what is null changes nothing of what a document says.
LEMMA StoredCells ==
  ASSUME NEW doc, NEW at
  PROVE  CellsAt(View(Stored(doc)), at) = CellsAt(View(doc), at)
<1>1. \A key : Get(Stored(doc), key) = Get(doc, key)
  BY DEF Get, Stored
<1>2. \A v : SaysScalar(Stored(doc), at, v) <=> SaysScalar(doc, at, v)
  BY <1>1 DEF SaysScalar
<1>3. \A v : SaysItem(Stored(doc), at, v) <=> SaysItem(doc, at, v)
  BY <1>1 DEF SaysItem
<1>4. /\ AssociationsOf(Stored(doc)) = AssociationsOf(doc)
      /\ \A type, target : Linked(Stored(doc), type, target) = Linked(doc, type, target)
      /\ LabelsOf(Stored(doc)) = LabelsOf(doc)
      /\ Indexed(Stored(doc)) = Indexed(doc)
  BY <1>1 DEF AssociationsOf, Linked, LabelsOf, Indexed, ValuesOf
<1>5. \A v : /\ SaysLink(Stored(doc), at, v) <=> SaysLink(doc, at, v)
             /\ SaysLabel(Stored(doc), at, v) <=> SaysLabel(doc, at, v)
             /\ SaysValue(Stored(doc), at, v) <=> SaysValue(doc, at, v)
  BY <1>4 DEF SaysLink, SaysLabel, SaysValue
<1>6. \A v : Says(Stored(doc), at, v) <=> Says(doc, at, v)
  BY <1>2, <1>3, <1>5 DEF Says
<1> QED
  BY <1>6, SameCells

\* A document says one thing at a path.
LEMMA SaysOneThing ==
  ASSUME kind \in DeltaKinds, NEW doc, NEW at, NEW v, NEW w, Says(doc, at, v), Says(doc, at, w)
  PROVE  v = w
<1>1. SaysScalar(doc, at, v) /\ SaysScalar(doc, at, w) => v = w
  BY DEF SaysScalar
<1>2. SaysItem(doc, at, v) /\ SaysItem(doc, at, w) => v = w
  BY DEF SaysItem
<1>3. SaysLink(doc, at, v) /\ SaysLink(doc, at, w) => v = w
  BY DEF SaysLink
<1>4. SaysLabel(doc, at, v) /\ SaysLabel(doc, at, w) => v = w
  BY DEF SaysLabel
<1>5. SaysValue(doc, at, v) /\ SaysValue(doc, at, w) => v = w
  BY IndexKeys DEF SaysValue
<1> QED
  BY <1>1, <1>2, <1>3, <1>4, <1>5, SaysAt, PathsDiffer DEF Says

\* Each path has one cell at most, and the entity is there if anything of it is.
Sound(view) ==
  /\ \A c, d \in view : c.at = d.at => c = d
  /\ view # {} => Exists \in view

\* So is what a GET shows.
LEMMA ViewSound ==
  ASSUME kind \in DeltaKinds, NEW doc
  PROVE  Sound(View(doc)) /\ Exists \in View(doc)
<1>1. Exists \in View(doc)
  BY ViewIs
<1>2. ASSUME NEW c \in View(doc), NEW d \in View(doc), c.at = d.at
      PROVE  c = d
  <2>1. c = Exists \/ \E at, v : c = [at |-> at, is |-> v] /\ Says(doc, at, v)
    BY ViewIs
  <2>2. d = Exists \/ \E at, v : d = [at |-> at, is |-> v] /\ Says(doc, at, v)
    BY ViewIs
  <2> QED
    BY <1>2, <2>1, <2>2, SaysOneThing, SaysSomewhere DEF Exists
<1> QED
  BY <1>1, <1>2 DEF Sound

\* It stays so when a delta is applied to it.
LEMMA ApplySound ==
  ASSUME kind \in DeltaKinds, NEW view, NEW previous, NEW current, Sound(view), Exists \in view
  PROVE  LET after == Apply(view, ComputeDeltaChanges(kind, previous, current)) IN
         Sound(after) /\ Exists \in after
<1> DEFINE changes == ComputeDeltaChanges(kind, previous, current)
<1>1. \A c \in changes :
        c.at # <<>> /\ \A v : Says(current, c.at, v) <=> v # JsonNull /\ v = c.new
  BY DeltaTells
<1> HIDE DEF changes
<1>2. \A c, d \in changes : c.at = d.at /\ c.new # JsonNull /\ d.new # JsonNull => c.new = d.new
  BY <1>1
<1>3. Exists \in Apply(view, changes)
  BY <1>1 DEF Apply, Exists
<1>4. \A c, d \in Apply(view, changes) : c.at = d.at => c = d
  BY <1>2 DEF Apply, Sound
<1> QED
  BY <1>3, <1>4 DEF Sound, changes

\* What there is to read is sound.
LEMMA ActualSound ==
  ASSUME kind \in DeltaKinds, \A doc, other \in stored : doc = other
  PROVE  /\ Sound(Actual)
         /\ Actual = {} <=> stored = {}
         /\ \A doc \in stored : Actual = View(doc)
<1>1. \A doc \in stored : Actual = View(doc)
  BY DEF Actual
<1>2. stored = {} => Actual = {}
  BY DEF Actual
<1> QED
  BY <1>1, <1>2, ViewSound DEF Sound

\* The kind of the entity stays, and with it what its documents say.
LEMMA SameView ==
  ASSUME kind' = kind
  PROVE  /\ \A doc : View(doc)' = View(doc)
         /\ \A e : Touched(e)' = Touched(e)
<1>1. \A doc : View(doc)' = View(doc)
  <2> SUFFICES ASSUME NEW doc PROVE View(doc)' = View(doc)
    OBVIOUS
  <2>1. ScalarCells(doc)' = ScalarCells(doc)
    BY DEF ScalarCells, Cell
  <2>2. ListCells(doc)' = ListCells(doc)
    BY DEF ListCells, Cell
  <2> QED
    BY <2>1, <2>2 DEF View
<1>2. \A e : Touched(e)' = Touched(e)
  BY DEF Touched, Changes
<1> QED
  BY <1>1, <1>2

----------------------------------------------------------------------------
(* The types.                                                              *)

\* ContentsTypeOK in three parts: the entity, the events, and what the subscribers have.
EntityOK ==
  /\ kind \in Kinds
  /\ \A doc, other \in stored : doc = other
  /\ \A doc \in stored : \A key \in DOMAIN doc : doc[key] # JsonNull
  /\ ValidFilter(filter)
EventsOK ==
  /\ changed \in 0..MaxChanges
  /\ \A e \in pending : e.nr \in 1..changed /\ e.action \in {"created", "updated", "deleted"}
  /\ \A d, e \in pending : d.nr = e.nr => d = e
ViewsOK == Sound(replica) /\ Sound(partial) /\ (replica = {} <=> partial = {})

\* The parts are the whole.
LEMMA TypeParts ==
  ASSUME TRUE
  PROVE  ContentsTypeOK <=> EntityOK /\ EventsOK /\ ViewsOK
BY DEF ContentsTypeOK, EntityOK, EventsOK, ViewsOK, Sound

\* Every kind has a table of its fields.
LEMMA KindKnown ==
  ASSUME EntityOK
  PROVE  kind \in DeltaKinds
BY ContentsAssumption DEF EntityOK

\* An announcement gives the event a number of its own, the largest so far.
LEMMA AnnounceEvents ==
  ASSUME EventsOK, NEW action \in {"created", "updated", "deleted"}, NEW previous, NEW current,
         Announce(action, previous, current)
  PROVE  EventsOK'
<1> DEFINE e == [nr |-> changed + 1, action |-> action, previous |-> previous, current |-> current]
<1>1. /\ changed \in Nat /\ MaxChanges \in Nat /\ changed < MaxChanges
      /\ changed' = changed + 1 /\ pending' = pending \cup {e}
      /\ e.nr = changed + 1 /\ e.action = action
  BY ContentsAssumption DEF EventsOK, Announce
<1> HIDE DEF e
<1>2. \A d \in pending : d.nr \in 1..changed /\ d.nr # e.nr /\ d.nr \in 1..changed'
  BY <1>1 DEF EventsOK
<1> QED
  BY <1>1, <1>2 DEF EventsOK

\* A subscriber that takes in an event keeps what it has sound.
LEMMA FollowSound ==
  ASSUME EntityOK, NEW view, Sound(view), NEW e
  PROVE  /\ Sound(Follow(view, e))
         /\ e.action \notin {"created", "deleted"} => (Follow(view, e) = {} <=> view = {})
         /\ e.action = "created" => Follow(view, e) = Actual
         /\ e.action = "deleted" => Follow(view, e) = {}
<1>1. kind \in DeltaKinds /\ Sound(Actual)
  BY KindKnown, ActualSound DEF EntityOK
<1>2. Exists \in view =>
        LET after == Apply(view, ComputeDeltaChanges(kind, e.previous, e.current)) IN
        Sound(after) /\ Exists \in after
  BY <1>1, ApplySound
<1> QED
  BY <1>1, <1>2 DEF Follow, Changes, Sound

\* Every step keeps the types.
LEMMA ContentsTypeStep ==
  ASSUME ContentsTypeOK, [ContentsNext]_contentsVars
  PROVE  ContentsTypeOK'
<1>1. EntityOK /\ EventsOK /\ ViewsOK
  BY TypeParts
<1>2. \A doc : \A key \in DOMAIN Stored(doc) : Stored(doc)[key] # JsonNull
  BY DEF Stored
<1>3. ASSUME NEW expression \in Filters, Subscribe(expression) PROVE EntityOK' /\ EventsOK' /\ ViewsOK'
  BY <1>1, <1>3 DEF Subscribe, EntityOK, EventsOK, ViewsOK, Sound
<1>4. ASSUME NEW doc, NEW action \in {"created", "updated", "deleted"}, NEW previous, NEW current,
             stored' = {Stored(doc)} \/ stored' = {}, Announce(action, previous, current)
      PROVE  EntityOK' /\ EventsOK' /\ ViewsOK'
  <2>1. EventsOK'
    BY <1>1, <1>4, AnnounceEvents
  <2>2. EntityOK'
    BY <1>1, <1>2, <1>4 DEF Announce, EntityOK
  <2>3. ViewsOK'
    BY <1>1, <1>4 DEF Announce, ViewsOK, Sound
  <2> QED
    BY <2>1, <2>2, <2>3
<1>5. ASSUME NEW doc, Create(doc) \/ PatchMissing(doc) \/ PatchItem(doc)
      PROVE  EntityOK' /\ EventsOK' /\ ViewsOK'
  BY <1>4, <1>5 DEF Create, PatchMissing, PatchItem
<1>6. ASSUME Delete PROVE EntityOK' /\ EventsOK' /\ ViewsOK'
  BY <1>4, <1>6 DEF Delete
<1>7. ASSUME NEW e \in pending, Deliver(e) PROVE EntityOK' /\ EventsOK' /\ ViewsOK'
  <2>1. EntityOK' /\ EventsOK'
    BY <1>1, <1>7 DEF Deliver, EntityOK, EventsOK
  <2>2. /\ replica' = Follow(replica, e)
        /\ partial' = Follow(partial, e) \/ (e.action = "updated" /\ partial' = partial)
    BY <1>7 DEF Deliver
  <2>3. e.action \in {"created", "updated", "deleted"}
    BY <1>1 DEF EventsOK
  <2>4. Sound(replica)' /\ Sound(partial)' /\ (replica' = {} <=> partial' = {})
    BY <1>1, <2>2, <2>3, FollowSound DEF ViewsOK, Sound
  <2> QED
    BY <2>1, <2>4 DEF ViewsOK
<1>8. ASSUME NEW e \in pending, Lose(e) PROVE EntityOK' /\ EventsOK' /\ ViewsOK'
  BY <1>1, <1>8 DEF Lose, EntityOK, EventsOK, ViewsOK, Sound
<1>9. ASSUME UNCHANGED contentsVars PROVE EntityOK' /\ EventsOK' /\ ViewsOK'
  BY <1>1, <1>9 DEF contentsVars, EntityOK, EventsOK, ViewsOK, Sound
<1>10. EntityOK' /\ EventsOK' /\ ViewsOK'
  BY <1>3, <1>5, <1>6, <1>7, <1>8, <1>9 DEF ContentsNext
<1> QED
  BY <1>10, TypeParts DEF ContentsTypeOK, EntityOK, EventsOK, ViewsOK, Sound

\* The entity, the events and what the subscribers have are always of their types: at
\* most one document, without nulls, a valid filter, events with numbers of their own, and
\* replicas with one cell at most for each path, of an entity that both have or neither.
THEOREM ContentsTypeCorrect == ContentsSpec => []ContentsTypeOK
<1>1. ContentsInit => ContentsTypeOK
  BY ContentsAssumption DEF ContentsInit, ContentsTypeOK, ValidFilter
<1>2. ContentsTypeOK /\ [ContentsNext]_contentsVars => ContentsTypeOK'
  BY ContentsTypeStep
<1> QED
  BY <1>1, <1>2, PTL DEF ContentsSpec

----------------------------------------------------------------------------
(* The replica.                                                            *)

Doubted(at) == {at, <<>>} \cap doubtful # {}
Concerns(e, at) == {at, <<>>} \cap Touched(e) # {}
IsLast(e, at) == Concerns(e, at) /\ \A d \in pending : Concerns(d, at) => d.nr <= e.nr

\* A path that no event is about any more shows what is stored.
Arrived(at) ==
  (\A e \in pending : ~Concerns(e, at)) => CellsAt(replica, at) = CellsAt(Actual, at)
\* The last event about a path says what is stored.
LastTells(at) ==
  \A e \in pending : IsLast(e, at) =>
    /\ e.action = "updated" => CellsAt(View(e.current), at) = CellsAt(Actual, at)
    /\ e.action = "deleted" => stored = {}
Follows == \A at : ~Doubted(at) => Arrived(at) /\ LastTells(at)

\* What two sets of paths are both about is in doubt when what they have in common is.
LEMMA OverlapDoubts ==
  ASSUME NEW p, NEW q, NEW at, {at, <<>>} \cap p # {}, {at, <<>>} \cap q # {}
  PROVE  {at, <<>>} \cap Overlap(p, q) # {}
BY DEF Overlap

\* An update is about the paths of its changes, the other events about all.
LEMMA UpdateConcerns ==
  ASSUME kind \in DeltaKinds, NEW e
  PROVE  /\ e.action # "updated" => \A at : Concerns(e, at)
         /\ e.action = "updated" =>
              /\ ~Concerns(e, <<>>)
              /\ \A at : Concerns(e, at) <=> \E c \in Changes(e) : c.at = at
<1>1. \A c \in Changes(e) : c.at # <<>>
  BY DeltaTells DEF Changes
<1> QED
  BY <1>1 DEF Concerns, Touched

\* What an update makes of a view at a path.
LEMMA ApplyAt ==
  ASSUME kind \in DeltaKinds, NEW e, e.action = "updated", NEW view, NEW at
  PROVE  /\ Concerns(e, at) => CellsAt(Apply(view, Changes(e)), at) = CellsAt(View(e.current), at)
         /\ ~Concerns(e, at) =>
              /\ CellsAt(Apply(view, Changes(e)), at) = CellsAt(view, at)
              /\ CellsAt(View(e.previous), at) = CellsAt(View(e.current), at)
<1>1. Concerns(e, at) <=> \E c \in Changes(e) : c.at = at
  BY UpdateConcerns
<1>2. ASSUME Concerns(e, at)
      PROVE  CellsAt(Apply(view, Changes(e)), at) = CellsAt(View(e.current), at)
  <2>1. PICK c \in ComputeDeltaChanges(kind, e.previous, e.current) : c.at = at
    BY <1>1, <1>2 DEF Changes
  <2> QED
    BY <2>1, ChangedCells DEF Changes
<1>3. ASSUME ~Concerns(e, at)
      PROVE  /\ CellsAt(Apply(view, Changes(e)), at) = CellsAt(view, at)
             /\ CellsAt(View(e.previous), at) = CellsAt(View(e.current), at)
  <2>1. \A c \in ComputeDeltaChanges(kind, e.previous, e.current) : c.at # at
    BY <1>1, <1>3 DEF Changes
  <2> QED
    BY <2>1, UnchangedCells DEF Changes
<1> QED
  BY <1>2, <1>3

\* What events are about does not change.
LEMMA SameConcerns ==
  ASSUME kind' = kind
  PROVE  \A e, at : Concerns(e, at)' <=> Concerns(e, at)
BY SameView DEF Concerns

\* A step of a handler changes nothing at the paths that its event is not about.
LEMMA AnnounceElsewhere ==
  ASSUME EntityOK, NEW new, kind' = kind, NEW at, ~Concerns(new, at),
         new.action = "updated" => stored = {new.previous} /\ stored' = {Stored(new.current)}
  PROVE  stored # {} /\ new.action = "updated" /\ CellsAt(Actual', at) = CellsAt(Actual, at)
<1>1. kind \in DeltaKinds
  BY KindKnown
<1>2. new.action = "updated" /\ CellsAt(View(new.previous), at) = CellsAt(View(new.current), at)
  BY <1>1, UpdateConcerns, ApplyAt
<1>3. \A doc : View(doc)' = View(doc)
  BY SameView
<1>4. Actual = View(new.previous) /\ Actual' = View(Stored(new.current))
  BY <1>2, <1>3 DEF Actual
<1> QED
  BY <1>2, <1>4, StoredCells

\* A step of a handler: the new event is the last one about its paths.
LEMMA AnnounceFollows ==
  ASSUME EntityOK, EventsOK, Follows,
         NEW action \in {"created", "updated", "deleted"}, NEW previous, NEW current,
         Announce(action, previous, current),
         action = "updated" => stored = {previous} /\ stored' = {Stored(current)},
         action = "deleted" => stored' = {}
  PROVE  Follows'
<1> DEFINE new == [nr |-> changed + 1, action |-> action, previous |-> previous, current |-> current]
<1>1. /\ pending' = pending \cup {new} /\ kind' = kind /\ replica' = replica /\ doubtful' = doubtful
      /\ \A d \in pending : d.nr \in Nat /\ new.nr \in Nat /\ d.nr < new.nr
      /\ new.action = action /\ new.previous = previous /\ new.current = current
  BY DEF Announce, EventsOK
<1> HIDE DEF new
<1>2. kind \in DeltaKinds
  BY KindKnown
<1>3. /\ \A e, at : Concerns(e, at)' <=> Concerns(e, at)
      /\ \A doc : View(doc)' = View(doc)
  BY <1>1, SameConcerns, SameView
<1> SUFFICES ASSUME NEW at, ~Doubted(at)'
             PROVE  Arrived(at)' /\ LastTells(at)'
  BY DEF Follows
<1>4. Arrived(at) /\ LastTells(at)
  BY <1>1 DEF Follows, Doubted
<1>5. CASE Concerns(new, at)
  <2>1. Arrived(at)'
    BY <1>1, <1>3, <1>5 DEF Arrived
  <2>2. \A e \in pending' : IsLast(e, at)' => e = new
    BY <1>1, <1>3, <1>5 DEF IsLast
  <2>3. action = "updated" => CellsAt(View(current)', at) = CellsAt(Actual', at)
    BY <1>3, StoredCells DEF Actual
  <2>4. LastTells(at)'
    BY <1>1, <1>3, <2>2, <2>3 DEF LastTells, CellsAt
  <2> QED
    BY <2>1, <2>4
<1>6. CASE ~Concerns(new, at)
  <2>3. stored # {} /\ CellsAt(Actual', at) = CellsAt(Actual, at)
    BY <1>1, <1>6, AnnounceElsewhere
  <2>4. Arrived(at)'
    BY <1>1, <1>3, <1>4, <2>3 DEF Arrived, CellsAt
  <2>5. \A e \in pending' : IsLast(e, at)' => e \in pending /\ IsLast(e, at)
    BY <1>1, <1>3, <1>6 DEF IsLast
  <2>7. \A e \in pending' : IsLast(e, at)' =>
          (e.action = "updated" => CellsAt(View(e.current), at) = CellsAt(Actual, at)) /\ e.action # "deleted"
    BY <1>4, <2>3, <2>5 DEF LastTells
  <2>8. LastTells(at)'
    BY <1>3, <2>3, <2>7 DEF LastTells, CellsAt
  <2> QED
    BY <2>4, <2>8
<1> QED
  BY <1>5, <1>6

\* A delivery: an event that a later one has overtaken puts in doubt what they are both
\* about, and only a creation settles doubts, where no other event is on its way.
LEMMA DeliverDoubts ==
  ASSUME EventsOK, NEW e \in pending, Deliver(e), NEW at, ~Doubted(at)'
  PROVE  /\ \A d \in pending \ {e} : Concerns(e, at) /\ Concerns(d, at) => e.nr < d.nr
         /\ (\A d \in pending \ {e} : ~Concerns(d, at)) \/ ~Doubted(at)
         /\ e.action # "created" => ~Doubted(at)
<1> DEFINE rest == pending \ {e}
<1>1. e.nr \in Nat /\ \A d \in rest : d.nr \in Nat /\ d.nr # e.nr
  BY DEF EventsOK
<1> HIDE DEF rest
<1>2. ASSUME NEW d \in rest, Concerns(e, at), Concerns(d, at)
      PROVE  e.nr < d.nr
  <2>1. SUFFICES ASSUME d.nr < e.nr PROVE FALSE
    BY <1>1, <1>2
  <2>2. Overlap(Touched(e), Touched(d)) \subseteq doubtful'
    BY <1>2, <2>1 DEF Deliver, rest
  <2>3. {at, <<>>} \cap Overlap(Touched(e), Touched(d)) # {}
    BY <1>2, OverlapDoubts DEF Concerns
  <2> QED
    BY <2>2, <2>3 DEF Doubted
<1>3. (\A d \in rest : ~Concerns(d, at)) \/ ~Doubted(at)
  <2>1. CASE e.action # "created"
    <3>1. doubtful \subseteq doubtful'
      BY <2>1 DEF Deliver
    <3> QED
      BY <3>1 DEF Doubted
  <2>2. CASE e.action = "created"
    <3> DEFINE late == UNION {Touched(d) : d \in rest}
    <3>1. Overlap(doubtful, late) \subseteq doubtful'
      BY <2>2 DEF Deliver, rest
    <3>2. SUFFICES ASSUME NEW d \in rest, Concerns(d, at), Doubted(at) PROVE FALSE
      OBVIOUS
    <3>3. {at, <<>>} \cap late # {}
      BY <3>2 DEF Concerns
    <3> HIDE DEF late
    <3>4. {at, <<>>} \cap Overlap(doubtful, late) # {}
      BY <3>2, <3>3, OverlapDoubts DEF Doubted
    <3> QED
      BY <3>1, <3>4 DEF Doubted
  <2> QED
    BY <2>1, <2>2
<1>4. e.action # "created" => ~Doubted(at)
  BY DEF Deliver, Doubted
<1> QED
  BY <1>2, <1>3, <1>4 DEF rest

\* The last event about a path brings whoever takes it in, and has not missed the entity,
\* what is stored there.
LEMMA FollowArrives ==
  ASSUME EntityOK, EventsOK, Follows, NEW e \in pending, Deliver(e), NEW at, ~Doubted(at)',
         \A d \in pending \ {e} : ~Concerns(d, at),
         NEW view, Sound(view), view = {} <=> replica = {}, Sound(replica),
         ~Concerns(e, at) => CellsAt(view, at) = CellsAt(Actual, at)
  PROVE  CellsAt(Follow(view, e), at) = CellsAt(Actual, at)
<1>1. kind \in DeltaKinds /\ e.nr \in Nat /\ e.action \in {"created", "updated", "deleted"}
  BY KindKnown DEF EventsOK
<1>2. Concerns(e, at) => IsLast(e, at)
  BY <1>1 DEF IsLast
<1>3. CASE e.action = "created"
  BY <1>3 DEF Follow
<1>4. CASE e.action = "deleted"
  <2>1. Follow(view, e) = {}
    BY <1>4 DEF Follow
  <2>2. stored = {}
    BY <1>1, <1>2, <1>4, DeliverDoubts, UpdateConcerns DEF Follows, LastTells
  <2> QED
    BY <2>1, <2>2 DEF Actual, CellsAt
<1>5. CASE e.action = "updated"
  <2>1. ~Doubted(at) /\ ~Doubted(<<>>)
    BY <1>5, DeliverDoubts DEF Doubted
  <2>2. LastTells(at) /\ Arrived(<<>>)
    BY <2>1 DEF Follows
  <2>3. Follow(view, e) = IF Exists \in view THEN Apply(view, Changes(e)) ELSE view
    BY <1>5 DEF Follow
  <2>4. CASE ~Concerns(e, at)
    BY <1>1, <1>5, <2>3, <2>4, ApplyAt
  <2>5. CASE Concerns(e, at)
    <3>1. CellsAt(View(e.current), at) = CellsAt(Actual, at)
      BY <1>2, <1>5, <2>2, <2>5 DEF LastTells
    <3>2. \A d \in pending \ {e} : ~Concerns(d, <<>>)
      BY DEF Concerns
    <3>3. ~Concerns(e, <<>>)
      BY <1>1, <1>5, UpdateConcerns
    <3>4. CellsAt(replica, <<>>) = CellsAt(Actual, <<>>)
      BY <2>2, <3>2, <3>3 DEF Arrived
    <3>5. Exists \in replica <=> Exists \in Actual
      BY <3>4 DEF CellsAt, Exists
    <3>6. Exists \in view <=> Exists \in replica
      BY DEF Sound
    <3>7. CASE Exists \in view
      BY <1>1, <1>5, <2>3, <2>5, <3>1, <3>7, ApplyAt
    <3>8. CASE Exists \notin view
      <4>1. Sound(Actual)
        BY <1>1, ActualSound DEF EntityOK
      <4> QED
        BY <2>3, <3>5, <3>6, <3>8, <4>1 DEF Sound
    <3> QED
      BY <3>7, <3>8
  <2> QED
    BY <2>4, <2>5
<1> QED
  BY <1>1, <1>3, <1>4, <1>5

\* A step of a subscriber.
LEMMA DeliverFollows ==
  ASSUME EntityOK, EventsOK, ViewsOK, Follows, NEW e \in pending, Deliver(e)
  PROVE  Follows'
<1> DEFINE rest == pending \ {e}
<1>1. pending' = rest /\ kind' = kind /\ stored' = stored /\ replica' = Follow(replica, e)
  BY DEF Deliver
<1>2. /\ \A d, at : Concerns(d, at)' <=> Concerns(d, at)
      /\ Actual' = Actual
      /\ \A doc : View(doc)' = View(doc)
  BY <1>1, SameConcerns, SameView DEF Actual
<1> SUFFICES ASSUME NEW at, ~Doubted(at)'
             PROVE  Arrived(at)' /\ LastTells(at)'
  BY DEF Follows
<1>3. /\ \A d \in rest : Concerns(e, at) /\ Concerns(d, at) => e.nr < d.nr
      /\ (\A d \in rest : ~Concerns(d, at)) \/ ~Doubted(at)
      /\ e.action # "created" => ~Doubted(at)
  BY DeliverDoubts
<1>4. e.nr \in Nat /\ \A d \in rest : d.nr \in Nat
  BY DEF EventsOK
<1> HIDE DEF rest
<1>5. LastTells(at)'
  <2>1. SUFFICES ASSUME NEW d \in rest, IsLast(d, at)'
                 PROVE  /\ d.action = "updated" => CellsAt(View(d.current), at) = CellsAt(Actual, at)
                        /\ d.action = "deleted" => stored = {}
    BY <1>1, <1>2 DEF LastTells, CellsAt
  <2>2. Concerns(d, at) /\ \A other \in rest : Concerns(other, at) => other.nr <= d.nr
    BY <1>1, <1>2, <2>1 DEF IsLast
  <2>3. Concerns(e, at) => e.nr <= d.nr
    BY <1>3, <1>4, <2>2
  <2>4. d \in pending /\ IsLast(d, at)
    BY <2>2, <2>3 DEF IsLast, rest
  <2>5. LastTells(at)
    BY <1>3, <2>2 DEF Follows
  <2> QED
    BY <2>4, <2>5 DEF LastTells
<1>6. Arrived(at)'
  <2>1. SUFFICES ASSUME \A d \in rest : ~Concerns(d, at)
                 PROVE  CellsAt(replica', at) = CellsAt(Actual, at)
    BY <1>1, <1>2 DEF Arrived, CellsAt
  <2>2. CASE Doubted(at)
    <3>1. replica' = Actual
      BY <1>1, <1>3, <2>2 DEF Follow
    <3> QED
      BY <3>1
  <2>3. CASE ~Doubted(at)
    <3>1. ~Concerns(e, at) => CellsAt(replica, at) = CellsAt(Actual, at)
      BY <2>1, <2>3 DEF Follows, Arrived, rest
    <3> QED
      BY <1>1, <2>1, <3>1, FollowArrives DEF ViewsOK, rest
  <2> QED
    BY <2>2, <2>3
<1> QED
  BY <1>5, <1>6

\* An event that is lost puts in doubt all that it is about.
LEMMA LoseFollows ==
  ASSUME Follows, NEW e \in pending, Lose(e)
  PROVE  Follows'
<1>1. /\ pending' = pending \ {e} /\ kind' = kind /\ stored' = stored /\ replica' = replica
      /\ doubtful' = doubtful \cup Touched(e)
  BY DEF Lose
<1>2. /\ \A d, at : Concerns(d, at)' <=> Concerns(d, at)
      /\ Actual' = Actual
      /\ \A doc : View(doc)' = View(doc)
  BY <1>1, SameConcerns, SameView DEF Actual
<1> SUFFICES ASSUME NEW at, ~Doubted(at)'
             PROVE  Arrived(at)' /\ LastTells(at)'
  BY DEF Follows
<1>3. ~Doubted(at) /\ ~Concerns(e, at)
  BY <1>1 DEF Doubted, Concerns
<1>4. Arrived(at) /\ LastTells(at)
  BY <1>3 DEF Follows
<1>5. Arrived(at)'
  BY <1>1, <1>2, <1>3, <1>4 DEF Arrived, CellsAt
<1>6. \A d \in pending' : IsLast(d, at)' => d \in pending /\ IsLast(d, at)
  BY <1>1, <1>2, <1>3 DEF IsLast
<1>7. LastTells(at)'
  BY <1>1, <1>2, <1>4, <1>6 DEF LastTells, CellsAt
<1> QED
  BY <1>5, <1>7

\* Every step keeps the replica where it has no reason to differ.
LEMMA FollowsStep ==
  ASSUME ContentsTypeOK, Follows, [ContentsNext]_contentsVars
  PROVE  Follows'
<1>1. EntityOK /\ EventsOK /\ ViewsOK
  BY TypeParts
<1>2. ASSUME UNCHANGED <<kind, stored, pending, replica, doubtful>> PROVE Follows'
  <2>1. /\ \A e, at : Concerns(e, at)' <=> Concerns(e, at)
        /\ Actual' = Actual
        /\ \A doc : View(doc)' = View(doc)
    BY <1>2, SameConcerns, SameView DEF Actual
  <2>2. \A at : (Doubted(at)' <=> Doubted(at)) /\ (Arrived(at)' <=> Arrived(at))
    BY <1>2, <2>1 DEF Doubted, Arrived, CellsAt
  <2>3. \A at : LastTells(at)' <=> LastTells(at)
    BY <1>2, <2>1 DEF LastTells, IsLast, CellsAt
  <2> QED
    BY <2>2, <2>3 DEF Follows
<1>3. ASSUME NEW expression \in Filters, Subscribe(expression) PROVE Follows'
  BY <1>2, <1>3 DEF Subscribe
<1>4. ASSUME NEW doc, Create(doc) PROVE Follows'
  BY <1>1, <1>4, AnnounceFollows DEF Create
<1>5. ASSUME NEW doc, PatchMissing(doc) PROVE Follows'
  BY <1>1, <1>5, AnnounceFollows DEF PatchMissing
<1>6. ASSUME NEW doc, PatchItem(doc) PROVE Follows'
  <2>1. PICK existing \in stored :
          /\ stored' = {Stored(ApplyPatch(existing, doc))}
          /\ Announce("updated", existing, ApplyPatch(existing, doc))
    BY <1>6 DEF PatchItem
  <2>2. stored = {existing}
    BY <1>1 DEF EntityOK
  <2> QED
    BY <1>1, <2>1, <2>2, AnnounceFollows
<1>7. ASSUME Delete PROVE Follows'
  BY <1>1, <1>7, AnnounceFollows DEF Delete
<1>8. ASSUME NEW e \in pending, Deliver(e) \/ Lose(e) PROVE Follows'
  BY <1>1, <1>8, DeliverFollows, LoseFollows
<1>9. ASSUME UNCHANGED contentsVars PROVE Follows'
  BY <1>2, <1>9 DEF contentsVars
<1> QED
  BY <1>3, <1>4, <1>5, <1>6, <1>7, <1>8, <1>9 DEF ContentsNext

\* A subscriber that does what the delta events say has the entity, but for what an event
\* on its way is about, or one that was overtaken or lost: of any kind, whatever the
\* bodies of the requests and however many changes there are.
THEOREM ReplicasFollow == ContentsSpec => []ReplicaFollows
<1>1. ContentsInit => ContentsTypeOK /\ Follows
  BY ContentsAssumption
     DEF ContentsInit, ContentsTypeOK, ValidFilter, Follows, Arrived, LastTells, Actual, CellsAt
<1>2. ContentsTypeOK /\ Follows /\ [ContentsNext]_contentsVars => (ContentsTypeOK /\ Follows)'
  BY ContentsTypeStep, FollowsStep
<1>3. Follows => ReplicaFollows
  <2> SUFFICES ASSUME Follows PROVE ReplicaFollows
    OBVIOUS
  <2>1. \A at : Settled(at) => ~Doubted(at) /\ \A e \in pending : ~Concerns(e, at)
    BY DEF Settled, Unsettled, Doubted, Concerns
  <2>2. \A at : Settled(at) => CellsAt(replica, at) = CellsAt(Actual, at)
    BY <2>1 DEF Follows, Arrived
  <2>3. ASSUME NEW c, Settled(c.at) PROVE c \in replica <=> c \in Actual
    BY <2>2, <2>3 DEF CellsAt
  <2> QED
    BY <2>3 DEF ReplicaFollows, SettledCells
<1> QED
  BY <1>1, <1>2, <1>3, PTL DEF ContentsSpec

----------------------------------------------------------------------------
(* The second subscriber, and its filter.                                  *)

\* The filter is one of those asked for, and is there before the entity changes.
FilterOK ==
  /\ filter = <<>> \/ filter \in Filters
  /\ changed = 0 => stored = {} /\ partial = {}

Positive == filter # <<>> /\ ~Contains(filter, <<"not">>)

\* A path the filter asks for, that no event is about any more, shows what is stored.
PartialArrived(at) ==
  (\A e \in pending : ~Concerns(e, at)) => CellsAt(partial, at) = CellsAt(Actual, at)

FilteredArrived == Positive => \A at : Wanted(at) /\ ~Doubted(at) => PartialArrived(at)

\* Filters are made of tokens.
LEMMA FilterTokens ==
  ASSUME FilterOK, filter # <<>>
  PROVE  Expression(filter)
BY ContentsAssumption DEF FilterOK

\* A filter without "not" lets an update through that is about a path it asks for.
LEMMA WantedAllowed ==
  ASSUME kind \in DeltaKinds, FilterOK, Positive, NEW e, e.action = "updated",
         NEW at, Wanted(at), Concerns(e, at)
  PROVE  FilterAllows(filter, FilterFacts("updated.delta", Changes(e)))
<1> DEFINE facts == FilterFacts("updated.delta", Changes(e))
           alone == [attribute |-> {at[2]}, locale |-> {at[3]}, scope |-> {at[4]}]
<1>1. Expression(filter) /\ Len(filter) \in Nat
  BY FilterTokens DEF Positive, Expression
<1>2. PICK c \in Changes(e) : c.at = at
  BY UpdateConcerns
<1>3. facts = [user |-> {User},
               attribute |-> {x.at[2] : x \in {x \in Changes(e) : x.at[1] = "values"}},
               locale |-> {x.at[3] : x \in {x \in Changes(e) : x.at[1] = "values"}},
               scope |-> {x.at[4] : x \in {x \in Changes(e) : x.at[1] = "values"}}]
  BY DEF FilterFacts
<1>4. c \in {x \in Changes(e) : x.at[1] = "values"}
  BY <1>2 DEF Wanted
<1>5. at[2] \in facts.attribute /\ at[3] \in facts.locale /\ at[4] \in facts.scope
  BY <1>2, <1>3, <1>4
<1>6. DOMAIN facts = {"user", "attribute", "locale", "scope"}
  BY <1>3
<1> HIDE DEF facts
<1>7. Among(alone, facts)
  BY <1>5, <1>6 DEF Among
<1>8. TRUE \in Parse(filter, alone)
  BY <1>1, ParseMeans DEF Wanted
<1>9. \A i \in 1..Len(filter) : filter[i] # <<"not">>
  BY DEF Positive, Contains
<1> HIDE DEF alone
<1>10. TRUE \in Parse(filter, facts)
  BY <1>1, <1>7, <1>8, <1>9, TruthGrows
<1> QED
  BY <1>10 DEF FilterAllows, facts

\* A step of a handler.
LEMMA AnnounceFilters ==
  ASSUME EntityOK, EventsOK, FilterOK, FilteredArrived,
         NEW action \in {"created", "updated", "deleted"}, NEW previous, NEW current,
         Announce(action, previous, current),
         action = "updated" => stored = {previous} /\ stored' = {Stored(current)}
  PROVE  FilterOK' /\ FilteredArrived'
<1> DEFINE new == [nr |-> changed + 1, action |-> action, previous |-> previous, current |-> current]
<1>1. /\ pending' = pending \cup {new} /\ kind' = kind /\ partial' = partial /\ doubtful' = doubtful
      /\ filter' = filter /\ changed' = changed + 1 /\ changed \in Nat
      /\ new.action = action /\ new.previous = previous /\ new.current = current
  BY DEF Announce, EventsOK
<1> HIDE DEF new
<1>2. \A e, at : Concerns(e, at)' <=> Concerns(e, at)
  BY <1>1, SameConcerns
<1>3. FilterOK'
  BY <1>1 DEF FilterOK
<1>4. ASSUME Positive, NEW at, Wanted(at), ~Doubted(at), \A e \in pending' : ~Concerns(e, at)
      PROVE  CellsAt(partial, at) = CellsAt(Actual', at)
  <2>1. CellsAt(partial, at) = CellsAt(Actual, at)
    BY <1>1, <1>4 DEF FilteredArrived, PartialArrived
  <2>2. CellsAt(Actual', at) = CellsAt(Actual, at)
    BY <1>1, <1>4, AnnounceElsewhere
  <2> QED
    BY <2>1, <2>2
<1>5. (Positive' <=> Positive) /\ \A at : (Wanted(at)' <=> Wanted(at)) /\ (Doubted(at)' <=> Doubted(at))
  BY <1>1 DEF Positive, Wanted, Doubted
<1>6. FilteredArrived'
  BY <1>1, <1>2, <1>4, <1>5 DEF FilteredArrived, PartialArrived, CellsAt
<1> QED
  BY <1>3, <1>6

\* A step of the subscribers.
LEMMA DeliverFilters ==
  ASSUME EntityOK, EventsOK, ViewsOK, Follows, FilterOK, FilteredArrived,
         NEW e \in pending, Deliver(e)
  PROVE  FilterOK' /\ FilteredArrived'
<1> DEFINE rest == pending \ {e}
           allowed == FilterAllows(filter, FilterFacts("updated.delta", Changes(e)))
<1>1. /\ pending' = rest /\ kind' = kind /\ stored' = stored /\ filter' = filter /\ changed' = changed
      /\ IF e.action = "updated" /\ ~allowed THEN partial' = partial ELSE partial' = Follow(partial, e)
  BY DEF Deliver
<1>2. (\A d, at : Concerns(d, at)' <=> Concerns(d, at)) /\ Actual' = Actual
  BY <1>1, SameConcerns, SameView DEF Actual
<1>3. kind \in DeltaKinds /\ changed # 0
  BY KindKnown DEF EventsOK
<1> HIDE DEF allowed
<1>4. FilterOK'
  BY <1>1, <1>3 DEF FilterOK
<1>5. (Positive' <=> Positive) /\ \A at : Wanted(at)' <=> Wanted(at)
  BY <1>1 DEF Positive, Wanted
<1>6. ASSUME Positive, NEW at, Wanted(at), ~Doubted(at)', \A d \in rest : ~Concerns(d, at)
      PROVE  CellsAt(partial', at) = CellsAt(Actual, at)
  <2>1. e.action # "created" => ~Doubted(at)
    BY <1>6, DeliverDoubts
  <2>2. ~Doubted(at) /\ ~Concerns(e, at) => CellsAt(partial, at) = CellsAt(Actual, at)
    BY <1>6 DEF FilteredArrived, PartialArrived
  <2>3. CASE e.action = "created"
    BY <1>1, <2>3 DEF Follow
  <2>4. CASE e.action = "updated" /\ ~allowed
    <3>1. ~Concerns(e, at)
      BY <1>3, <1>6, <2>4, WantedAllowed DEF allowed
    <3> QED
      BY <1>1, <2>1, <2>2, <2>4, <3>1
  <2>5. CASE e.action # "created" /\ ~(e.action = "updated" /\ ~allowed)
    <3>1. CellsAt(Follow(partial, e), at) = CellsAt(Actual, at)
      BY <1>6, <2>1, <2>2, <2>5, FollowArrives DEF ViewsOK
    <3> QED
      BY <1>1, <2>5, <3>1
  <2> QED
    BY <2>3, <2>4, <2>5
<1>7. FilteredArrived'
  BY <1>1, <1>2, <1>5, <1>6 DEF FilteredArrived, PartialArrived, CellsAt
<1> QED
  BY <1>4, <1>7

\* Every step keeps what the filter asks for.
LEMMA FilteredStep ==
  ASSUME ContentsTypeOK, Follows, FilterOK, FilteredArrived, [ContentsNext]_contentsVars
  PROVE  FilterOK' /\ FilteredArrived'
<1>1. EntityOK /\ EventsOK /\ ViewsOK
  BY TypeParts
<1>2. ASSUME NEW expression \in Filters, Subscribe(expression) PROVE FilterOK' /\ FilteredArrived'
  <2>1. filter' = expression /\ changed = 0 /\ stored' = stored /\ partial' = partial /\ changed' = changed
    BY <1>2 DEF Subscribe
  <2>2. partial' = {} /\ stored' = {}
    BY <2>1 DEF FilterOK
  <2>3. Actual' = {}
    BY <2>2 DEF Actual
  <2> QED
    BY <1>2, <2>1, <2>2, <2>3 DEF FilterOK, FilteredArrived, PartialArrived, CellsAt
<1>3. ASSUME NEW doc, Create(doc) \/ PatchMissing(doc) PROVE FilterOK' /\ FilteredArrived'
  BY <1>1, <1>3, AnnounceFilters DEF Create, PatchMissing
<1>4. ASSUME NEW doc, PatchItem(doc) PROVE FilterOK' /\ FilteredArrived'
  <2>1. PICK existing \in stored :
          /\ stored' = {Stored(ApplyPatch(existing, doc))}
          /\ Announce("updated", existing, ApplyPatch(existing, doc))
    BY <1>4 DEF PatchItem
  <2>2. stored = {existing}
    BY <1>1 DEF EntityOK
  <2> QED
    BY <1>1, <2>1, <2>2, AnnounceFilters
<1>5. ASSUME Delete PROVE FilterOK' /\ FilteredArrived'
  BY <1>1, <1>5, AnnounceFilters DEF Delete
<1>6. ASSUME NEW e \in pending, Deliver(e) PROVE FilterOK' /\ FilteredArrived'
  BY <1>1, <1>6, DeliverFilters
<1>7. ASSUME UNCHANGED <<kind, stored, filter, changed, partial>>,
             \/ pending' = pending /\ doubtful' = doubtful
             \/ \E e \in pending : pending' = pending \ {e} /\ doubtful' = doubtful \cup Touched(e)
      PROVE  FilterOK' /\ FilteredArrived'
  <2>1. (\A d, at : Concerns(d, at)' <=> Concerns(d, at)) /\ Actual' = Actual
    BY <1>7, SameConcerns, SameView DEF Actual
  <2>2. (Positive' <=> Positive) /\ \A at : Wanted(at)' <=> Wanted(at)
    BY <1>7 DEF Positive, Wanted
  <2>3. \A at : ~Doubted(at)' /\ (\A e \in pending' : ~Concerns(e, at)) =>
                ~Doubted(at) /\ \A e \in pending : ~Concerns(e, at)
    BY <1>7 DEF Doubted, Concerns
  <2>4. FilterOK'
    BY <1>7 DEF FilterOK
  <2>5. FilteredArrived'
    BY <1>7, <2>1, <2>2, <2>3 DEF FilteredArrived, PartialArrived, CellsAt
  <2> QED
    BY <2>4, <2>5
<1>8. ASSUME NEW e \in pending, Lose(e) PROVE FilterOK' /\ FilteredArrived'
  BY <1>7, <1>8 DEF Lose
<1>9. ASSUME UNCHANGED contentsVars PROVE FilterOK' /\ FilteredArrived'
  BY <1>7, <1>9 DEF contentsVars
<1> QED
  BY <1>2, <1>3, <1>4, <1>5, <1>6, <1>8, <1>9 DEF ContentsNext

\* A subscriber with a filter without "not" has every value that the filter asks for, but
\* where the first subscriber may lack it too: whatever the filter and the changes.
THEOREM FilteredFollow == ContentsSpec => []FilteredFollows
<1> DEFINE Inv == ContentsTypeOK /\ Follows /\ FilterOK /\ FilteredArrived
<1>1. ContentsInit => Inv
  BY ContentsAssumption
     DEF ContentsInit, ContentsTypeOK, ValidFilter, Follows, Arrived, LastTells, Actual, CellsAt,
         FilterOK, FilteredArrived, Positive
<1>2. Inv /\ [ContentsNext]_contentsVars => Inv'
  BY ContentsTypeStep, FollowsStep, FilteredStep
<1>3. Inv => FilteredFollows
  <2> SUFFICES ASSUME FilteredArrived, Positive PROVE WantedCells(partial) = WantedCells(Actual)
    BY DEF FilteredFollows, Positive
  <2>1. \A at : Settled(at) => ~Doubted(at) /\ \A e \in pending : ~Concerns(e, at)
    BY DEF Settled, Unsettled, Doubted, Concerns
  <2>2. \A at : Settled(at) /\ Wanted(at) => CellsAt(partial, at) = CellsAt(Actual, at)
    BY <2>1 DEF FilteredArrived, PartialArrived
  <2>3. ASSUME NEW c, Settled(c.at), Wanted(c.at) PROVE c \in partial <=> c \in Actual
    BY <2>2, <2>3 DEF CellsAt
  <2> QED
    BY <2>3 DEF WantedCells, SettledCells
<1> QED
  BY <1>1, <1>2, <1>3, PTL DEF ContentsSpec

\* The parser of filters accepts what the grammar accepts and finds what it means, for
\* all expressions and all facts; and a filter that was accepted never fails on an event.
THEOREM FiltersMean == ContentsSpec => []FilterMeans
<1> DEFINE Inv == ContentsTypeOK /\ Follows /\ FilterOK /\ FilteredArrived
<1>1. ContentsInit => Inv
  BY ContentsAssumption
     DEF ContentsInit, ContentsTypeOK, ValidFilter, Follows, Arrived, LastTells, Actual, CellsAt,
         FilterOK, FilteredArrived, Positive
<1>2. Inv /\ [ContentsNext]_contentsVars => Inv'
  BY ContentsTypeStep, FollowsStep, FilteredStep
<1>3. Inv => FilterMeans
  <2> SUFFICES ASSUME ContentsTypeOK, FilterOK PROVE FilterMeans
    OBVIOUS
  <2>1. CASE filter = <<>>
    <3>1. \A e \in Expressions : Parse(e, NoFacts) = Readings(e, NoFacts)
      BY ContentsAssumption, ParseMeans
    <3> QED
      BY <2>1, <3>1 DEF FilterMeans
  <2>2. CASE filter # <<>>
    <3>1. Expression(filter) /\ Len(filter) \in Nat
      BY <2>2, FilterTokens DEF Expression
    <3>2. Parse(filter, NoFacts) # {}
      BY <2>2 DEF ContentsTypeOK, ValidFilter
    <3>3. Cardinality(Parse(filter, NoFacts)) = 1
      <4>1. PICK v : Parse(filter, NoFacts) = {v}
        BY <3>1, <3>2, SameAccepted
      <4> QED
        BY <4>1, FS_Singleton
    <3>4. \A facts : Parse(filter, facts) = Readings(filter, facts) /\ Parse(filter, facts) # {}
      BY <3>1, <3>2, ParseMeans, SameAccepted
    <3> QED
      BY <2>2, <3>3, <3>4 DEF FilterMeans
  <2> QED
    BY <2>1, <2>2
<1> QED
  BY <1>1, <1>2, <1>3, PTL DEF ContentsSpec

----------------------------------------------------------------------------
(* What PATCH makes of a document.                                         *)

\* One step of a path.
Onward(v, key) == Get(DictOf(v), key)

\* f has what the path reaches after n of its keys.
Leads(f, doc, path, m) ==
  f[0] = [dict |-> doc] /\ \A n \in 1..m : f[n] = Onward(f[n - 1], path[n])

\* What a path reaches is defined, from key to key.
LEMMA ReachedIs ==
  ASSUME NEW doc, NEW path, Len(path) \in Nat
  PROVE  \E f : Leads(f, doc, path, Len(path)) /\ Reached(doc, path) = f[Len(path)]
<1> DEFINE P == {m \in Nat : \E f : Leads(f, doc, path, m)}
           Body(f, n) == IF n = 0 THEN [dict |-> doc] ELSE Get(DictOf(f[n - 1]), path[n])
           Whole(f) == f = [n \in 0..Len(path) |-> Body(f, n)]
<1>1. 0 \in P
  <2>1. Leads([n \in {0} |-> [dict |-> doc]], doc, path, 0)
    BY DEF Leads
  <2> QED
    BY <2>1
<1>2. ASSUME NEW m \in Nat, m \in P PROVE m + 1 \in P
  <2>1. PICK f : Leads(f, doc, path, m)
    BY <1>2
  <2> DEFINE g == [n \in 0..m + 1 |-> IF n = m + 1 THEN Onward(f[m], path[m + 1]) ELSE f[n]]
  <2>2. \A n \in 0..m : g[n] = f[n]
    OBVIOUS
  <2>3. g[m + 1] = Onward(f[m], path[m + 1])
    OBVIOUS
  <2> HIDE DEF g
  <2>4. ASSUME NEW n \in 1..m + 1 PROVE g[n] = Onward(g[n - 1], path[n])
    <3>1. CASE n = m + 1
      BY <2>2, <2>3, <3>1
    <3>2. CASE n # m + 1
      <4>1. n \in 1..m /\ n - 1 \in 0..m /\ n \in 0..m
        BY <3>2
      <4> QED
        BY <2>1, <2>2, <4>1 DEF Leads
    <3> QED
      BY <3>1, <3>2
  <2>5. Leads(g, doc, path, m + 1)
    BY <2>1, <2>2, <2>4 DEF Leads
  <2> QED
    BY <2>5
<1>3. Len(path) \in P
  BY <1>1, <1>2, AllNumbers
<1>4. PICK f : Leads(f, doc, path, Len(path))
  BY <1>3
<1> DEFINE h == [n \in 0..Len(path) |-> f[n]]
<1>5. Whole(h)
  <2>1. ASSUME NEW n \in 0..Len(path) PROVE h[n] = Body(h, n)
    <3>1. CASE n = 0
      BY <1>4, <3>1 DEF Leads
    <3>2. CASE n # 0
      <4>1. n \in 1..Len(path) /\ n - 1 \in 0..Len(path)
        BY <3>2
      <4> QED
        BY <1>4, <4>1, <3>2 DEF Leads, Onward
    <3> QED
      BY <3>1, <3>2
  <2> QED
    BY <2>1
<1> DEFINE r == CHOOSE g : Whole(g)
<1>6. Whole(r)
  <2> HIDE DEF Whole, h
  <2> QED
    BY <1>5
<1>7. Reached(doc, path) = r[Len(path)]
  BY DEF Reached
<1> HIDE DEF r
<1>8. Leads(r, doc, path, Len(path))
  <2>1. r[0] = [dict |-> doc]
    BY <1>6
  <2>2. ASSUME NEW n \in 1..Len(path) PROVE r[n] = Onward(r[n - 1], path[n])
    <3>1. n \in 0..Len(path) /\ n # 0
      OBVIOUS
    <3> QED
      BY <1>6, <3>1 DEF Onward
  <2> QED
    BY <2>1, <2>2 DEF Leads
<1> QED
  BY <1>7, <1>8

\* Paths that begin alike lead to the same.
LEMMA ReachedAlike ==
  ASSUME NEW doc, NEW m \in Nat, NEW f, NEW path, Leads(f, doc, path, m),
         NEW g, NEW other, Leads(g, doc, other, m), \A n \in 1..m : path[n] = other[n]
  PROVE  f[m] = g[m]
<1> DEFINE P == {n \in Nat : n <= m => f[n] = g[n]}
<1>1. 0 \in P
  BY DEF Leads
<1>2. ASSUME NEW n \in Nat, n \in P PROVE n + 1 \in P
  <2>1. CASE n + 1 <= m
    <3>1. n + 1 \in 1..m /\ (n + 1) - 1 = n /\ f[n] = g[n]
      BY <1>2, <2>1
    <3>2. f[n + 1] = Onward(f[n], path[n + 1]) /\ g[n + 1] = Onward(g[n], other[n + 1])
      BY <3>1 DEF Leads
    <3> QED
      BY <3>1, <3>2
  <2> QED
    BY <2>1
<1> HIDE DEF P
<1>3. m \in P
  BY <1>1, <1>2, AllNumbers
<1> QED
  BY <1>3 DEF P

\* The path without keys leads to the document.
LEMMA ReachedStart ==
  ASSUME NEW doc
  PROVE  Reached(doc, <<>>) = [dict |-> doc]
<1>1. Len(<<>>) = 0
  OBVIOUS
<1>2. PICK f : Leads(f, doc, <<>>, Len(<<>>)) /\ Reached(doc, <<>>) = f[Len(<<>>)]
  BY <1>1, ReachedIs
<1> QED
  BY <1>1, <1>2 DEF Leads

\* A further key leads on from where the path leads.
LEMMA ReachedNext ==
  ASSUME NEW doc, NEW S, NEW path \in Seq(S), NEW key \in S
  PROVE  Reached(doc, Append(path, key)) = Get(DictOf(Reached(doc, path)), key)
<1> DEFINE long == Append(path, key)
           m == Len(path)
<1>1. /\ m \in Nat /\ Len(long) = m + 1 /\ long[m + 1] = key
      /\ \A n \in 1..m : long[n] = path[n]
  BY AppendProperties, LenProperties
<1> HIDE DEF long, m
<1>2. PICK f : Leads(f, doc, long, m + 1) /\ Reached(doc, long) = f[m + 1]
  BY <1>1, ReachedIs
<1>3. PICK g : Leads(g, doc, path, m) /\ Reached(doc, path) = g[m]
  BY <1>1, ReachedIs DEF m
<1>4. Leads(f, doc, long, m)
  BY <1>1, <1>2 DEF Leads
<1>5. f[m] = g[m]
  BY <1>1, <1>3, <1>4, ReachedAlike
<1>6. f[m + 1] = Onward(f[m], long[m + 1])
  BY <1>1, <1>2 DEF Leads
<1> QED
  BY <1>1, <1>2, <1>3, <1>5, <1>6 DEF Onward, long

\* The paths with one more key.
Longer(doc, paths) ==
  UNION {{Append(path, key) : key \in DOMAIN DictOf(Reached(doc, path))} : path \in paths}

\* The paths of a document are defined, from length to length.
LEMMA PathsOfAre ==
  ASSUME NEW doc
  PROVE  /\ PathsOf(doc)[0] = {<<>>}
         /\ \A n \in 1..MaxDepth : PathsOf(doc)[n] = Longer(doc, PathsOf(doc)[n - 1])
<1> DEFINE Body(f, n) ==
             IF n = 0 THEN {<<>>}
             ELSE UNION {{Append(path, key) : key \in DOMAIN DictOf(Reached(doc, path))} :
                         path \in f[n - 1]}
           Whole(f) == f = [n \in 0..MaxDepth |-> Body(f, n)]
           Good(f, m) == f[0] = {<<>>} /\ \A n \in 1..m : f[n] = Longer(doc, f[n - 1])
           P == {m \in Nat : \E f : Good(f, m)}
<1>1. \A f, n : n # 0 => Body(f, n) = Longer(doc, f[n - 1])
  BY DEF Longer
<1>2. \A f : Body(f, 0) = {<<>>}
  OBVIOUS
<1>3. MaxDepth \in Nat
  BY ContentsAssumption
<1>4. 0 \in P
  <2>1. Good([n \in {0} |-> {<<>>}], 0)
    OBVIOUS
  <2> HIDE DEF Good
  <2> QED
    BY <2>1
<1>5. ASSUME NEW m \in Nat, m \in P PROVE m + 1 \in P
  <2>1. PICK f : Good(f, m)
    BY <1>5
  <2> DEFINE g == [n \in 0..m + 1 |-> IF n = m + 1 THEN Longer(doc, f[m]) ELSE f[n]]
  <2>2. \A n \in 0..m : g[n] = f[n]
    OBVIOUS
  <2>3. g[m + 1] = Longer(doc, f[m])
    OBVIOUS
  <2> HIDE DEF g
  <2>4. ASSUME NEW n \in 1..m + 1 PROVE g[n] = Longer(doc, g[n - 1])
    <3>1. CASE n = m + 1
      BY <2>2, <2>3, <3>1
    <3>2. CASE n # m + 1
      <4>1. n \in 1..m /\ n - 1 \in 0..m /\ n \in 0..m
        BY <3>2
      <4> QED
        BY <2>1, <2>2, <4>1
    <3> QED
      BY <3>1, <3>2
  <2>5. Good(g, m + 1)
    BY <2>1, <2>2, <2>4
  <2> HIDE DEF Good
  <2> QED
    BY <2>5
<1>6. MaxDepth \in P
  <2> HIDE DEF P
  <2> QED
    BY <1>3, <1>4, <1>5, AllNumbers
<1>7. PICK f : Good(f, MaxDepth)
  BY <1>6
<1> DEFINE h == [n \in 0..MaxDepth |-> f[n]]
<1>8. Whole(h)
  <2>1. \A n \in 0..MaxDepth : h[n] = f[n]
    OBVIOUS
  <2>2. ASSUME NEW n \in 0..MaxDepth PROVE h[n] = Body(h, n)
    <3>1. CASE n = 0
      BY <1>2, <1>7, <2>1, <3>1
    <3>2. CASE n # 0
      <4>1. n \in 1..MaxDepth /\ n - 1 \in 0..MaxDepth
        BY <1>3, <3>2
      <4> HIDE DEF Body, h
      <4> QED
        BY <1>1, <1>7, <2>1, <4>1
    <3> QED
      BY <3>1, <3>2
  <2>3. h = [n \in 0..MaxDepth |-> h[n]]
    OBVIOUS
  <2> HIDE DEF Body, h
  <2> QED
    BY <2>2, <2>3
<1> DEFINE r == CHOOSE g : Whole(g)
<1>9. Whole(r)
  <2> HIDE DEF Whole, h
  <2> QED
    BY <1>8
<1>10. PathsOf(doc) = r
  BY DEF PathsOf
<1> HIDE DEF r, Body
<1>11. \A n \in 0..MaxDepth : r[n] = Body(r, n)
  BY <1>9
<1>12. r[0] = {<<>>}
  BY <1>2, <1>3, <1>11
<1>13. \A n \in 1..MaxDepth : r[n] = Longer(doc, r[n - 1])
  BY <1>1, <1>3, <1>11
<1> QED
  BY <1>10, <1>12, <1>13

\* The paths with n keys have n keys, and a path has another key where it leads to an
\* object with this key.
LEMMA PathLengths ==
  ASSUME NEW doc, IsDocument(doc)
  PROVE  \A n \in 0..MaxDepth : \A path \in PathsOf(doc)[n] : path \in Seq(Names) /\ Len(path) = n
<1> DEFINE P == {n \in Nat : n <= MaxDepth => \A path \in PathsOf(doc)[n] : Len(path) = n}
<1>1. MaxDepth \in Nat
  BY ContentsAssumption
<1>2. \A n \in 0..MaxDepth : \A path \in PathsOf(doc)[n] : path \in Seq(Names)
  BY DEF IsDocument, Paths
<1>3. 0 \in P
  BY PathsOfAre
<1>4. ASSUME NEW n \in Nat, n \in P PROVE n + 1 \in P
  <2> SUFFICES ASSUME n + 1 <= MaxDepth, NEW path \in PathsOf(doc)[n + 1] PROVE Len(path) = n + 1
    OBVIOUS
  <2>1. n + 1 \in 1..MaxDepth /\ n \in 0..MaxDepth /\ n <= MaxDepth /\ (n + 1) - 1 = n
    BY <1>1
  <2>2. path \in Longer(doc, PathsOf(doc)[n])
    BY <2>1, PathsOfAre
  <2>3. PICK p \in PathsOf(doc)[n] : \E key \in DOMAIN DictOf(Reached(doc, p)) : path = Append(p, key)
    BY <2>2 DEF Longer
  <2>4. PICK key : path = Append(p, key)
    BY <2>3
  <2>5. p \in Seq(Names) /\ Len(p) = n
    BY <1>2, <1>4, <2>1
  <2>6. Len(Append(p, key)) = Len(p) + 1
    BY <2>5
  <2> QED
    BY <2>4, <2>5, <2>6
<1> HIDE DEF P
<1>5. ASSUME NEW n \in 0..MaxDepth, NEW path \in PathsOf(doc)[n] PROVE path \in Seq(Names) /\ Len(path) = n
  <2>1. n \in P /\ n <= MaxDepth
    BY <1>3, <1>4, AllNumbers
  <2> QED
    BY <1>2, <2>1 DEF P
<1> QED
  BY <1>5

\* All paths of a document are built of its keys, from the path without any.
LEMMA PathsAre ==
  ASSUME NEW doc, IsDocument(doc)
  PROVE  /\ <<>> \in Paths(doc) /\ Paths(doc) \subseteq Seq(Names)
         /\ \A path \in Paths(doc) : \A key \in DOMAIN DictOf(Reached(doc, path)) :
              key \in Names /\ Append(path, key) \in Paths(doc)
         /\ \A path \in Paths(doc) : path # <<>> =>
              \E p \in Paths(doc) : \E key \in DOMAIN DictOf(Reached(doc, p)) : path = Append(p, key)
<1>1. MaxDepth \in Nat
  BY ContentsAssumption
<1>2. <<>> \in Paths(doc) /\ Paths(doc) \subseteq Seq(Names)
  BY <1>1, PathsOfAre DEF IsDocument, Paths
<1>3. ASSUME NEW path \in Paths(doc), NEW key \in DOMAIN DictOf(Reached(doc, path))
      PROVE  key \in Names /\ Append(path, key) \in Paths(doc)
  <2>1. PICK n \in 0..MaxDepth : path \in PathsOf(doc)[n]
    BY DEF Paths
  <2>2. path \in Seq(Names) /\ Len(path) = n
    BY <2>1, PathLengths
  <2>3. IsDict(Reached(doc, path))
    BY <1>3 DEF DictOf
  <2>4. n < MaxDepth
    BY <2>2, <2>3 DEF IsDocument
  <2>5. n + 1 \in 1..MaxDepth /\ n + 1 \in 0..MaxDepth /\ (n + 1) - 1 = n
    BY <1>1, <2>4
  <2>6. Append(path, key) \in Longer(doc, PathsOf(doc)[n])
    BY <1>3, <2>1 DEF Longer
  <2>7. Append(path, key) \in PathsOf(doc)[n + 1]
    BY <2>5, <2>6, PathsOfAre
  <2>8. Append(path, key) \in Paths(doc)
    BY <2>5, <2>7 DEF Paths
  <2>9. Append(path, key) \in Seq(Names)
    BY <1>2, <2>8
  <2>10. Append(path, key)[Len(path) + 1] = key /\ Len(Append(path, key)) = Len(path) + 1
    BY <2>2
  <2>11. key \in Names
    <3>1. Len(path) + 1 \in 1..Len(Append(path, key))
      BY <2>2, <2>10
    <3> QED
      BY <2>9, <2>10, <3>1, ElementOfSeq
  <2> QED
    BY <2>8, <2>11
<1>4. ASSUME NEW path \in Paths(doc), path # <<>>
      PROVE  \E p \in Paths(doc) : \E key \in DOMAIN DictOf(Reached(doc, p)) : path = Append(p, key)
  <2>1. PICK n \in 0..MaxDepth : path \in PathsOf(doc)[n]
    BY DEF Paths
  <2>2. n # 0
    BY <1>4, <2>1, PathsOfAre
  <2>3. n \in 1..MaxDepth /\ n - 1 \in 0..MaxDepth
    BY <1>1, <2>2
  <2>4. path \in Longer(doc, PathsOf(doc)[n - 1])
    BY <2>1, <2>3, PathsOfAre
  <2>5. PICK p \in PathsOf(doc)[n - 1] : \E key \in DOMAIN DictOf(Reached(doc, p)) : path = Append(p, key)
    BY <2>4 DEF Longer
  <2>6. p \in Paths(doc)
    BY <2>3 DEF Paths
  <2> QED
    BY <2>5, <2>6
<1> QED
  BY <1>2, <1>3, <1>4

\* What holds of the path without keys, and of a path with one more key if of that path,
\* holds of all paths of a document.
LEMMA PathInduction ==
  ASSUME NEW doc, NEW P, <<>> \in P,
         \A path \in Paths(doc) \cap P : \A key \in DOMAIN DictOf(Reached(doc, path)) :
           Append(path, key) \in P
  PROVE  Paths(doc) \subseteq P
<1> DEFINE Q == {n \in Nat : n <= MaxDepth => PathsOf(doc)[n] \subseteq P}
<1>1. MaxDepth \in Nat
  BY ContentsAssumption
<1>2. 0 \in Q
  BY PathsOfAre
<1>3. ASSUME NEW n \in Nat, n \in Q PROVE n + 1 \in Q
  <2> SUFFICES ASSUME n + 1 <= MaxDepth, NEW path \in PathsOf(doc)[n + 1] PROVE path \in P
    OBVIOUS
  <2>1. n + 1 \in 1..MaxDepth /\ n \in 0..MaxDepth /\ n <= MaxDepth /\ (n + 1) - 1 = n
    BY <1>1
  <2>2. path \in Longer(doc, PathsOf(doc)[n])
    BY <2>1, PathsOfAre
  <2>3. PICK p \in PathsOf(doc)[n] : \E key \in DOMAIN DictOf(Reached(doc, p)) : path = Append(p, key)
    BY <2>2 DEF Longer
  <2>4. p \in Paths(doc) /\ p \in P
    BY <1>3, <2>1 DEF Paths
  <2> QED
    BY <2>3, <2>4
<1> HIDE DEF Q
<1>4. ASSUME NEW n \in 0..MaxDepth PROVE PathsOf(doc)[n] \subseteq P
  <2>1. n \in Q /\ n <= MaxDepth
    BY <1>2, <1>3, AllNumbers
  <2> QED
    BY <2>1 DEF Q
<1> QED
  BY <1>4 DEF Paths

\* The same for all lists of strings.
LEMMA KeysInduction ==
  ASSUME NEW P, <<>> \in P,
         \A path \in Seq(Names) \cap P : \A key \in Names : Append(path, key) \in P
  PROVE  Seq(Names) \subseteq P
<1> DEFINE Q == {n \in Nat : \A path \in Seq(Names) : Len(path) = n => path \in P}
<1>1. 0 \in Q
  <2>1. \A path \in Seq(Names) : Len(path) = 0 => path = <<>>
    BY EmptySeq
  <2> QED
    BY <2>1
<1>2. ASSUME NEW n \in Nat, n \in Q PROVE n + 1 \in Q
  <2> SUFFICES ASSUME NEW path \in Seq(Names), Len(path) = n + 1 PROVE path \in P
    OBVIOUS
  <2>1. path # <<>>
    BY EmptySeq
  <2>2. PICK p \in Seq(Names), key \in Names : path = Append(p, key)
    BY <2>1, SequenceEmptyOrAppend
  <2>3. Len(p) \in Nat /\ Len(path) = Len(p) + 1
    BY <2>2, AppendProperties, LenProperties
  <2>4. p \in P
    BY <1>2, <2>3
  <2> QED
    BY <2>2, <2>4
<1> HIDE DEF Q
<1>3. ASSUME NEW path \in Seq(Names) PROVE path \in P
  <2>1. Len(path) \in Nat
    BY LenProperties
  <2>2. Len(path) \in Q
    BY <1>1, <1>2, <2>1, AllNumbers
  <2> QED
    BY <2>2 DEF Q
<1> QED
  BY <1>3

\* Only what is at a path of a document is not null, and has objects or lists.
LEMMA OnlyPaths ==
  ASSUME NEW doc, IsDocument(doc)
  PROVE  \A path \in Seq(Names) : path \notin Paths(doc) => Reached(doc, path) = JsonNull
<1> DEFINE P == {path \in Seq(Names) : path \notin Paths(doc) => Reached(doc, path) = JsonNull}
<1>1. <<>> \in P
  BY PathsAre
<1>2. ASSUME NEW path \in Seq(Names), path \in P, NEW key \in Names PROVE Append(path, key) \in P
  <2>1. Append(path, key) \in Seq(Names)
    BY AppendProperties
  <2>2. Reached(doc, Append(path, key)) = Get(DictOf(Reached(doc, path)), key)
    BY ReachedNext
  <2>3. CASE key \in DOMAIN DictOf(Reached(doc, path))
    <3>1. IsDict(Reached(doc, path))
      BY <2>3 DEF DictOf
    <3>2. path \in Paths(doc)
      BY <1>2, <3>1 DEF IsDict, JsonNull
    <3> QED
      BY <2>1, <2>3, <3>2, PathsAre
  <2>4. CASE key \notin DOMAIN DictOf(Reached(doc, path))
    BY <2>1, <2>2, <2>4 DEF Get
  <2> QED
    BY <2>3, <2>4
<1> HIDE DEF P
<1>3. Seq(Names) \subseteq P
  BY <1>1, <1>2, KeysInduction
<1> QED
  BY <1>3 DEF P

\* Lists that are alike with an element appended were so before.
LEMMA AppendedAlike ==
  ASSUME NEW S, NEW s \in Seq(S), NEW t \in Seq(S), NEW x \in S, NEW y \in S
  PROVE  Append(s, x) = Append(t, y) => s = t /\ x = y
BY AppendInjective

\* A path has another key just where it leads to an object with this key.
LEMMA PathNext ==
  ASSUME NEW doc, IsDocument(doc), NEW path \in Seq(Names), NEW key \in Names
  PROVE  /\ Append(path, key) \in Paths(doc) <=>
              path \in Paths(doc) /\ key \in DOMAIN DictOf(Reached(doc, path))
         /\ Append(path, key) \in Paths(doc) <=> key \in DOMAIN DictOf(Reached(doc, path))
         /\ Append(path, key) \in Paths(doc) => IsDict(Reached(doc, path))
         /\ Append(path, key) # <<>>
<1>1. key \in DOMAIN DictOf(Reached(doc, path)) => IsDict(Reached(doc, path))
  BY DEF DictOf
<1>2. IsDict(Reached(doc, path)) => path \in Paths(doc)
  BY OnlyPaths DEF IsDict, JsonNull
<1>3. Append(path, key) # <<>>
  BY AppendProperties
<1>4. ASSUME Append(path, key) \in Paths(doc)
      PROVE  path \in Paths(doc) /\ key \in DOMAIN DictOf(Reached(doc, path))
  <2>1. PICK p \in Paths(doc) : \E k \in DOMAIN DictOf(Reached(doc, p)) : Append(path, key) = Append(p, k)
    BY <1>3, <1>4, PathsAre
  <2>2. PICK k \in DOMAIN DictOf(Reached(doc, p)) : Append(path, key) = Append(p, k)
    BY <2>1
  <2>3. p \in Seq(Names) /\ k \in Names /\ path \in Seq(Names) /\ key \in Names
    BY <2>2, PathsAre
  <2>4. path = p /\ key = k
    BY <2>2, <2>3, AppendedAlike
  <2> QED
    BY <2>2, <2>4
<1> QED
  BY <1>1, <1>2, <1>3, <1>4, PathsAre

\* What becomes of an object depends on what becomes of the objects in it that the patch
\* has.
LEMMA PatchedAlike ==
  ASSUME NEW doc, NEW patch, IsDocument(patch), NEW path \in Seq(Names), NEW f, NEW g,
         \A key \in Names : IsDict(Reached(patch, Append(path, key))) =>
           f[Append(path, key)] = g[Append(path, key)]
  PROVE  PatchedAt(doc, patch, f, path) = PatchedAt(doc, patch, g, path)
<1> DEFINE before == DictOf(Reached(doc, path))
           below == DictOf(Reached(patch, path))
           Is(h, key) ==
             LET old == Get(before, key)
                 new == Get(below, key) IN
             IF key \notin DOMAIN below THEN old
             ELSE IF ~(IsDict(old) /\ IsDict(new)) THEN new
             ELSE [dict |-> IF key = "values" THEN MergeValues(old.dict, new.dict)
                                              ELSE h[Append(path, key)]]
<1>1. \A h : PatchedAt(doc, patch, h, path) = [key \in DOMAIN before \cup DOMAIN below |-> Is(h, key)]
  BY DEF PatchedAt
<1>2. ASSUME NEW key PROVE Is(f, key) = Is(g, key)
  <2>1. CASE key \in DOMAIN below /\ IsDict(Get(below, key))
    <3>1. path \in Paths(patch)
      <4>1. IsDict(Reached(patch, path))
        BY <2>1 DEF DictOf
      <4> QED
        BY <4>1, OnlyPaths DEF IsDict, JsonNull
    <3>2. key \in Names
      BY <2>1, <3>1, PathsAre
    <3>3. Reached(patch, Append(path, key)) = Get(below, key)
      BY <3>2, ReachedNext
    <3> HIDE DEF below, before
    <3>4. f[Append(path, key)] = g[Append(path, key)]
      BY <2>1, <3>2, <3>3
    <3> QED
      BY <3>4
  <2>2. CASE ~(key \in DOMAIN below /\ IsDict(Get(below, key)))
    <3> HIDE DEF below, before
    <3> QED
      BY <2>2
  <2> QED
    BY <2>1, <2>2
<1> HIDE DEF before, below, Is
<1> QED
  BY <1>1, <1>2

\* What becomes of the objects of a document is defined: those that are deepest in the
\* patch have no more of its objects in them.
LEMMA PatchedIs ==
  ASSUME NEW doc, NEW patch, IsDocument(patch)
  PROVE  \E patched :
           /\ \A path \in Seq(Names) : patched[path] = PatchedAt(doc, patch, patched, path)
           /\ ApplyPatch(doc, patch) = patched[<<>>]
<1> DEFINE Body(f, path) == PatchedAt(doc, patch, f, path)
           Whole(f) == f = [path \in Seq(Names) |-> Body(f, path)]
           Good(f, m) == \A path \in Seq(Names) : Len(path) + m >= MaxDepth => f[path] = Body(f, path)
           P == {m \in Nat : \E f : Good(f, m)}
<1>1. MaxDepth \in Nat /\ \A path \in Seq(Names) : Len(path) \in Nat
  BY ContentsAssumption, LenProperties
<1>2. \A path \in Seq(Names) : \A key \in Names :
        Append(path, key) \in Seq(Names) /\ Len(Append(path, key)) = Len(path) + 1
  BY AppendProperties
<1>3. \A path \in Seq(Names) : IsDict(Reached(patch, path)) => Len(path) < MaxDepth
  <2>1. ASSUME NEW path \in Seq(Names), IsDict(Reached(patch, path)) PROVE Len(path) < MaxDepth
    <3>1. path \in Paths(patch)
      BY <2>1, OnlyPaths DEF IsDict, JsonNull
    <3> QED
      BY <2>1, <3>1 DEF IsDocument
  <2> QED
    BY <2>1
<1>4. 0 \in P
  <2> DEFINE g == [path \in Seq(Names) |-> Body(<<>>, path)]
  <2>1. ASSUME NEW path \in Seq(Names), Len(path) + 0 >= MaxDepth PROVE g[path] = Body(g, path)
    <3>1. ASSUME NEW key \in Names PROVE ~IsDict(Reached(patch, Append(path, key)))
      <4>1. /\ Append(path, key) \in Seq(Names) /\ Len(Append(path, key)) = Len(path) + 1
            /\ Len(path) \in Nat
        BY <1>1, <1>2, <2>1
      <4>2. ~(Len(Append(path, key)) < MaxDepth)
        BY <1>1, <2>1, <4>1
      <4> QED
        BY <1>3, <4>1, <4>2
    <3>2. PatchedAt(doc, patch, <<>>, path) = PatchedAt(doc, patch, g, path)
      <4> HIDE DEF g
      <4> QED
        BY <3>1, PatchedAlike
    <3> QED
      BY <3>2
  <2>2. Good(g, 0)
    <3> HIDE DEF g, Body
    <3> QED
      BY <2>1
  <2> HIDE DEF Good, g
  <2> QED
    BY <2>2
<1>5. ASSUME NEW m \in Nat, m \in P PROVE m + 1 \in P
  <2>1. PICK f : Good(f, m)
    BY <1>5
  <2> DEFINE g == [path \in Seq(Names) |-> Body(f, path)]
  <2>2. \A path \in Seq(Names) : g[path] = Body(f, path)
    OBVIOUS
  <2> HIDE DEF g
  <2>3. \A path \in Seq(Names) : Len(path) + m >= MaxDepth => g[path] = f[path]
    <3> HIDE DEF Body
    <3> QED
      BY <2>1, <2>2
  <2>4. ASSUME NEW path \in Seq(Names), Len(path) + (m + 1) >= MaxDepth PROVE g[path] = Body(g, path)
    <3>1. \A key \in Names : f[Append(path, key)] = g[Append(path, key)]
      <4>1. ASSUME NEW key \in Names PROVE f[Append(path, key)] = g[Append(path, key)]
        <5>1. Append(path, key) \in Seq(Names) /\ Len(Append(path, key)) + m >= MaxDepth
          BY <1>1, <1>2, <2>4
        <5> QED
          BY <2>3, <5>1
      <4> QED
        BY <4>1
    <3>2. PatchedAt(doc, patch, f, path) = PatchedAt(doc, patch, g, path)
      BY <3>1, PatchedAlike
    <3> QED
      BY <2>2, <3>2
  <2>5. Good(g, m + 1)
    <3> HIDE DEF Body
    <3> QED
      BY <2>4
  <2> HIDE DEF Good
  <2> QED
    BY <2>5
<1>6. MaxDepth \in P
  <2> HIDE DEF P
  <2> QED
    BY <1>1, <1>4, <1>5, AllNumbers
<1>7. PICK f : Good(f, MaxDepth)
  BY <1>6
<1> DEFINE h == [path \in Seq(Names) |-> f[path]]
<1>8. Whole(h)
  <2>1. \A path \in Seq(Names) : h[path] = f[path]
    OBVIOUS
  <2>2. h = [path \in Seq(Names) |-> h[path]]
    OBVIOUS
  <2> HIDE DEF h
  <2>3. ASSUME NEW path \in Seq(Names) PROVE h[path] = Body(h, path)
    <3>1. f[path] = Body(f, path)
      <4> HIDE DEF Body
      <4> QED
        BY <1>1, <1>7
    <3>2. \A key \in Names : f[Append(path, key)] = h[Append(path, key)]
      BY <1>2, <2>1
    <3>3. PatchedAt(doc, patch, f, path) = PatchedAt(doc, patch, h, path)
      BY <3>2, PatchedAlike
    <3> QED
      BY <2>1, <3>1, <3>3
  <2> HIDE DEF Body
  <2> QED
    BY <2>2, <2>3
<1> DEFINE r == CHOOSE g : Whole(g)
<1>9. Whole(r)
  <2> HIDE DEF Whole, h
  <2> QED
    BY <1>8
<1>10. ApplyPatch(doc, patch) = r[<<>>]
  BY DEF ApplyPatch
<1> HIDE DEF r
<1>11. \A path \in Seq(Names) : r[path] = Body(r, path)
  <2> HIDE DEF Body
  <2> QED
    BY <1>9
<1> QED
  BY <1>10, <1>11

----------------------------------------------------------------------------
(* Lists of values.                                                        *)

\* A set of numbers that has a bound has a greatest and a least one.
LEMMA Extremes ==
  ASSUME NEW n \in Nat, NEW S \in SUBSET (1..n), S # {}
  PROVE  /\ Max(S) \in S /\ \A x \in S : x <= Max(S)
         /\ Min(S) \in S /\ \A x \in S : Min(S) <= x
<1> DEFINE T == {n - x : x \in S}
<1>0. \A x \in S : x \in Nat /\ n - x \in Nat
  OBVIOUS
<1>1. T \in SUBSET Nat /\ T # {}
  BY <1>0
<1>2. PICK t \in T : \A u \in T : t <= u
  BY <1>1, LeastNumber
<1>3. PICK x \in S : t = n - x
  BY <1>2
<1>4. ASSUME NEW y \in S PROVE x >= y
  <2>1. n - y \in T
    OBVIOUS
  <2>2. t <= n - y
    BY <1>2, <2>1
  <2> QED
    BY <1>0, <1>3, <2>2
<1>5. Max(S) \in S /\ \A y \in S : Max(S) >= y
  BY <1>3, <1>4 DEF Max
<1>6. PICK m \in S : \A y \in S : m <= y
  <2>1. S \in SUBSET Nat
    BY <1>0
  <2> QED
    BY <2>1, LeastNumber
<1>7. Min(S) \in S /\ \A y \in S : Min(S) <= y
  BY <1>6 DEF Min
<1>8. \A y \in S : y <= Max(S)
  BY <1>0, <1>5
<1> QED
  BY <1>5, <1>7, <1>8

\* Numbers can be taken by their rank, each by its own.
LEMMA Ranked ==
  ASSUME NEW n \in Nat, NEW F \in SUBSET (1..n)
  PROVE  /\ Cardinality(F) \in Nat
         /\ \A k \in 1..Cardinality(F) : NthOf(F, k) \in F
         /\ \A k, l \in 1..Cardinality(F) : NthOf(F, k) = NthOf(F, l) => k = l
         /\ \A i \in F : \E k \in 1..Cardinality(F) : NthOf(F, k) = i
<1> DEFINE N == Cardinality(F)
           Upto(i) == {j \in F : j <= i}
           rank == [i \in F |-> Cardinality(Upto(i))]
<1>1. IsFiniteSet(F) /\ N \in Nat
  <2>1. IsFiniteSet(1..n)
    BY FS_Interval
  <2>2. IsFiniteSet(F)
    BY <2>1, FS_Subset
  <2> QED
    BY <2>2, FS_CardinalityType
<1>2. ASSUME NEW i \in F
      PROVE  IsFiniteSet(Upto(i)) /\ Cardinality(Upto(i)) \in 1..N
  <2>1. Upto(i) \in SUBSET F /\ i \in Upto(i)
    OBVIOUS
  <2> HIDE DEF Upto
  <2>2. IsFiniteSet(Upto(i)) /\ Cardinality(Upto(i)) <= N /\ Cardinality(Upto(i)) \in Nat
    BY <1>1, <2>1, FS_Subset, FS_CardinalityType
  <2>3. Cardinality(Upto(i)) # 0
    BY <2>1, <2>2, FS_EmptySet
  <2> QED
    BY <1>1, <2>2, <2>3
<1>3. ASSUME NEW i \in F, NEW j \in F, i <= j, Cardinality(Upto(i)) = Cardinality(Upto(j))
      PROVE  i = j
  <2>0. \A k \in F : k \in Nat
    OBVIOUS
  <2>1. Upto(i) \in SUBSET Upto(j) /\ j \in Upto(j)
    <3>1. ASSUME NEW k \in F, k <= i PROVE k <= j
      <4>1. k \in Nat /\ i \in Nat /\ j \in Nat
        BY <2>0
      <4> QED
        BY <1>3, <3>1, <4>1
    <3>2. j <= j
      BY <2>0
    <3> QED
      BY <3>1, <3>2
  <2> HIDE DEF Upto
  <2>2. Upto(i) = Upto(j)
    BY <1>2, <1>3, <2>1, FS_Subset
  <2>3. j \in Upto(i)
    BY <2>1, <2>2
  <2> QED
    BY <1>3, <2>3 DEF Upto
<1>4. \A i, j \in F : Cardinality(Upto(i)) = Cardinality(Upto(j)) => i = j
  <2>1. ASSUME NEW i \in F, NEW j \in F, Cardinality(Upto(i)) = Cardinality(Upto(j)) PROVE i = j
    <3>1. i <= j \/ j <= i
      OBVIOUS
    <3> HIDE DEF Upto
    <3> QED
      BY <1>3, <2>1, <3>1
  <2> QED
    BY <2>1
<1>5. \A k : NthOf(F, k) = CHOOSE i \in F : Cardinality(Upto(i)) = k
  BY DEF NthOf
<1> HIDE DEF Upto
<1>6. \A i \in F : Cardinality(Upto(i)) \in 1..N /\ NthOf(F, Cardinality(Upto(i))) = i
  BY <1>2, <1>4, <1>5
<1>7. rank \in Injection(F, 1..N)
  BY <1>2, <1>4 DEF Injection, IsInjective
<1>8. IsFiniteSet(1..N) /\ Cardinality(1..N) = N
  BY <1>1, FS_Interval
<1>9. rank \in Surjection(F, 1..N)
  BY <1>7, <1>8, FS_Injection
<1>10. \A k \in 1..N : \E i \in F : Cardinality(Upto(i)) = k
  BY <1>9 DEF Surjection
<1>11. \A k \in 1..N : NthOf(F, k) \in F /\ Cardinality(Upto(NthOf(F, k))) = k
  BY <1>5, <1>10
<1> HIDE DEF N
<1>12. \A k \in 1..N : NthOf(F, k) \in F
  BY <1>11
<1>13. \A k, l \in 1..N : NthOf(F, k) = NthOf(F, l) => k = l
  BY <1>11
<1>14. \A i \in F : \E k \in 1..N : NthOf(F, k) = i
  BY <1>6
<1> QED
  BY <1>1, <1>12, <1>13, <1>14 DEF N

\* Where the entries with a key are, and the last of them.
Like(items, key) == {i \in DOMAIN items : IsDict(items[i]) /\ Key(items[i]) = key}
LastOf(items, key) == items[Max(Like(items, key))]

\* All entries have keys that can be looked up.
AllHashable(items) == \A i \in DOMAIN items : IsDict(items[i]) => Hashable(Key(items[i]))

\* What makes a list one in which a key finds the only entry with it: the last that all
\* had.
Keyed(items, all) ==
  /\ \A n \in DOMAIN items : IsDict(items[n])
  /\ \A n, m \in DOMAIN items : Key(items[n]) = Key(items[m]) => n = m
  /\ \A n \in DOMAIN items : Like(all, Key(items[n])) # {} /\ items[n] = LastOf(all, Key(items[n]))
  /\ \A key : Like(all, key) # {} => \E n \in DOMAIN items : Key(items[n]) = key

\* Merged lists are lists.
LEMMA MergedList ==
  ASSUME NEW S, NEW old \in Seq(S), NEW new \in Seq(S)
  PROVE  LET merged == MergeValueLocaleScope(old, new)
             all == old \o new IN
         /\ merged \in Seq(ToSet(merged))
         /\ DOMAIN merged = 1..Cardinality(Firsts(all))
         /\ \A n \in DOMAIN merged : merged[n] = all[LastLike(all, NthOf(Firsts(all), n))]
<1> DEFINE all == old \o new
           merged == MergeValueLocaleScope(old, new)
           N == Cardinality(Firsts(all))
<1>1. all \in Seq(S) /\ DOMAIN all = 1..Len(all) /\ Len(all) \in Nat
  BY ConcatProperties, LenProperties
<1> HIDE DEF all
<1>2. Firsts(all) \in SUBSET (1..Len(all))
  BY <1>1 DEF Firsts
<1>3. N \in Nat
  BY <1>1, <1>2, Ranked
<1>4. merged = [n \in 1..N |-> all[LastLike(all, NthOf(Firsts(all), n))]]
  BY DEF MergeValueLocaleScope, all
<1> HIDE DEF merged, N
<1>5. DOMAIN merged = 1..N /\ \A n \in 1..N : merged[n] = all[LastLike(all, NthOf(Firsts(all), n))]
  BY <1>4
<1>6. \A n \in 1..N : merged[n] \in ToSet(merged)
  BY <1>5 DEF ToSet
<1>7. merged \in [1..N -> ToSet(merged)]
  BY <1>4, <1>5, <1>6
<1>8. merged \in Seq(ToSet(merged))
  BY <1>3, <1>7, SeqDef
<1> QED
  BY <1>5, <1>8 DEF merged, N, all

\* In merged lists there is one entry of each key that there was: the last.
LEMMA MergedKeyed ==
  ASSUME NEW S, NEW old \in Seq(S), NEW new \in Seq(S), AllHashable(old \o new)
  PROVE  Keyed(MergeValueLocaleScope(old, new), old \o new)
<1> DEFINE all == old \o new
           merged == MergeValueLocaleScope(old, new)
           N == Cardinality(Firsts(all))
           Nth(n) == NthOf(Firsts(all), n)
<1>1. Len(all) \in Nat /\ DOMAIN all = 1..Len(all) /\ AllHashable(all)
  BY ConcatProperties, LenProperties
<1>2. /\ DOMAIN merged = 1..N
      /\ \A n \in 1..N : merged[n] = all[LastLike(all, Nth(n))]
  <2>1. DOMAIN merged = 1..N
    BY MergedList
  <2>2. \A n \in DOMAIN merged : merged[n] = all[LastLike(all, Nth(n))]
    BY MergedList
  <2> HIDE DEF merged, N, Nth, all
  <2> QED
    BY <2>1, <2>2
<1> HIDE DEF all, merged
<1>3. Firsts(all) \in SUBSET (1..Len(all))
  BY <1>1 DEF Firsts
<1>4. /\ N \in Nat
      /\ \A n \in 1..N : Nth(n) \in Firsts(all)
      /\ \A n, m \in 1..N : Nth(n) = Nth(m) => n = m
      /\ \A i \in Firsts(all) : \E n \in 1..N : Nth(n) = i
  BY <1>1, <1>3, Ranked
<1> HIDE DEF N, Nth
<1>5. \A i : /\ FirstLike(all, i) = Min(Like(all, Key(all[i])))
             /\ LastLike(all, i) = Max(Like(all, Key(all[i])))
  BY DEF FirstLike, LastLike, Like
<1>6. ASSUME NEW key, Like(all, key) # {}
      PROVE  /\ Max(Like(all, key)) \in Like(all, key)
             /\ Min(Like(all, key)) \in Like(all, key)
  <2>1. Like(all, key) \in SUBSET (1..Len(all))
    BY <1>1 DEF Like
  <2> QED
    BY <1>1, <1>6, <2>1, Extremes
<1>7. ASSUME NEW i \in Firsts(all)
      PROVE  i \in Like(all, Key(all[i])) /\ Min(Like(all, Key(all[i]))) = i
  BY <1>5 DEF Firsts, Like
<1>8. ASSUME NEW n \in 1..N
      PROVE  /\ merged[n] = LastOf(all, Key(merged[n])) /\ Like(all, Key(merged[n])) # {}
             /\ IsDict(merged[n]) /\ Key(merged[n]) = Key(all[Nth(n)])
  <2> DEFINE key == Key(all[Nth(n)])
             last == Max(Like(all, key))
  <2>1. Nth(n) \in Like(all, key)
    BY <1>4, <1>7
  <2>2. merged[n] = all[last]
    BY <1>2, <1>5
  <2> HIDE DEF key
  <2>3. last \in Like(all, key)
    BY <1>6, <2>1
  <2>4. IsDict(all[last]) /\ Key(all[last]) = key
    BY <2>3 DEF Like
  <2>5. all[last] = LastOf(all, key)
    BY DEF LastOf
  <2> QED
    BY <2>1, <2>2, <2>4, <2>5 DEF key
<1>9. ASSUME NEW n \in 1..N, NEW m \in 1..N, Key(merged[n]) = Key(merged[m]) PROVE n = m
  <2>1. Key(all[Nth(n)]) = Key(all[Nth(m)])
    BY <1>8, <1>9
  <2>2. Nth(n) \in Firsts(all) /\ Nth(m) \in Firsts(all)
    BY <1>4
  <2>3. Nth(n) = Nth(m)
    BY <1>7, <2>1, <2>2
  <2> QED
    BY <1>4, <2>3
<1>10. ASSUME NEW key, Like(all, key) # {} PROVE \E n \in 1..N : Key(merged[n]) = key
  <2> DEFINE i == Min(Like(all, key))
  <2>1. i \in Like(all, key)
    BY <1>6, <1>10
  <2> HIDE DEF i
  <2>2. i \in DOMAIN all /\ IsDict(all[i]) /\ Key(all[i]) = key
    BY <2>1 DEF Like
  <2>3. FirstLike(all, i) = i
    BY <1>5, <2>2 DEF i
  <2>4. i \in Firsts(all)
    BY <1>1, <2>2, <2>3 DEF Firsts, AllHashable
  <2>5. PICK n \in 1..N : Nth(n) = i
    BY <1>4, <2>4
  <2> QED
    BY <1>8, <2>2, <2>5
<1>11. Keyed(merged, all)
  BY <1>2, <1>8, <1>9, <1>10 DEF Keyed
<1> QED
  BY <1>11 DEF merged, all

\* Of two lists, one behind the other, the last entry with a key is that of the second if
\* there is one.
LEMMA LastJoined ==
  ASSUME NEW S, NEW old \in Seq(S), NEW new \in Seq(S), NEW key
  PROVE  LET all == old \o new IN
         /\ Like(all, key) # {} <=> Like(old, key) # {} \/ Like(new, key) # {}
         /\ Like(new, key) # {} => LastOf(all, key) = LastOf(new, key)
         /\ Like(new, key) = {} /\ Like(old, key) # {} => LastOf(all, key) = LastOf(old, key)
<1> DEFINE all == old \o new
           k == Len(old)
           m == Len(new)
<1>1. /\ k \in Nat /\ m \in Nat /\ DOMAIN old = 1..k /\ DOMAIN new = 1..m
      /\ DOMAIN all = 1..k + m /\ all \in Seq(S)
  <2>1. all \in Seq(S) /\ Len(all) = k + m
    BY ConcatProperties
  <2>2. k \in Nat /\ m \in Nat /\ DOMAIN old = 1..k /\ DOMAIN new = 1..m
    BY LenProperties
  <2>3. DOMAIN all = 1..Len(all)
    BY <2>1, LenProperties
  <2> QED
    BY <2>1, <2>2, <2>3
<1>2. \A i \in 1..k + m : all[i] = IF i <= k THEN old[i] ELSE new[i - k]
  BY ConcatProperties
<1> HIDE DEF all, k, m
<1>3. \A i \in 1..k : i \in 1..k + m /\ all[i] = old[i]
  BY <1>1, <1>2
<1>4. \A j \in 1..m : k + j \in 1..k + m /\ all[k + j] = new[j]
  <2>1. ASSUME NEW j \in 1..m PROVE k + j \in 1..k + m /\ all[k + j] = new[j]
    <3>1. k + j \in 1..k + m /\ ~(k + j <= k) /\ (k + j) - k = j
      BY <1>1
    <3> QED
      BY <1>2, <3>1
  <2> QED
    BY <2>1
<1>5. \A i \in 1..k + m : i \in 1..k \/ (i - k \in 1..m /\ i = k + (i - k))
  BY <1>1
<1>6. \A i \in Like(old, key) : i \in Like(all, key)
  BY <1>1, <1>3 DEF Like
<1>7. \A j \in Like(new, key) : k + j \in Like(all, key)
  BY <1>1, <1>4 DEF Like
<1>8. ASSUME NEW i \in Like(all, key)
      PROVE  i \in Like(old, key) \/ (i - k \in Like(new, key) /\ i = k + (i - k))
  <2>1. i \in 1..k + m /\ IsDict(all[i]) /\ Key(all[i]) = key
    BY <1>1 DEF Like
  <2>2. CASE i \in 1..k
    BY <1>1, <1>3, <2>1, <2>2 DEF Like
  <2>3. CASE i - k \in 1..m /\ i = k + (i - k)
    BY <1>1, <1>4, <2>1, <2>3 DEF Like
  <2> QED
    BY <1>5, <2>1, <2>2, <2>3
<1>9. Like(all, key) # {} <=> Like(old, key) # {} \/ Like(new, key) # {}
  BY <1>6, <1>7, <1>8
<1>10. /\ Like(all, key) \in SUBSET (1..k + m) /\ k + m \in Nat
       /\ Like(old, key) \in SUBSET (1..k)
       /\ Like(new, key) \in SUBSET (1..m)
  BY <1>1 DEF Like
<1>11. ASSUME Like(new, key) # {} PROVE LastOf(all, key) = LastOf(new, key)
  <2> DEFINE last == Max(Like(new, key))
             top == Max(Like(all, key))
  <2>1. last \in Like(new, key) /\ \A j \in Like(new, key) : j <= last
    BY <1>1, <1>10, <1>11, Extremes
  <2>2. top \in Like(all, key) /\ \A i \in Like(all, key) : i <= top
    BY <1>9, <1>10, <1>11, Extremes
  <2> HIDE DEF last, top
  <2>3. k + last <= top /\ last \in 1..m
    BY <1>7, <1>10, <2>1, <2>2
  <2>4. top \notin Like(old, key)
    BY <1>1, <1>10, <2>3
  <2>5. top - k \in Like(new, key) /\ top = k + (top - k)
    BY <1>8, <2>2, <2>4
  <2>6. top - k <= last /\ top - k \in 1..m
    BY <1>10, <2>1, <2>5
  <2>7. top = k + last
    BY <1>1, <2>3, <2>5, <2>6
  <2>8. all[top] = new[last]
    BY <1>4, <2>3, <2>7
  <2> QED
    BY <2>8 DEF LastOf, last, top
<1>12. ASSUME Like(new, key) = {}, Like(old, key) # {} PROVE LastOf(all, key) = LastOf(old, key)
  <2>1. Like(all, key) = Like(old, key)
    BY <1>6, <1>8, <1>12
  <2>2. Max(Like(old, key)) \in 1..k
    BY <1>1, <1>10, <1>12, Extremes
  <2> QED
    BY <1>3, <2>1, <2>2 DEF LastOf
<1> QED
  BY <1>9, <1>11, <1>12 DEF all

\* Merged lists have for each key the new entry if there is one, and otherwise the old.
LEMMA MergedLast ==
  ASSUME NEW S, NEW old \in Seq(S), NEW new \in Seq(S), AllHashable(old), AllHashable(new), NEW key
  PROVE  LET merged == MergeValueLocaleScope(old, new) IN
         /\ Like(merged, key) # {} <=> Like(old, key) # {} \/ Like(new, key) # {}
         /\ Like(new, key) # {} => LastOf(merged, key) = LastOf(new, key)
         /\ Like(new, key) = {} /\ Like(old, key) # {} => LastOf(merged, key) = LastOf(old, key)
<1> DEFINE all == old \o new
           merged == MergeValueLocaleScope(old, new)
<1>1. AllHashable(all)
  <2>1. /\ Len(old) \in Nat /\ Len(new) \in Nat
        /\ DOMAIN old = 1..Len(old) /\ DOMAIN new = 1..Len(new)
    BY LenProperties
  <2>2. /\ Len(all) = Len(old) + Len(new)
        /\ \A i \in 1..Len(old) + Len(new) : all[i] = IF i <= Len(old) THEN old[i] ELSE new[i - Len(old)]
    BY ConcatProperties
  <2>3. DOMAIN all = 1..Len(old) + Len(new)
    BY <2>2, ConcatProperties, LenProperties
  <2> HIDE DEF all
  <2>4. ASSUME NEW i \in 1..Len(old) + Len(new), IsDict(all[i]) PROVE Hashable(Key(all[i]))
    <3>1. CASE i <= Len(old)
      <4>1. i \in DOMAIN old /\ all[i] = old[i]
        BY <2>1, <2>2, <3>1
      <4> QED
        BY <2>4, <4>1 DEF AllHashable
    <3>2. CASE ~(i <= Len(old))
      <4>1. i - Len(old) \in DOMAIN new /\ all[i] = new[i - Len(old)]
        BY <2>1, <2>2, <3>2
      <4> QED
        BY <2>4, <4>1 DEF AllHashable
    <3> QED
      BY <3>1, <3>2
  <2> QED
    BY <2>3, <2>4 DEF AllHashable
<1>2. Keyed(merged, all)
  BY <1>1, MergedKeyed
<1>3. /\ Like(all, key) # {} <=> Like(old, key) # {} \/ Like(new, key) # {}
      /\ Like(new, key) # {} => LastOf(all, key) = LastOf(new, key)
      /\ Like(new, key) = {} /\ Like(old, key) # {} => LastOf(all, key) = LastOf(old, key)
  BY LastJoined
<1>4. DOMAIN merged = 1..Cardinality(Firsts(all))
  BY MergedList
<1> HIDE DEF all, merged
<1>5. Like(merged, key) # {} => Like(all, key) # {}
  BY <1>2 DEF Keyed, Like
<1>6. ASSUME Like(all, key) # {}
      PROVE  Like(merged, key) # {} /\ LastOf(merged, key) = LastOf(all, key)
  <2>1. PICK n \in DOMAIN merged : Key(merged[n]) = key
    BY <1>2, <1>6 DEF Keyed
  <2>2. IsDict(merged[n]) /\ merged[n] = LastOf(all, key)
    BY <1>2, <2>1 DEF Keyed
  <2>3. Like(merged, key) = {n}
    BY <1>2, <2>1, <2>2 DEF Keyed, Like
  <2>4. n <= n
    BY <1>4
  <2>5. Max({n}) = n
    BY <2>4 DEF Max
  <2> QED
    BY <2>2, <2>3, <2>5 DEF LastOf
<1> QED
  BY <1>3, <1>5, <1>6 DEF merged

----------------------------------------------------------------------------
(* Patched documents.                                                      *)

\* Both documents have an object at a path.
Meet(doc, patch, path) == IsDict(Reached(doc, path)) /\ IsDict(Reached(patch, path))

\* What becomes of the objects at all paths.
Makes(patched, doc, patch) ==
  \A path \in Seq(Names) : patched[path] = PatchedAt(doc, patch, patched, path)

\* Each key of an object has what the patch has, or else what the document has, and where
\* both have an object that is patched in turn.
Turns(doc, patch, patched, result, path, key) ==
  LET named == DOMAIN DictOf(Reached(patch, path))
      long == Append(path, key) IN
  /\ DOMAIN DictOf(Reached(result, path)) = DOMAIN DictOf(Reached(doc, path)) \cup named
  /\ key \notin named => Reached(result, long) = Reached(doc, long)
  /\ key \in named /\ ~Meet(doc, patch, long) => Reached(result, long) = Reached(patch, long)
  /\ Meet(doc, patch, long) /\ key # "values" => Reached(result, long) = [dict |-> patched[long]]
  /\ Meet(doc, patch, long) /\ key = "values" =>
       Reached(result, long)
       = [dict |-> MergeValues(Reached(doc, long).dict, Reached(patch, long).dict)]

\* This is so where there is an object that is patched.
LEMMA PatchedNext ==
  ASSUME NEW doc, NEW patch, NEW patched, Makes(patched, doc, patch), NEW result,
         NEW path \in Seq(Names), Reached(result, path) = [dict |-> patched[path]],
         NEW key \in Names
  PROVE  Turns(doc, patch, patched, result, path, key)
<1> DEFINE before == DictOf(Reached(doc, path))
           below == DictOf(Reached(patch, path))
           long == Append(path, key)
           Is(k) ==
             LET old == Get(before, k)
                 new == Get(below, k) IN
             IF k \notin DOMAIN below THEN old
             ELSE IF ~(IsDict(old) /\ IsDict(new)) THEN new
             ELSE [dict |-> IF k = "values" THEN MergeValues(old.dict, new.dict)
                                            ELSE patched[Append(path, k)]]
<1>1. patched[path] = [k \in DOMAIN before \cup DOMAIN below |-> Is(k)]
  BY DEF Makes, PatchedAt
<1>2. DictOf(Reached(result, path)) = patched[path]
  BY DEF DictOf, IsDict
<1>3. /\ Reached(doc, long) = Get(before, key)
      /\ Reached(patch, long) = Get(below, key)
      /\ Reached(result, long) = Get(patched[path], key)
  BY <1>2, ReachedNext
<1>4. Is(key) = LET old == Reached(doc, long)
                    new == Reached(patch, long) IN
                IF key \notin DOMAIN below THEN old
                ELSE IF ~(IsDict(old) /\ IsDict(new)) THEN new
                ELSE [dict |-> IF key = "values" THEN MergeValues(old.dict, new.dict)
                                                 ELSE patched[long]]
  BY <1>3
<1> HIDE DEF Is, before, below, long
<1>5. DOMAIN patched[path] = DOMAIN before \cup DOMAIN below
  BY <1>1
<1>6. key \in DOMAIN before \cup DOMAIN below => Reached(result, long) = Is(key)
  BY <1>1, <1>3 DEF Get
<1>7. key \notin DOMAIN below /\ key \notin DOMAIN before => Reached(result, long) = Reached(doc, long)
  BY <1>3, <1>5 DEF Get
<1>8. IsDict(Reached(patch, long)) => key \in DOMAIN below
  BY <1>3 DEF Get, IsDict, JsonNull
<1> QED
  BY <1>2, <1>4, <1>5, <1>6, <1>7, <1>8 DEF Turns, Meet, before, below, long

\* Where two documents have the same, they have the same for each further key.
LEMMA SameNext ==
  ASSUME NEW doc, NEW other, NEW path \in Seq(Names), Reached(doc, path) = Reached(other, path),
         NEW key \in Names
  PROVE  Reached(doc, Append(path, key)) = Reached(other, Append(path, key))
BY ReachedNext

\* Whatever is at a path of a patched document comes of the two.
Arises(doc, patch, patched, result, path) ==
  LET old == Reached(doc, path)
      new == Reached(patch, path)
      is == Reached(result, path) IN
  /\ path \in Seq(Names)
  /\ \/ Meet(doc, patch, path) /\ is = [dict |-> patched[path]]
     \/ Meet(doc, patch, path) /\ is = [dict |-> MergeValues(old.dict, new.dict)]
     \/ path \in Paths(doc) /\ is = old
     \/ path \in Paths(patch) /\ is = new
     \/ /\ path \in Paths(doc) \cap Paths(patch) /\ IsList(old) /\ IsList(new)
        /\ is = [list |-> MergeValueLocaleScope(old.list, new.list)]

\* What is further down comes of the two as well.
LEMMA ArisesNext ==
  ASSUME NEW doc, IsDocument(doc), NEW patch, IsDocument(patch),
         NEW patched, Makes(patched, doc, patch), NEW result, NEW path,
         Arises(doc, patch, patched, result, path), NEW key \in DOMAIN DictOf(Reached(result, path))
  PROVE  Arises(doc, patch, patched, result, Append(path, key))
<1> DEFINE old == Reached(doc, path)
           new == Reached(patch, path)
           is == Reached(result, path)
           long == Append(path, key)
<1>1. path \in Seq(Names)
  BY DEF Arises
<1>2. ASSUME NEW document, IsDocument(document), key \in DOMAIN DictOf(Reached(document, path))
      PROVE  key \in Names /\ long \in Paths(document)
  <2>1. IsDict(Reached(document, path))
    BY <1>2 DEF DictOf
  <2>2. path \in Paths(document)
    BY <1>1, <1>2, <2>1, OnlyPaths DEF IsDict, JsonNull
  <2> QED
    BY <1>2, <2>2, PathsAre
<1>3. key \in Names => long \in Seq(Names)
  BY <1>1, AppendProperties
<1> HIDE DEF long
<1>4. CASE Meet(doc, patch, path) /\ is = [dict |-> patched[path]]
  <2>1. key \in DOMAIN DictOf(old) \/ key \in DOMAIN DictOf(new)
    <3>1. DictOf(is) = patched[path]
      BY <1>4 DEF DictOf, IsDict
    <3>2. DOMAIN patched[path] = DOMAIN DictOf(old) \cup DOMAIN DictOf(new)
      BY <1>1 DEF Makes, PatchedAt
    <3> QED
      BY <3>1, <3>2
  <2>2. key \in Names /\ long \in Seq(Names)
    BY <1>2, <1>3, <2>1
  <2>3. /\ key \notin DOMAIN DictOf(new) => Reached(result, long) = Reached(doc, long)
        /\ key \in DOMAIN DictOf(new) /\ ~Meet(doc, patch, long) =>
             Reached(result, long) = Reached(patch, long)
        /\ Meet(doc, patch, long) /\ key # "values" => Reached(result, long) = [dict |-> patched[long]]
        /\ Meet(doc, patch, long) /\ key = "values" =>
             Reached(result, long)
             = [dict |-> MergeValues(Reached(doc, long).dict, Reached(patch, long).dict)]
    <3>1. Turns(doc, patch, patched, result, path, key)
      BY <1>1, <1>4, <2>2, PatchedNext
    <3> QED
      BY <3>1 DEF Turns, long
  <2>4. /\ key \notin DOMAIN DictOf(new) => long \in Paths(doc)
        /\ key \in DOMAIN DictOf(new) => long \in Paths(patch)
    BY <1>2, <2>1
  <2> HIDE DEF old, new, is
  <2> QED
    BY <2>2, <2>3, <2>4 DEF Arises, long
<1>5. CASE Meet(doc, patch, path) /\ is = [dict |-> MergeValues(old.dict, new.dict)]
  <2>1. DictOf(is) = MergeValues(old.dict, new.dict)
    BY <1>5 DEF DictOf, IsDict
  <2>2. DictOf(old) = old.dict /\ DictOf(new) = new.dict
    BY <1>5 DEF Meet, DictOf
  <2> DEFINE oldlist == Get(DictOf(old), key)
             newlist == Get(DictOf(new), key)
             one == Get(DictOf(is), key)
  <2>3. DOMAIN DictOf(is) = DOMAIN DictOf(old) \cup DOMAIN DictOf(new)
    BY <2>1, <2>2 DEF MergeValues
  <2>4. key \in Names /\ long \in Seq(Names)
    BY <1>2, <1>3, <2>3
  <2>5. Reached(doc, long) = oldlist /\ Reached(patch, long) = newlist /\ Reached(result, long) = one
    BY <1>1, <2>4, ReachedNext DEF long
  <2>6. one = IF key \notin DOMAIN DictOf(new) THEN oldlist
              ELSE IF IsList(oldlist) /\ IsList(newlist)
                   THEN [list |-> MergeValueLocaleScope(oldlist.list, newlist.list)]
                   ELSE newlist
    BY <2>1, <2>2, <2>3 DEF MergeValues, Get
  <2>7. /\ key \in DOMAIN DictOf(old) => long \in Paths(doc)
        /\ key \in DOMAIN DictOf(new) => long \in Paths(patch)
    BY <1>2
  <2>8. IsList(oldlist) => key \in DOMAIN DictOf(old)
    BY DEF Get, IsList, JsonNull
  <2> HIDE DEF oldlist, newlist, one, old, new
  <2> QED
    BY <2>3, <2>4, <2>5, <2>6, <2>7, <2>8 DEF Arises, long, is
<1>6. CASE path \in Paths(doc) /\ is = old
  <2>1. key \in Names /\ long \in Paths(doc)
    BY <1>2, <1>6
  <2>2. Reached(result, long) = Reached(doc, long)
    BY <1>1, <1>6, <2>1, SameNext DEF long
  <2> QED
    BY <1>3, <2>1, <2>2 DEF Arises, long
<1>7. CASE path \in Paths(patch) /\ is = new
  <2>1. key \in Names /\ long \in Paths(patch)
    BY <1>2, <1>7
  <2>2. Reached(result, long) = Reached(patch, long)
    BY <1>1, <1>7, <2>1, SameNext DEF long
  <2> QED
    BY <1>3, <2>1, <2>2 DEF Arises, long
<1>8. CASE is = [list |-> MergeValueLocaleScope(old.list, new.list)]
  <2>1. ~IsDict(is)
    BY <1>8 DEF IsDict
  <2> QED
    BY <2>1 DEF DictOf
<1> QED
  BY <1>4, <1>5, <1>6, <1>7, <1>8 DEF Arises

\* What PATCH makes of a document is a document.
LEMMA PatchedDocument ==
  ASSUME NEW doc, IsDocument(doc), NEW patch, IsDocument(patch)
  PROVE  IsDocument(ApplyPatch(doc, patch))
<1> DEFINE result == ApplyPatch(doc, patch)
<1>1. PICK patched : Makes(patched, doc, patch) /\ result = patched[<<>>]
  BY PatchedIs DEF Makes
<1> HIDE DEF result
<1>2. Arises(doc, patch, patched, result, <<>>)
  <2>1. Meet(doc, patch, <<>>) /\ Reached(result, <<>>) = [dict |-> patched[<<>>]]
    BY <1>1, ReachedStart DEF Meet, IsDict
  <2>2. <<>> \in Seq(Names)
    BY EmptySeq
  <2> QED
    BY <2>1, <2>2 DEF Arises
<1> DEFINE All == {path \in Seq(Names) : Arises(doc, patch, patched, result, path)}
<1>3. Paths(result) \subseteq All
  <2>1. <<>> \in All
    BY <1>2, EmptySeq
  <2>2. ASSUME NEW path \in Paths(result) \cap All, NEW key \in DOMAIN DictOf(Reached(result, path))
        PROVE  Append(path, key) \in All
    <3>1. Arises(doc, patch, patched, result, Append(path, key))
      BY <1>1, <2>2, ArisesNext
    <3> QED
      BY <3>1 DEF Arises
  <2> HIDE DEF All
  <2> QED
    BY <2>1, <2>2, PathInduction
<1>4. ASSUME NEW path \in Paths(result)
      PROVE  LET v == Reached(result, path) IN
             /\ path \in Seq(Names)
             /\ IsDict(v) => Len(path) < MaxDepth
             /\ IsList(v) => v.list \in Seq(ToSet(v.list))
  <2> DEFINE v == Reached(result, path)
             old == Reached(doc, path)
             new == Reached(patch, path)
  <2>1. Arises(doc, patch, patched, result, path) /\ path \in Seq(Names)
    BY <1>3, <1>4
  <2>2. ASSUME NEW document, IsDocument(document), v = Reached(document, path), path \in Paths(document)
        PROVE  /\ IsDict(v) => Len(path) < MaxDepth
               /\ IsList(v) => v.list \in Seq(ToSet(v.list))
    BY <2>2 DEF IsDocument
  <2>3. ASSUME Meet(doc, patch, path), v = [dict |-> v.dict]
        PROVE  /\ Len(path) < MaxDepth
               /\ ~IsList(v)
    <3>1. path \in Paths(doc)
      BY <2>1, <2>3, OnlyPaths DEF Meet, IsDict, JsonNull
    <3>2. Len(path) < MaxDepth
      BY <2>3, <3>1 DEF Meet, IsDocument
    <3>3. ~IsList(v)
      BY <2>3 DEF IsList
    <3> QED
      BY <3>2, <3>3
  <2>4. ASSUME path \in Paths(doc) \cap Paths(patch), IsList(old), IsList(new),
               v = [list |-> MergeValueLocaleScope(old.list, new.list)]
        PROVE  ~IsDict(v) /\ v.list \in Seq(ToSet(v.list))
    <3>1. old.list \in Seq(ToSet(old.list)) /\ new.list \in Seq(ToSet(new.list))
      BY <2>4 DEF IsDocument
    <3> DEFINE S == ToSet(old.list) \cup ToSet(new.list)
    <3>2. old.list \in Seq(S) /\ new.list \in Seq(S)
      BY <3>1, SeqMonotonic
    <3> DEFINE merged == MergeValueLocaleScope(old.list, new.list)
    <3>3. merged \in Seq(ToSet(merged))
      <4> HIDE DEF S, old, new
      <4> QED
        BY <3>2, MergedList
    <3> HIDE DEF merged
    <3>4. v.list = merged /\ ~IsDict(v)
      BY <2>4 DEF IsDict, merged
    <3> QED
      BY <3>3, <3>4
  <2> QED
    BY <2>1, <2>2, <2>3, <2>4 DEF Arises
<1>5. IsDocument(result)
  BY <1>4 DEF IsDocument
<1> QED
  BY <1>5 DEF result

----------------------------------------------------------------------------
(* Nodes that are not values.                                              *)

\* A list begins like another if it is no longer and has the same elements.
LEMMA PrefixIs ==
  ASSUME NEW S, NEW s \in Seq(S), NEW t \in Seq(S)
  PROVE  IsPrefix(s, t) <=> Len(s) <= Len(t) /\ \A i \in 1..Len(s) : s[i] = t[i]
<1>1. Len(s) \in Nat /\ Len(t) \in Nat
  BY LenProperties
<1>2. SubSeq(s, 1, Len(s)) = s
  BY SubSeqFull
<1> SUFFICES ASSUME Len(s) <= Len(t)
             PROVE  s = SubSeq(t, 1, Len(s)) <=> \A i \in 1..Len(s) : s[i] = t[i]
  BY <1>2 DEF IsPrefix
<1> DEFINE u == SubSeq(t, 1, Len(s))
<1>3. u \in Seq(S) /\ Len(u) = Len(s) /\ \A i \in 1..Len(s) : u[i] = t[i]
  <2>1. \A i \in 1..Len(s) : t[i] \in S
    BY <1>1, ElementOfSeq
  <2>2. /\ u \in Seq(S) /\ Len(u) = IF 1 <= Len(s) THEN Len(s) - 1 + 1 ELSE 0
        /\ \A i \in 1..Len(s) - 1 + 1 : u[i] = t[1 + i - 1]
    <3> HIDE DEF u
    <3>1. 1 \in Int /\ Len(s) \in Int
      BY <1>1
    <3> QED
      BY <2>1, <3>1, SubSeqProperties DEF u
  <2> HIDE DEF u
  <2>3. Len(u) = Len(s)
    BY <1>1, <2>2
  <2>4. ASSUME NEW i \in 1..Len(s) PROVE u[i] = t[i]
    <3>1. i \in 1..Len(s) - 1 + 1 /\ 1 + i - 1 = i
      BY <1>1
    <3> QED
      BY <2>2, <3>1
  <2> QED
    BY <2>2, <2>3, <2>4
<1> HIDE DEF u
<1>4. (\A i \in 1..Len(s) : s[i] = t[i]) => s = u
  BY <1>3, SeqEqual
<1>5. s = u => \A i \in 1..Len(s) : s[i] = t[i]
  BY <1>3
<1> QED
  BY <1>4, <1>5 DEF u

\* A list that begins another with an element appended is this list or begins the other.
LEMMA PrefixNext ==
  ASSUME NEW S, NEW s \in Seq(S), NEW t \in Seq(S), NEW x \in S
  PROVE  /\ IsPrefix(s, Append(t, x)) <=> s = Append(t, x) \/ IsPrefix(s, t)
         /\ IsPrefix(t, t)
<1> DEFINE long == Append(t, x)
<1>1. /\ long \in Seq(S) /\ Len(long) = Len(t) + 1 /\ Len(t) \in Nat /\ Len(s) \in Nat
      /\ \A i \in 1..Len(t) : long[i] = t[i]
  BY AppendProperties, LenProperties
<1> HIDE DEF long
<1>2. /\ IsPrefix(s, long) <=> Len(s) <= Len(long) /\ \A i \in 1..Len(s) : s[i] = long[i]
      /\ IsPrefix(s, t) <=> Len(s) <= Len(t) /\ \A i \in 1..Len(s) : s[i] = t[i]
      /\ IsPrefix(t, t) <=> Len(t) <= Len(t) /\ \A i \in 1..Len(t) : t[i] = t[i]
  BY <1>1, PrefixIs
<1>3. IsPrefix(s, t) => IsPrefix(s, long)
  BY <1>1, <1>2
<1>4. s = long => IsPrefix(s, long)
  BY <1>1, <1>2
<1>5. ASSUME IsPrefix(s, long), ~IsPrefix(s, t) PROVE s = long
  <2>1. Len(s) = Len(long)
    <3>1. CASE Len(s) <= Len(t)
      BY <1>1, <1>2, <1>5, <3>1
    <3>2. CASE ~(Len(s) <= Len(t))
      BY <1>1, <1>2, <1>5, <3>2
    <3> QED
      BY <3>1, <3>2
  <2> QED
    BY <1>1, <1>2, <1>5, <2>1, SeqEqual
<1>6. IsPrefix(t, t)
  BY <1>1, <1>2
<1> QED
  BY <1>3, <1>4, <1>5, <1>6 DEF long

\* Paths that do not lead into "values".
Near(path) == path = <<"values">> \/ path = <<>> \/ path[1] # "values"

\* Nothing of a document is above a path but objects.
Open(doc, path) == \A p \in Paths(doc) : IsPrefix(p, path) => IsDict(Reached(doc, p))

\* One key less leads not into "values" either, and not to it.
LEMMA NearNext ==
  ASSUME NEW path \in Seq(Names), NEW key \in Names, Near(Append(path, key))
  PROVE  /\ Near(path) /\ path # <<"values">>
         /\ key = "values" /\ Append(path, key) # <<"values">> => path # <<>>
         /\ Append(path, key) = <<"values">> => path = <<>> /\ key = "values"
<1> DEFINE long == Append(path, key)
<1>1. /\ Len(path) \in Nat /\ Len(long) = Len(path) + 1 /\ long[Len(path) + 1] = key
      /\ \A i \in 1..Len(path) : long[i] = path[i]
      /\ long # <<>>
  BY AppendProperties, LenProperties
<1>2. path = <<>> => long = <<key>>
  OBVIOUS
<1> HIDE DEF long
<1>3. Len(<<"values">>) = 1 /\ <<"values">>[1] = "values" /\ <<"values">> # <<>>
  OBVIOUS
<1>4. path # <<>> => Len(path) \in Nat \ {0}
  BY EmptySeq
<1>5. path # <<>> => long[1] = path[1] /\ long # <<"values">>
  BY <1>1, <1>3, <1>4
<1>6. path # <<>> => path[1] # "values"
  BY <1>1, <1>5 DEF Near, long
<1>7. path # <<"values">>
  BY <1>3, <1>6
<1>8. long = <<"values">> => path = <<>> /\ key = "values"
  <2>1. ASSUME long = <<"values">> PROVE path = <<>> /\ key = "values"
    <3>1. path = <<>>
      BY <1>5, <2>1
    <3>2. <<key>>[1] = key
      OBVIOUS
    <3> QED
      BY <1>2, <1>3, <2>1, <3>1, <3>2
  <2> QED
    BY <2>1
<1>9. key = "values" /\ long # <<"values">> => path # <<>>
  BY <1>2
<1> QED
  BY <1>6, <1>7, <1>8, <1>9 DEF Near, long

\* Objects of a document have only objects above them.
LEMMA OpenNext ==
  ASSUME NEW doc, IsDocument(doc), NEW path \in Seq(Names), NEW key \in Names
  PROVE  /\ Open(doc, Append(path, key)) => Open(doc, path)
         /\ Append(path, key) \notin Paths(doc) => (Open(doc, Append(path, key)) <=> Open(doc, path))
         /\ Open(doc, path) /\ path \in Paths(doc) => IsDict(Reached(doc, path))
<1> DEFINE long == Append(path, key)
<1>1. Paths(doc) \subseteq Seq(Names)
  BY PathsAre
<1>2. \A p \in Paths(doc) : IsPrefix(p, long) <=> p = long \/ IsPrefix(p, path)
  BY <1>1, PrefixNext
<1>3. IsPrefix(path, path)
  BY PrefixNext
<1> HIDE DEF long
<1>4. Open(doc, long) => Open(doc, path)
  BY <1>2 DEF Open
<1>5. long \notin Paths(doc) => (Open(doc, long) <=> Open(doc, path))
  BY <1>2 DEF Open
<1>6. Open(doc, path) /\ path \in Paths(doc) => IsDict(Reached(doc, path))
  BY <1>3 DEF Open
<1> QED
  BY <1>4, <1>5, <1>6 DEF long

\* The same the other way.
LEMMA ObjectsOpen ==
  ASSUME NEW doc, IsDocument(doc)
  PROVE  \A path \in Paths(doc) : IsDict(Reached(doc, path)) => Open(doc, path)
<1> DEFINE P == {path \in Seq(Names) : IsDict(Reached(doc, path)) => Open(doc, path)}
<1>1. <<>> \in P
  <2>1. <<>> \in Seq(Names) /\ Paths(doc) \subseteq Seq(Names)
    BY PathsAre, EmptySeq
  <2>2. ASSUME NEW p \in Paths(doc), IsPrefix(p, <<>>) PROVE p = <<>>
    <3>1. p \in Seq(Names) /\ Len(<<>>) = 0
      BY <2>1
    <3>2. Len(p) <= 0
      BY <2>2, <3>1 DEF IsPrefix
    <3> QED
      BY <3>1, <3>2, EmptySeq
  <2>3. IsDict(Reached(doc, <<>>))
    BY ReachedStart DEF IsDict
  <2> QED
    BY <2>1, <2>2, <2>3 DEF Open
<1>2. ASSUME NEW path \in Paths(doc) \cap P, NEW key \in DOMAIN DictOf(Reached(doc, path))
      PROVE  Append(path, key) \in P
  <2>1. path \in Seq(Names) /\ key \in Names /\ IsDict(Reached(doc, path))
    BY <1>2, PathsAre DEF DictOf
  <2>2. Open(doc, path)
    BY <1>2, <2>1
  <2> DEFINE long == Append(path, key)
  <2>3. long \in Seq(Names) /\ Paths(doc) \subseteq Seq(Names)
    BY <1>2, <2>1, PathsAre
  <2>4. \A p \in Paths(doc) : IsPrefix(p, long) <=> p = long \/ IsPrefix(p, path)
    BY <2>1, <2>3, PrefixNext
  <2> HIDE DEF long
  <2>5. IsDict(Reached(doc, long)) => Open(doc, long)
    BY <2>2, <2>4 DEF Open
  <2>6. long \in P
    BY <2>3, <2>5
  <2> QED
    BY <2>6 DEF long
<1> HIDE DEF P
<1>3. Paths(doc) \subseteq P
  BY <1>1, <1>2, PathInduction
<1> QED
  BY <1>3 DEF P

\* A patch, what it makes of a document, and no objects called "values" further down.
Patching(doc, patch, patched, result) ==
  /\ IsDocument(doc) /\ IsDocument(patch) /\ IsDocument(result)
  /\ Makes(patched, doc, patch) /\ Reached(result, <<>>) = [dict |-> patched[<<>>]]
  /\ ~MergesFurtherDown(doc, patch)

\* What is at a path of a patch is in the result, where two objects meet as an object.
AsNamed(doc, patch, patched, result, path) ==
  IF Meet(doc, patch, path)
  THEN /\ IsDict(Reached(result, path))
       /\ path # <<"values">> => Reached(result, path) = [dict |-> patched[path]]
  ELSE Reached(result, path) = Reached(patch, path)

\* Further down, objects called "values" do not meet, and where objects meet there are
\* objects that meet above them.
LEMMA MeetNext ==
  ASSUME NEW doc, NEW patch, NEW patched, NEW result, Patching(doc, patch, patched, result),
         NEW path \in Seq(Names), NEW key \in Names
  PROVE  /\ Meet(doc, patch, Append(path, key)) => Meet(doc, patch, path)
         /\ path # <<>> /\ key = "values" => ~Meet(doc, patch, Append(path, key))
<1> DEFINE long == Append(path, key)
<1>1. IsDocument(doc) /\ IsDocument(patch) /\ ~MergesFurtherDown(doc, patch)
  BY DEF Patching
<1>2. long \in Seq(Names) /\ Len(long) = Len(path) + 1 /\ long[Len(path) + 1] = key /\ Len(path) \in Nat
  BY AppendProperties, LenProperties
<1>3. Meet(doc, patch, long) => long \in Paths(doc) \cap Paths(patch)
  <2> HIDE DEF long
  <2> QED
    BY <1>1, <1>2, OnlyPaths DEF Meet, IsDict, JsonNull
<1>4. Meet(doc, patch, long) => Meet(doc, patch, path)
  BY <1>1, <1>3, PathNext DEF Meet
<1> HIDE DEF long
<1>5. ASSUME path # <<>>, key = "values", Meet(doc, patch, long) PROVE FALSE
  <2>1. Len(path) \in Nat \ {0}
    BY <1>5, EmptySeq
  <2>2. Len(long) > 1 /\ Last(long) = "values"
    BY <1>2, <1>5, <2>1 DEF Last
  <2>3. MergesFurtherDown(doc, patch)
    BY <1>3, <1>5, <2>2 DEF MergesFurtherDown, Meet
  <2> QED
    BY <1>1, <2>3
<1> QED
  BY <1>4, <1>5 DEF long

\* All that a patch has is in the result.
LEMMA AllNamed ==
  ASSUME NEW doc, NEW patch, NEW patched, NEW result, Patching(doc, patch, patched, result)
  PROVE  \A path \in Paths(patch) : Near(path) => AsNamed(doc, patch, patched, result, path)
<1> DEFINE P == {path \in Seq(Names) : Near(path) => AsNamed(doc, patch, patched, result, path)}
<1>1. /\ IsDocument(doc) /\ IsDocument(patch) /\ Makes(patched, doc, patch)
      /\ Reached(result, <<>>) = [dict |-> patched[<<>>]]
  BY DEF Patching
<1>2. <<>> \in P
  <2>1. Meet(doc, patch, <<>>)
    BY ReachedStart DEF Meet, IsDict
  <2> QED
    BY <1>1, <2>1, EmptySeq DEF AsNamed, IsDict
<1>3. ASSUME NEW path \in Paths(patch) \cap P, NEW key \in DOMAIN DictOf(Reached(patch, path))
      PROVE  Append(path, key) \in P
  <2> DEFINE long == Append(path, key)
  <2>1. path \in Seq(Names) /\ key \in Names /\ IsDict(Reached(patch, path))
    BY <1>1, <1>3, PathsAre DEF DictOf
  <2>2. long \in Seq(Names)
    BY <2>1, AppendProperties
  <2>3. /\ Meet(doc, patch, long) => Meet(doc, patch, path)
        /\ path # <<>> /\ key = "values" => ~Meet(doc, patch, long)
    BY <2>1, MeetNext
  <2> SUFFICES ASSUME Near(long) PROVE AsNamed(doc, patch, patched, result, long)
    BY <2>2
  <2>4. /\ Near(path) /\ path # <<"values">>
        /\ key = "values" /\ long # <<"values">> => path # <<>>
        /\ long = <<"values">> => path = <<>> /\ key = "values"
    BY <2>1, NearNext
  <2>5. AsNamed(doc, patch, patched, result, path)
    BY <1>3, <2>4
  <2>6. CASE Meet(doc, patch, path)
    <3>1. Reached(result, path) = [dict |-> patched[path]]
      BY <2>4, <2>5, <2>6 DEF AsNamed
    <3>2. Turns(doc, patch, patched, result, path, key)
      BY <1>1, <2>1, <3>1, PatchedNext
    <3>3. /\ ~Meet(doc, patch, long) => Reached(result, long) = Reached(patch, long)
          /\ Meet(doc, patch, long) /\ key # "values" => Reached(result, long) = [dict |-> patched[long]]
          /\ Meet(doc, patch, long) /\ key = "values" => IsDict(Reached(result, long))
      BY <1>3, <3>2 DEF Turns, IsDict
    <3> HIDE DEF long
    <3>4. Meet(doc, patch, long) /\ long # <<"values">> => key # "values"
      BY <2>3, <2>4
    <3>5. Meet(doc, patch, long) => IsDict(Reached(result, long))
      BY <3>3 DEF IsDict
    <3> QED
      BY <3>3, <3>4, <3>5 DEF AsNamed
  <2>7. CASE ~Meet(doc, patch, path)
    <3>1. Reached(result, path) = Reached(patch, path)
      BY <2>5, <2>7 DEF AsNamed
    <3>2. Reached(result, long) = Reached(patch, long)
      BY <2>1, <3>1, SameNext
    <3> HIDE DEF long
    <3> QED
      BY <2>3, <2>7, <3>2 DEF AsNamed
  <2> QED
    BY <2>6, <2>7
<1> HIDE DEF P
<1>4. Paths(patch) \subseteq P
  BY <1>2, <1>3, PathInduction
<1> QED
  BY <1>4 DEF P

\* All that a document has and nothing in the patch is above is in the result.
LEMMA AllKept ==
  ASSUME NEW doc, NEW patch, NEW patched, NEW result, Patching(doc, patch, patched, result)
  PROVE  \A path \in Paths(doc) : Near(path) /\ path \notin Paths(patch) /\ Open(patch, path) =>
           Reached(result, path) = Reached(doc, path)
<1> DEFINE P == {path \in Seq(Names) :
                   Near(path) /\ path \notin Paths(patch) /\ Open(patch, path) =>
                     Reached(result, path) = Reached(doc, path)}
<1>1. /\ IsDocument(doc) /\ IsDocument(patch) /\ Makes(patched, doc, patch)
      /\ Reached(result, <<>>) = [dict |-> patched[<<>>]]
  BY DEF Patching
<1>2. <<>> \in P
  BY <1>1, PathsAre, EmptySeq
<1>3. ASSUME NEW path \in Paths(doc) \cap P, NEW key \in DOMAIN DictOf(Reached(doc, path))
      PROVE  Append(path, key) \in P
  <2> DEFINE long == Append(path, key)
  <2>1. path \in Seq(Names) /\ key \in Names /\ IsDict(Reached(doc, path))
    BY <1>1, <1>3, PathsAre DEF DictOf
  <2>2. long \in Seq(Names)
    BY <2>1, AppendProperties
  <2> SUFFICES ASSUME Near(long), long \notin Paths(patch), Open(patch, long)
               PROVE  Reached(result, long) = Reached(doc, long)
    BY <2>2
  <2>3. Near(path) /\ path # <<"values">>
    BY <2>1, NearNext
  <2>4. Open(patch, path) /\ (path \in Paths(patch) => IsDict(Reached(patch, path)))
    BY <1>1, <2>1, OpenNext
  <2>5. CASE path \in Paths(patch)
    <3>1. Meet(doc, patch, path) /\ AsNamed(doc, patch, patched, result, path)
      BY <2>1, <2>3, <2>4, <2>5, AllNamed DEF Meet
    <3>2. Reached(result, path) = [dict |-> patched[path]]
      BY <2>3, <3>1 DEF AsNamed
    <3>3. Turns(doc, patch, patched, result, path, key)
      BY <1>1, <2>1, <3>2, PatchedNext
    <3>4. key \notin DOMAIN DictOf(Reached(patch, path))
      BY <1>1, <2>1, PathNext
    <3> QED
      BY <3>3, <3>4 DEF Turns
  <2>6. CASE path \notin Paths(patch)
    <3>1. Reached(result, path) = Reached(doc, path)
      BY <1>3, <2>3, <2>4, <2>6
    <3> QED
      BY <2>1, <3>1, SameNext
  <2> QED
    BY <2>5, <2>6
<1> HIDE DEF P
<1>4. Paths(doc) \subseteq P
  BY <1>2, <1>3, PathInduction
<1> QED
  BY <1>4 DEF P

\* The result has these paths.
LEMMA PathsStay ==
  ASSUME NEW doc, NEW patch, NEW patched, NEW result, Patching(doc, patch, patched, result),
         NEW path, Near(path),
         path \in Paths(patch) \/ (path \in Paths(doc) /\ Open(patch, path))
  PROVE  path \in Paths(result)
<1>1. /\ IsDocument(doc) /\ IsDocument(patch) /\ Makes(patched, doc, patch) /\ IsDocument(result)
  BY DEF Patching
<1>2. CASE path = <<>>
  BY <1>1, <1>2, PathsAre
<1>3. ASSUME NEW p \in Seq(Names), NEW key \in Names, path = Append(p, key),
             \/ p \in Paths(patch) /\ key \in DOMAIN DictOf(Reached(patch, p))
             \/ p \in Paths(doc) /\ key \in DOMAIN DictOf(Reached(doc, p)) /\ path \notin Paths(patch)
                /\ Open(patch, path)
      PROVE  path \in Paths(result)
  <2>1. Near(p) /\ p # <<"values">>
    BY <1>3, NearNext
  <2>2. key \in DOMAIN DictOf(Reached(result, p))
    <3>1. CASE p \in Paths(patch) /\ IsDict(Reached(patch, p)) /\ ~Meet(doc, patch, p)
      <4>1. Reached(result, p) = Reached(patch, p)
        BY <2>1, <3>1, AllNamed DEF AsNamed
      <4>2. ~IsDict(Reached(doc, p))
        BY <3>1 DEF Meet
      <4> QED
        BY <1>3, <4>1, <4>2 DEF DictOf
    <3>2. CASE p \in Paths(patch) /\ Meet(doc, patch, p)
      <4>1. AsNamed(doc, patch, patched, result, p)
        BY <2>1, <3>2, AllNamed
      <4>2. Reached(result, p) = [dict |-> patched[p]]
        BY <2>1, <3>2, <4>1 DEF AsNamed
      <4>3. Turns(doc, patch, patched, result, p, key)
        BY <1>1, <1>3, <4>2, PatchedNext
      <4> QED
        BY <1>3, <4>3 DEF Turns
    <3>3. CASE p \in Paths(patch) /\ ~IsDict(Reached(patch, p))
      <4>1. key \notin DOMAIN DictOf(Reached(patch, p))
        BY <3>3 DEF DictOf
      <4>2. Open(patch, path)
        BY <1>3, <4>1
      <4>3. Open(patch, p)
        BY <1>1, <1>3, <4>2, OpenNext
      <4> QED
        BY <1>1, <1>3, <3>3, <4>3, OpenNext
    <3>4. CASE p \notin Paths(patch)
      <4>1. p \in Paths(doc) /\ key \in DOMAIN DictOf(Reached(doc, p)) /\ Open(patch, path)
        BY <1>3, <3>4
      <4>2. Open(patch, p)
        BY <1>1, <1>3, <4>1, OpenNext
      <4>3. Reached(result, p) = Reached(doc, p)
        BY <2>1, <3>4, <4>1, <4>2, AllKept
      <4> QED
        BY <4>1, <4>3
    <3> QED
      BY <3>1, <3>2, <3>3, <3>4
  <2> QED
    BY <1>1, <1>3, <2>2, PathNext
<1>4. CASE path # <<>> /\ path \in Paths(patch)
  <2>1. PICK p \in Paths(patch) : \E key \in DOMAIN DictOf(Reached(patch, p)) : path = Append(p, key)
    BY <1>1, <1>4, PathsAre
  <2>2. PICK key \in DOMAIN DictOf(Reached(patch, p)) : path = Append(p, key)
    BY <2>1
  <2>3. p \in Seq(Names) /\ key \in Names
    BY <1>1, <2>2, PathsAre
  <2> QED
    BY <1>3, <2>1, <2>2, <2>3
<1>5. CASE path # <<>> /\ path \notin Paths(patch)
  <2>0. path \in Paths(doc) /\ Open(patch, path)
    BY <1>5
  <2>1. PICK p \in Paths(doc) : \E key \in DOMAIN DictOf(Reached(doc, p)) : path = Append(p, key)
    BY <1>1, <1>5, <2>0, PathsAre
  <2>2. PICK key \in DOMAIN DictOf(Reached(doc, p)) : path = Append(p, key)
    BY <2>1
  <2>3. p \in Seq(Names) /\ key \in Names
    BY <1>1, <2>2, PathsAre
  <2> QED
    BY <1>3, <1>5, <2>0, <2>1, <2>2, <2>3
<1> QED
  BY <1>2, <1>4, <1>5

\* The result has no other paths.
LEMMA NoOtherPaths ==
  ASSUME NEW doc, NEW patch, NEW patched, NEW result, Patching(doc, patch, patched, result)
  PROVE  \A path \in Paths(result) : Near(path) =>
           path \in Paths(patch) \/ (path \in Paths(doc) /\ Open(patch, path))
<1> DEFINE P == {path \in Seq(Names) : Near(path) =>
                   path \in Paths(patch) \/ (path \in Paths(doc) /\ Open(patch, path))}
<1>1. /\ IsDocument(doc) /\ IsDocument(patch) /\ Makes(patched, doc, patch) /\ IsDocument(result)
  BY DEF Patching
<1>2. <<>> \in P
  BY <1>1, PathsAre, EmptySeq
<1>3. ASSUME NEW path \in Paths(result) \cap P, NEW key \in DOMAIN DictOf(Reached(result, path))
      PROVE  Append(path, key) \in P
  <2> DEFINE long == Append(path, key)
  <2>1. path \in Seq(Names) /\ key \in Names
    BY <1>1, <1>3, PathsAre
  <2>2. long \in Seq(Names)
    BY <2>1, AppendProperties
  <2> SUFFICES ASSUME Near(long)
               PROVE  long \in Paths(patch) \/ (long \in Paths(doc) /\ Open(patch, long))
    BY <2>2
  <2>3. Near(path) /\ path # <<"values">>
    BY <2>1, NearNext
  <2>4. path \in Paths(patch) \/ (path \in Paths(doc) /\ Open(patch, path))
    BY <1>3, <2>3
  <2>5. /\ key \in DOMAIN DictOf(Reached(patch, path)) <=> long \in Paths(patch)
        /\ key \in DOMAIN DictOf(Reached(doc, path)) <=> long \in Paths(doc)
    BY <1>1, <2>1, PathNext
  <2>6. long \notin Paths(patch) => (Open(patch, long) <=> Open(patch, path))
    BY <1>1, <2>1, OpenNext
  <2>7. CASE path \in Paths(patch) /\ Meet(doc, patch, path)
    <3>1. AsNamed(doc, patch, patched, result, path)
      BY <2>3, <2>7, AllNamed
    <3>2. Reached(result, path) = [dict |-> patched[path]]
      BY <2>3, <2>7, <3>1 DEF AsNamed
    <3>3. Turns(doc, patch, patched, result, path, key)
      BY <1>1, <2>1, <3>2, PatchedNext
    <3>4. long \in Paths(patch) \/ long \in Paths(doc)
      BY <1>3, <2>5, <3>3 DEF Turns
    <3>5. Open(patch, path)
      BY <1>1, <2>7, ObjectsOpen DEF Meet
    <3> QED
      BY <2>6, <3>4, <3>5
  <2>8. CASE path \in Paths(patch) /\ ~Meet(doc, patch, path)
    <3>1. Reached(result, path) = Reached(patch, path)
      BY <2>3, <2>8, AllNamed DEF AsNamed
    <3> QED
      BY <1>3, <2>5, <3>1
  <2>9. CASE path \notin Paths(patch)
    <3>1. Reached(result, path) = Reached(doc, path)
      BY <2>3, <2>4, <2>9, AllKept
    <3>2. long \in Paths(doc)
      BY <1>3, <2>5, <3>1
    <3>3. long \notin Paths(patch)
      BY <1>1, <2>1, <2>9, PathNext
    <3> QED
      BY <2>4, <2>6, <2>9, <3>2, <3>3
  <2> QED
    BY <2>7, <2>8, <2>9
<1> HIDE DEF P
<1>4. Paths(result) \subseteq P
  BY <1>2, <1>3, PathInduction
<1> QED
  BY <1>4 DEF P

----------------------------------------------------------------------------
(* Nodes that are values.                                                  *)

\* The entries that a document has for an attribute.
Listed(doc, a) == ItemsOf(Get(ValuesOf(doc), a))
Has(doc, a, key) == Like(Listed(doc, a), key) # {}

\* Values are indexed by attribute, locale and scope, and the last entry counts.
LEMMA IndexedAre ==
  ASSUME NEW doc
  PROVE  /\ \A a, l, s : <<a, l, s>> \in DOMAIN Indexed(doc) <=> Has(doc, a, <<l, s>>)
         /\ \A a, l, s : Has(doc, a, <<l, s>>) =>
              Indexed(doc)[<<a, l, s>>] = Get(LastOf(Listed(doc, a), <<l, s>>).dict, "data")
<1> DEFINE values == ValuesOf(doc)
           Entries(a) == {i \in DOMAIN ItemsOf(values[a]) : IsDict(ItemsOf(values[a])[i])}
           KeyOf(a, i) == LET key == Key(values[a].list[i]) IN <<a, key[1], key[2]>>
           Latest(key) == Max({i \in Entries(key[1]) : KeyOf(key[1], i) = key})
           Keys == UNION {{KeyOf(a, i) : i \in Entries(a)} : a \in DOMAIN values}
           Data(key) == Get(values[key[1]].list[Latest(key)].dict, "data")
<1>1. Indexed(doc) = [key \in Keys |-> Data(key)]
  BY DEF Indexed, ValueIndex
<1>2. \A a : a \in DOMAIN values => Listed(doc, a) = ItemsOf(values[a])
  BY DEF Listed, Get
<1>3. \A a : a \notin DOMAIN values => Listed(doc, a) = <<>>
  BY DEF Listed, Get, ItemsOf, IsList, JsonNull
<1>4. ASSUME NEW a, Entries(a) # {} PROVE ItemsOf(values[a]) = values[a].list
  BY <1>4 DEF ItemsOf
<1>5. ASSUME NEW entry PROVE Key(entry) = <<Key(entry)[1], Key(entry)[2]>>
  BY DEF Key
<1>6. \A l, s, x, y : <<l, s>> = <<x, y>> <=> l = x /\ s = y
  OBVIOUS
<1>7. \A a, l, s, b, x, y : <<a, l, s>> = <<b, x, y>> <=> a = b /\ l = x /\ s = y
  OBVIOUS
<1>8. ASSUME NEW a \in DOMAIN values, NEW l, NEW s
      PROVE  {i \in Entries(a) : KeyOf(a, i) = <<a, l, s>>} = Like(Listed(doc, a), <<l, s>>)
  <2> DEFINE items == ItemsOf(values[a])
  <2>1. ASSUME NEW i \in Entries(a) PROVE KeyOf(a, i) = <<a, l, s>> <=> Key(items[i]) = <<l, s>>
    <3>1. items = values[a].list
      BY <1>4, <2>1
    <3> DEFINE k == Key(items[i])
    <3>2. KeyOf(a, i) = <<a, k[1], k[2]>> /\ k = <<k[1], k[2]>>
      BY <1>5, <3>1
    <3> HIDE DEF k, KeyOf
    <3>3. KeyOf(a, i) = <<a, l, s>> <=> k[1] = l /\ k[2] = s
      BY <1>7, <3>2
    <3>4. k = <<l, s>> <=> k[1] = l /\ k[2] = s
      BY <1>6, <3>2
    <3> QED
      BY <3>3, <3>4 DEF k
  <2>2. Like(items, <<l, s>>) = {i \in Entries(a) : Key(items[i]) = <<l, s>>}
    BY DEF Like
  <2>3. Listed(doc, a) = items
    BY <1>2
  <2> HIDE DEF items, Entries, KeyOf
  <2> QED
    BY <2>1, <2>2, <2>3
<1>9. ASSUME NEW a, NEW l, NEW s PROVE <<a, l, s>> \in Keys <=> Has(doc, a, <<l, s>>)
  <2>1. \A b, i : KeyOf(b, i) = <<a, l, s>> => a = b
    BY <1>7
  <2>2. CASE a \in DOMAIN values
    <3>1. <<a, l, s>> \in Keys <=> {i \in Entries(a) : KeyOf(a, i) = <<a, l, s>>} # {}
      <4> HIDE DEF Entries, KeyOf, values
      <4> QED
        BY <2>1, <2>2
    <3> HIDE DEF Keys, Entries, KeyOf
    <3> QED
      BY <1>8, <2>2, <3>1 DEF Has
  <2>3. CASE a \notin DOMAIN values
    <3>1. <<a, l, s>> \notin Keys
      <4> HIDE DEF Entries, KeyOf, values
      <4> QED
        BY <2>1, <2>3
    <3>2. ~Has(doc, a, <<l, s>>)
      BY <1>3, <2>3 DEF Has, Like
    <3> QED
      BY <3>1, <3>2
  <2> QED
    BY <2>2, <2>3
<1>10. ASSUME NEW a, NEW l, NEW s, Has(doc, a, <<l, s>>)
       PROVE  Data(<<a, l, s>>) = Get(LastOf(Listed(doc, a), <<l, s>>).dict, "data")
  <2>1. a \in DOMAIN values
    BY <1>3, <1>10 DEF Has, Like
  <2>2. {i \in Entries(a) : KeyOf(a, i) = <<a, l, s>>} = Like(Listed(doc, a), <<l, s>>)
    BY <1>8, <2>1
  <2>3. Entries(a) # {}
    <3> HIDE DEF Entries, KeyOf
    <3> QED
      BY <1>10, <2>2 DEF Has
  <2>4. values[a].list = Listed(doc, a)
    BY <1>2, <1>4, <2>1, <2>3
  <2> DEFINE key == <<a, l, s>>
  <2>5. key[1] = a
    OBVIOUS
  <2> HIDE DEF Entries, KeyOf, key, values
  <2>6. Latest(key) = Max(Like(Listed(doc, a), <<l, s>>))
    BY <2>2, <2>5 DEF key
  <2> HIDE DEF Latest
  <2>7. Data(key) = Get(Listed(doc, a)[Max(Like(Listed(doc, a), <<l, s>>))].dict, "data")
    BY <2>4, <2>5, <2>6
  <2> HIDE DEF Data
  <2> QED
    BY <2>7 DEF LastOf, key
<1> HIDE DEF Keys, Data
<1> QED
  BY <1>1, <1>9, <1>10

\* The keys of what can be indexed can be looked up.
LEMMA CanIndex ==
  ASSUME NEW doc, ~CannotIndex(doc)
  PROVE  \A a : AllHashable(Listed(doc, a))
<1>1. ASSUME NEW a, a \in DOMAIN ValuesOf(doc) PROVE AllHashable(Listed(doc, a))
  <2>1. Listed(doc, a) = ItemsOf(ValuesOf(doc)[a])
    BY <1>1 DEF Listed, Get
  <2> QED
    BY <1>1, <2>1 DEF CannotIndex, AllHashable
<1>2. ASSUME NEW a, a \notin DOMAIN ValuesOf(doc) PROVE AllHashable(Listed(doc, a))
  <2>1. Listed(doc, a) = <<>>
    BY <1>2 DEF Listed, Get, ItemsOf, IsList, JsonNull
  <2> QED
    BY <2>1 DEF AllHashable
<1> QED
  BY <1>1, <1>2

\* The values of a document are at the path of this name.
LEMMA ValuesAt ==
  ASSUME NEW doc
  PROVE  /\ Reached(doc, <<"values">>) = Get(doc, "values")
         /\ ValuesOf(doc) = DictOf(Reached(doc, <<"values">>))
         /\ IsDocument(doc) => (<<"values">> \in Paths(doc) <=> "values" \in DOMAIN doc)
         /\ IsDocument(doc) /\ "values" \in DOMAIN doc =>
              "values" \in Names /\ <<"values">> \in Seq(Names)
<1>1. <<"values">> = Append(<<>>, "values")
  OBVIOUS
<1>2. <<>> \in Seq({"values"})
  BY EmptySeq
<1>3. DictOf(Reached(doc, <<>>)) = doc
  BY ReachedStart DEF DictOf, IsDict
<1>4. Reached(doc, <<"values">>) = Get(doc, "values")
  <2>1. Reached(doc, Append(<<>>, "values")) = Get(DictOf(Reached(doc, <<>>)), "values")
    BY <1>2, ReachedNext
  <2> QED
    BY <1>1, <1>3, <2>1
<1>5. ASSUME IsDocument(doc), "values" \in DOMAIN doc
      PROVE  "values" \in Names /\ <<"values">> \in Paths(doc) /\ <<"values">> \in Seq(Names)
  <2>1. <<>> \in Paths(doc) /\ Paths(doc) \subseteq Seq(Names)
    BY <1>5, PathsAre
  <2>2. \A key \in DOMAIN DictOf(Reached(doc, <<>>)) :
          key \in Names /\ Append(<<>>, key) \in Paths(doc)
    BY <1>5, <2>1, PathsAre
  <2>3. "values" \in Names /\ Append(<<>>, "values") \in Paths(doc)
    BY <1>3, <1>5, <2>2
  <2> QED
    BY <1>1, <2>1, <2>3
<1>6. ASSUME IsDocument(doc), <<"values">> \in Paths(doc) PROVE "values" \in DOMAIN doc
  <2>1. <<"values">> \in Seq(Names) /\ <<>> \in Seq(Names)
    BY <1>6, PathsAre
  <2>2. <<"values">>[1] \in Names /\ <<"values">>[1] = "values"
    <3>1. Len(<<"values">>) = 1 /\ <<"values">>[1] = "values"
      OBVIOUS
    <3>2. 1 \in 1..Len(<<"values">>)
      BY <3>1
    <3> QED
      BY <2>1, <3>1, <3>2, ElementOfSeq
  <2>3. "values" \in DOMAIN DictOf(Reached(doc, <<>>))
    BY <1>1, <1>6, <2>1, <2>2, PathNext
  <2> QED
    BY <1>3, <2>3
<1> QED
  BY <1>4, <1>5, <1>6 DEF ValuesOf

\* Documents have lists of values.
LEMMA ListedSequence ==
  ASSUME NEW doc, IsDocument(doc), NEW a
  PROVE  Listed(doc, a) \in Seq(ToSet(Listed(doc, a)))
<1> DEFINE v == Get(ValuesOf(doc), a)
<1>1. CASE IsList(v)
  <2>1. a \in DOMAIN ValuesOf(doc)
    BY <1>1 DEF Get, IsList, JsonNull
  <2>2. "values" \in DOMAIN doc
    BY <2>1 DEF ValuesOf, DictOf, Get, IsDict, JsonNull
  <2>3. <<"values">> \in Paths(doc)
    BY <2>2, ValuesAt
  <2>4. a \in Names /\ Append(<<"values">>, a) \in Paths(doc)
    BY <2>1, <2>3, ValuesAt, PathsAre
  <2>5. Reached(doc, Append(<<"values">>, a)) = v
    <3>1. <<"values">> \in Seq(Names)
      BY <2>2, ValuesAt
    <3>2. Reached(doc, Append(<<"values">>, a)) = Get(DictOf(Reached(doc, <<"values">>)), a)
      BY <2>4, <3>1, ReachedNext
    <3>3. ValuesOf(doc) = DictOf(Reached(doc, <<"values">>))
      BY ValuesAt
    <3> QED
      BY <3>2, <3>3
  <2>6. v.list \in Seq(ToSet(v.list))
    BY <1>1, <2>4, <2>5 DEF IsDocument
  <2> QED
    BY <1>1, <2>6 DEF Listed, ItemsOf
<1>2. CASE ~IsList(v)
  <2>1. Listed(doc, a) = <<>>
    BY <1>2 DEF Listed, ItemsOf
  <2> QED
    BY <2>1, EmptySeq
<1> QED
  BY <1>1, <1>2

\* A patch has something other than a list of values for an attribute.
Blocks(patch, a) ==
  \/ "values" \in DOMAIN patch /\ ~IsDict(Get(patch, "values"))
  \/ a \in DOMAIN ValuesOf(patch) /\ ~IsList(Get(ValuesOf(patch), a))

\* What the result lists for an attribute.
LEMMA ListedPatched ==
  ASSUME NEW doc, NEW patch, NEW patched, NEW result, Patching(doc, patch, patched, result), NEW a
  PROVE  \/ /\ Listed(result, a) = Listed(doc, a)
            /\ Listed(patch, a) = <<>> /\ ~Blocks(patch, a)
         \/ /\ Listed(result, a) = Listed(patch, a)
            /\ Listed(doc, a) = <<>> \/ (Listed(patch, a) = <<>> /\ Blocks(patch, a))
         \/ /\ Listed(result, a) = MergeValueLocaleScope(Listed(doc, a), Listed(patch, a))
            /\ ~Blocks(patch, a)
<1> DEFINE old == Get(doc, "values")
           new == Get(patch, "values")
           is == Get(result, "values")
<1>1. /\ DictOf(Reached(patch, <<>>)) = patch /\ DictOf(Reached(doc, <<>>)) = doc
      /\ result = PatchedAt(doc, patch, patched, <<>>)
  <2>1. [dict |-> result] = [dict |-> patched[<<>>]]
    BY ReachedStart DEF Patching
  <2>2. result = patched[<<>>]
    BY <2>1
  <2>3. <<>> \in Seq(Names)
    BY EmptySeq
  <2>4. patched[<<>>] = PatchedAt(doc, patch, patched, <<>>)
    BY <2>3 DEF Patching, Makes
  <2>5. DictOf(Reached(patch, <<>>)) = patch /\ DictOf(Reached(doc, <<>>)) = doc
    BY ReachedStart DEF DictOf, IsDict
  <2> QED
    BY <2>2, <2>4, <2>5
<1>2. result = [key \in DOMAIN doc \cup DOMAIN patch |->
                  IF key \notin DOMAIN patch THEN Get(doc, key)
                  ELSE IF ~(IsDict(Get(doc, key)) /\ IsDict(Get(patch, key))) THEN Get(patch, key)
                  ELSE [dict |-> IF key = "values"
                                 THEN MergeValues(Get(doc, key).dict, Get(patch, key).dict)
                                 ELSE patched[Append(<<>>, key)]]]
  BY <1>1 DEF PatchedAt
<1>3. /\ "values" \notin DOMAIN patch => is = old
      /\ "values" \in DOMAIN patch /\ ~(IsDict(old) /\ IsDict(new)) => is = new
      /\ IsDict(old) /\ IsDict(new) => is = [dict |-> MergeValues(old.dict, new.dict)]
  <2>1. "values" \notin DOMAIN doc => old = JsonNull
    BY DEF Get
  <2>2. "values" \notin DOMAIN patch => new = JsonNull
    BY DEF Get
  <2>3. "values" \notin DOMAIN result => is = JsonNull
    BY DEF Get
  <2>4. "values" \in DOMAIN result => is = result["values"]
    BY DEF Get
  <2>5. DOMAIN result = DOMAIN doc \cup DOMAIN patch
    BY <1>2
  <2>6. "values" \in DOMAIN result => result["values"] =
          IF "values" \notin DOMAIN patch THEN old
          ELSE IF ~(IsDict(old) /\ IsDict(new)) THEN new
          ELSE [dict |-> MergeValues(old.dict, new.dict)]
    BY <1>2, <2>5
  <2>7. ~IsDict(JsonNull)
    BY DEF IsDict, JsonNull
  <2> HIDE DEF old, new, is
  <2> QED
    BY <2>1, <2>2, <2>3, <2>4, <2>5, <2>6, <2>7
<1>4. /\ Listed(doc, a) = ItemsOf(Get(DictOf(old), a))
      /\ Listed(patch, a) = ItemsOf(Get(DictOf(new), a))
      /\ Listed(result, a) = ItemsOf(Get(DictOf(is), a))
      /\ ValuesOf(patch) = DictOf(new)
  BY DEF Listed, ValuesOf
<1>5. "values" \notin DOMAIN patch => new = JsonNull
  BY DEF Get
<1> HIDE DEF old, new, is
<1>6. \A v : ~IsDict(v) => Get(DictOf(v), a) = JsonNull
  BY DEF DictOf, Get
<1>7. \A v : ~IsList(v) => ItemsOf(v) = <<>>
  BY DEF ItemsOf
<1>8. ~IsList(JsonNull) /\ ~IsDict(JsonNull)
  BY DEF IsList, IsDict, JsonNull
<1>9. Blocks(patch, a) <=> \/ "values" \in DOMAIN patch /\ ~IsDict(new)
                           \/ a \in DOMAIN DictOf(new) /\ ~IsList(Get(DictOf(new), a))
  BY <1>4 DEF Blocks, new
<1>10. CASE "values" \notin DOMAIN patch
  <2>1. is = old /\ ~IsDict(new)
    BY <1>3, <1>5, <1>8, <1>10
  <2>2. Listed(patch, a) = <<>> /\ DOMAIN DictOf(new) = {}
    BY <1>4, <1>6, <1>7, <1>8, <2>1 DEF DictOf
  <2> QED
    BY <1>4, <1>9, <1>10, <2>1, <2>2
<1>11. CASE "values" \in DOMAIN patch /\ ~IsDict(new)
  <2>1. is = new
    BY <1>3, <1>11
  <2>2. Listed(patch, a) = <<>>
    BY <1>4, <1>6, <1>7, <1>8, <1>11
  <2> QED
    BY <1>4, <1>9, <1>11, <2>1, <2>2
<1>12. CASE "values" \in DOMAIN patch /\ IsDict(new) /\ ~IsDict(old)
  <2>1. is = new
    BY <1>3, <1>12
  <2>2. Listed(doc, a) = <<>>
    BY <1>4, <1>6, <1>7, <1>8, <1>12
  <2> QED
    BY <1>4, <2>1, <2>2
<1>13. CASE "values" \in DOMAIN patch /\ IsDict(new) /\ IsDict(old)
  <2> DEFINE oldlist == Get(DictOf(old), a)
             newlist == Get(DictOf(new), a)
             one == Get(DictOf(is), a)
             keys == DOMAIN DictOf(new)
  <2>1. DictOf(is) = MergeValues(DictOf(old), DictOf(new))
    BY <1>3, <1>13 DEF DictOf, IsDict
  <2>2. one = IF a \notin keys THEN oldlist
              ELSE IF IsList(oldlist) /\ IsList(newlist)
                   THEN [list |-> MergeValueLocaleScope(oldlist.list, newlist.list)]
                   ELSE newlist
    <3>1. a \in DOMAIN DictOf(old) \cup DOMAIN DictOf(new)
          => MergeValues(DictOf(old), DictOf(new))[a]
             = IF a \notin keys THEN oldlist
               ELSE IF IsList(oldlist) /\ IsList(newlist)
                    THEN [list |-> MergeValueLocaleScope(oldlist.list, newlist.list)]
                    ELSE newlist
      BY DEF MergeValues
    <3>2. DOMAIN DictOf(is) = DOMAIN DictOf(old) \cup DOMAIN DictOf(new)
      BY <2>1 DEF MergeValues
    <3>3. a \notin DOMAIN DictOf(old) => oldlist = JsonNull
      BY DEF Get
    <3>4. one = IF a \in DOMAIN DictOf(is) THEN DictOf(is)[a] ELSE JsonNull
      BY DEF Get
    <3> HIDE DEF oldlist, newlist, one
    <3> QED
      BY <2>1, <3>1, <3>2, <3>3, <3>4
  <2>3. a \notin keys => newlist = JsonNull
    BY DEF Get
  <2>4. /\ Listed(doc, a) = ItemsOf(oldlist)
        /\ Listed(patch, a) = ItemsOf(newlist)
        /\ Listed(result, a) = ItemsOf(one)
        /\ Blocks(patch, a) <=> a \in keys /\ ~IsList(newlist)
    BY <1>4, <1>9, <1>13
  <2> HIDE DEF oldlist, newlist, one, keys
  <2>5. CASE a \notin keys
    BY <1>7, <1>8, <2>2, <2>3, <2>4, <2>5
  <2>6. CASE a \in keys /\ IsList(oldlist) /\ IsList(newlist)
    <3>1. one = [list |-> MergeValueLocaleScope(oldlist.list, newlist.list)]
      BY <2>2, <2>6
    <3>2. ItemsOf(oldlist) = oldlist.list /\ ItemsOf(newlist) = newlist.list
      BY <2>6 DEF ItemsOf
    <3>3. ItemsOf(one) = MergeValueLocaleScope(oldlist.list, newlist.list)
      BY <3>1 DEF ItemsOf, IsList
    <3> QED
      BY <2>4, <2>6, <3>2, <3>3
  <2>7. CASE a \in keys /\ ~(IsList(oldlist) /\ IsList(newlist))
    BY <1>7, <2>2, <2>4, <2>7
  <2> QED
    BY <2>5, <2>6, <2>7
<1> QED
  BY <1>10, <1>11, <1>12, <1>13

\* The result has the values of the patch, and of those of the document all that the patch
\* has nothing for.
LEMMA ValuesPatched ==
  ASSUME NEW doc, NEW patch, NEW patched, NEW result, Patching(doc, patch, patched, result),
         ~CannotIndex(doc), ~CannotIndex(patch), NEW a, NEW key
  PROVE  /\ Has(result, a, key) <=> Has(patch, a, key) \/ (Has(doc, a, key) /\ ~Blocks(patch, a))
         /\ Has(patch, a, key) => LastOf(Listed(result, a), key) = LastOf(Listed(patch, a), key)
         /\ Has(result, a, key) /\ ~Has(patch, a, key) =>
              LastOf(Listed(result, a), key) = LastOf(Listed(doc, a), key)
<1> DEFINE old == Listed(doc, a)
           new == Listed(patch, a)
           is == Listed(result, a)
           merged == MergeValueLocaleScope(old, new)
<1>1. Like(<<>>, key) = {}
  BY DEF Like
<1>2. AllHashable(old) /\ AllHashable(new)
  BY CanIndex
<1>3. IsDocument(doc) /\ IsDocument(patch)
  BY DEF Patching
<1>4. /\ Like(merged, key) # {} <=> Like(old, key) # {} \/ Like(new, key) # {}
      /\ Like(new, key) # {} => LastOf(merged, key) = LastOf(new, key)
      /\ Like(new, key) = {} /\ Like(old, key) # {} => LastOf(merged, key) = LastOf(old, key)
  <2> DEFINE S == ToSet(old) \cup ToSet(new)
  <2>1. old \in Seq(ToSet(old)) /\ new \in Seq(ToSet(new))
    BY <1>3, ListedSequence
  <2> HIDE DEF old, new
  <2>2. old \in Seq(S) /\ new \in Seq(S)
    BY <2>1, SeqMonotonic
  <2> HIDE DEF S
  <2> QED
    BY <1>2, <2>2, MergedLast
<1>5. \/ is = old /\ new = <<>> /\ ~Blocks(patch, a)
      \/ is = new /\ (old = <<>> \/ (new = <<>> /\ Blocks(patch, a)))
      \/ is = merged /\ ~Blocks(patch, a)
  BY ListedPatched
<1>6. /\ Has(doc, a, key) <=> Like(old, key) # {}
      /\ Has(patch, a, key) <=> Like(new, key) # {}
      /\ Has(result, a, key) <=> Like(is, key) # {}
  BY DEF Has
<1> HIDE DEF old, new, is, merged
<1>7. CASE is = old /\ new = <<>> /\ ~Blocks(patch, a)
  BY <1>1, <1>6, <1>7 DEF old, new, is
<1>8. CASE is = new /\ (old = <<>> \/ (new = <<>> /\ Blocks(patch, a)))
  BY <1>1, <1>6, <1>8 DEF old, new, is
<1>9. CASE is = merged /\ ~Blocks(patch, a)
  BY <1>4, <1>6, <1>9 DEF old, new, is
<1> QED
  BY <1>5, <1>7, <1>8, <1>9

----------------------------------------------------------------------------
(* What a patch replaces.                                                  *)

\* The paths of nodes that are no values of attributes.
Ordinary(path) == path = <<"values">> \/ (path # <<>> /\ path[1] # "values")

\* A list with one element.
LEMMA OneElement ==
  ASSUME NEW S, NEW s \in Seq(S), Len(s) = 1
  PROVE  s = <<s[1]>>
<1>1. s[1] \in S
  BY ElementOfSeq
<1>2. <<s[1]>> \in Seq(S) /\ Len(<<s[1]>>) = 1 /\ <<s[1]>>[1] = s[1]
  BY <1>1
<1>3. \A i \in 1..Len(s) : s[i] = <<s[1]>>[i]
  BY <1>2
<1> QED
  BY <1>2, <1>3, SeqEqual

\* What such a path begins with is such a path.
LEMMA OrdinaryBefore ==
  ASSUME NEW p \in Seq(Names), NEW q \in Seq(Names), Ordinary(q), IsPrefix(p, q), p # <<>>
  PROVE  Ordinary(p)
<1>1. Len(p) <= Len(q) /\ \A i \in 1..Len(p) : p[i] = q[i]
  BY PrefixIs
<1>2. Len(p) \in Nat /\ Len(q) \in Nat /\ Len(p) # 0
  BY LenProperties, EmptySeq
<1>3. p[1] = q[1]
  BY <1>1, <1>2
<1>4. CASE q = <<"values">>
  <2>1. Len(q) = 1 /\ q[1] = "values"
    BY <1>4
  <2>2. Len(p) = 1
    BY <1>1, <1>2, <2>1
  <2> QED
    BY <1>3, <2>1, <2>2, OneElement DEF Ordinary
<1>5. CASE q[1] # "values"
  BY <1>3, <1>5 DEF Ordinary
<1> QED
  BY <1>4, <1>5 DEF Ordinary

\* The paths of values begin with those of values just if these are the same.
LEMMA SamePrefix ==
  ASSUME NEW a, NEW l, NEW s, NEW b, NEW m, NEW t
  PROVE  IsPrefix(<<"values", b, m, t>>, <<"values", a, l, s>>) <=> b = a /\ m = l /\ t = s
<1> DEFINE S == {"values", a, l, s, b, m, t}
           long == <<"values", a, l, s>>
           other == <<"values", b, m, t>>
<1>1. long \in Seq(S) /\ other \in Seq(S)
  OBVIOUS
<1>2. /\ Len(long) = 4 /\ long[1] = "values" /\ long[2] = a /\ long[3] = l /\ long[4] = s
      /\ Len(other) = 4 /\ other[1] = "values" /\ other[2] = b /\ other[3] = m /\ other[4] = t
  OBVIOUS
<1> HIDE DEF S, long, other
<1>3. IsPrefix(other, long) <=> Len(other) <= Len(long) /\ \A i \in 1..Len(other) : other[i] = long[i]
  BY <1>1, PrefixIs
<1>4. 1..Len(other) = {1, 2, 3, 4}
  BY <1>2
<1>5. IsPrefix(other, long) <=> b = a /\ m = l /\ t = s
  BY <1>2, <1>3, <1>4
<1> QED
  BY <1>5 DEF long, other

\* They begin with the path of their attribute.
LEMMA GapPrefix ==
  ASSUME NEW a, NEW l, NEW s, NEW b
  PROVE  IsPrefix(<<"values", b>>, <<"values", a, l, s>>) <=> b = a
<1> DEFINE S == {"values", a, l, s, b}
           long == <<"values", a, l, s>>
           gap == <<"values", b>>
<1>1. long \in Seq(S) /\ gap \in Seq(S)
  OBVIOUS
<1>2. /\ Len(long) = 4 /\ long[1] = "values" /\ long[2] = a
      /\ Len(gap) = 2 /\ gap[1] = "values" /\ gap[2] = b
  OBVIOUS
<1> HIDE DEF S, long, gap
<1>3. IsPrefix(gap, long) <=> Len(gap) <= Len(long) /\ \A i \in 1..Len(gap) : gap[i] = long[i]
  BY <1>1, PrefixIs
<1>4. 1..Len(gap) = {1, 2}
  BY <1>2
<1>5. IsPrefix(gap, long) <=> b = a
  BY <1>2, <1>3, <1>4
<1> QED
  BY <1>5 DEF long, gap

\* And with that of all values.
LEMMA TopPrefix ==
  ASSUME NEW a, NEW l, NEW s
  PROVE  IsPrefix(<<"values">>, <<"values", a, l, s>>)
<1> DEFINE S == {"values", a, l, s}
           long == <<"values", a, l, s>>
           top == <<"values">>
<1>1. long \in Seq(S) /\ top \in Seq(S)
  OBVIOUS
<1>2. Len(long) = 4 /\ long[1] = "values" /\ Len(top) = 1 /\ top[1] = "values"
  OBVIOUS
<1> HIDE DEF S, long, top
<1>3. IsPrefix(top, long) <=> Len(top) <= Len(long) /\ \A i \in 1..Len(top) : top[i] = long[i]
  BY <1>1, PrefixIs
<1>4. 1..Len(top) = {1}
  BY <1>2
<1>5. IsPrefix(top, long)
  BY <1>2, <1>3, <1>4
<1> QED
  BY <1>5 DEF long, top

\* The paths of values and the others.
LEMMA MixedPrefix ==
  ASSUME NEW q \in Seq(Names), Ordinary(q), NEW a, NEW l, NEW s
  PROVE  /\ ~IsPrefix(<<"values", a, l, s>>, q) /\ ~IsPrefix(<<"values", a>>, q)
         /\ IsPrefix(q, <<"values", a, l, s>>) => q = <<"values">>
<1> DEFINE S == Names \cup {"values", a, l, s}
           long == <<"values", a, l, s>>
           gap == <<"values", a>>
<1>1. long \in Seq(S) /\ gap \in Seq(S)
  OBVIOUS
<1>2. Len(long) = 4 /\ long[1] = "values" /\ Len(gap) = 2 /\ gap[1] = "values"
  OBVIOUS
<1>3. q \in Seq(S) /\ Len(q) \in Nat /\ Len(q) # 0
  <2>1. Names \subseteq S
    OBVIOUS
  <2>2. q \in Seq(S)
    BY <2>1, SeqMonotonic
  <2> QED
    BY <2>2, LenProperties, EmptySeq DEF Ordinary
<1> HIDE DEF S, long, gap
<1>4. q = <<"values">> => Len(q) = 1
  OBVIOUS
<1>5. ASSUME IsPrefix(long, q) PROVE FALSE
  <2>1. Len(long) <= Len(q) /\ \A i \in 1..Len(long) : long[i] = q[i]
    BY <1>1, <1>3, <1>5, PrefixIs
  <2> QED
    BY <1>2, <1>3, <1>4, <2>1 DEF Ordinary
<1>6. ASSUME IsPrefix(gap, q) PROVE FALSE
  <2>1. Len(gap) <= Len(q) /\ \A i \in 1..Len(gap) : gap[i] = q[i]
    BY <1>1, <1>3, <1>6, PrefixIs
  <2> QED
    BY <1>2, <1>3, <1>4, <2>1 DEF Ordinary
<1>7. ASSUME IsPrefix(q, long) PROVE q = <<"values">>
  <2>1. Len(q) <= Len(long) /\ \A i \in 1..Len(q) : q[i] = long[i]
    BY <1>1, <1>3, <1>7, PrefixIs
  <2>2. q[1] = "values"
    BY <1>2, <1>3, <2>1
  <2> QED
    BY <2>2 DEF Ordinary
<1> QED
  BY <1>5, <1>6, <1>7 DEF long, gap

\* A node that is no value of an attribute, and one that is.
OrdinaryNode(doc, node) ==
  \E path \in Paths(doc) : Ordinary(path) /\ node = Node(doc, path)
ValueNode(doc, node) ==
  \E a, l, s :
    /\ Has(doc, a, <<l, s>>)
    /\ node = [at |-> <<"values", a, l, s>>,
               is |-> Get(LastOf(Listed(doc, a), <<l, s>>).dict, "data")]
GapNode(doc, node) ==
  \E a \in DOMAIN ValuesOf(doc) :
    ~IsList(ValuesOf(doc)[a]) /\ node = [at |-> <<"values", a>>, is |-> JsonNull]

\* There are no other nodes.
LEMMA NodesAre ==
  ASSUME NEW doc, NEW node
  PROVE  node \in NodesOf(doc) <=>
           OrdinaryNode(doc, node) \/ ValueNode(doc, node) \/ GapNode(doc, node)
<1> DEFINE keys == DOMAIN Indexed(doc)
           Value(key) == [at |-> <<"values", key[1], key[2], key[3]>>, is |-> Indexed(doc)[key]]
<1>1. (\E key \in keys : node = Value(key)) <=> ValueNode(doc, node)
  <2>1. ASSUME NEW key \in keys, node = Value(key) PROVE ValueNode(doc, node)
    <3> DEFINE a == key[1]
               l == key[2]
               s == key[3]
    <3>1. key = <<a, l, s>>
      BY <2>1, IndexKeys
    <3> HIDE DEF a, l, s
    <3>2. Has(doc, a, <<l, s>>)
      BY <2>1, <3>1, IndexedAre
    <3>3. Indexed(doc)[key] = Get(LastOf(Listed(doc, a), <<l, s>>).dict, "data")
      BY <3>1, <3>2, IndexedAre
    <3>4. node = [at |-> <<"values", a, l, s>>, is |-> Indexed(doc)[key]]
      BY <2>1 DEF a, l, s
    <3> QED
      BY <3>2, <3>3, <3>4 DEF ValueNode
  <2>2. ASSUME NEW a, NEW l, NEW s, Has(doc, a, <<l, s>>),
               node = [at |-> <<"values", a, l, s>>,
                       is |-> Get(LastOf(Listed(doc, a), <<l, s>>).dict, "data")]
        PROVE  \E key \in keys : node = Value(key)
    <3> DEFINE key == <<a, l, s>>
    <3>1. key[1] = a /\ key[2] = l /\ key[3] = s
      OBVIOUS
    <3>2. key \in keys /\ Indexed(doc)[key] = Get(LastOf(Listed(doc, a), <<l, s>>).dict, "data")
      BY <2>2, IndexedAre
    <3> HIDE DEF key, keys
    <3>3. node = Value(key)
      BY <2>2, <3>1, <3>2
    <3> QED
      BY <3>2, <3>3
  <2> QED
    BY <2>1, <2>2 DEF ValueNode
<1>2. node \in NodesOf(doc) <=> \/ OrdinaryNode(doc, node)
                                \/ \E key \in keys : node = Value(key)
                                \/ GapNode(doc, node)
  BY DEF NodesOf, OrdinaryNode, GapNode, Ordinary
<1> QED
  BY <1>1, <1>2

\* Nothing of a patch takes the place of a node.
Stays(patch, node) == ~\E new \in NodesOf(patch) : Replaces(new, node)

\* Whether a node is an object depends on what is at its path.
LEMMA NodeIs ==
  ASSUME NEW doc, NEW path
  PROVE  /\ Node(doc, path).at = path
         /\ IsDict(Node(doc, path).is) <=> IsDict(Reached(doc, path))
BY DEF Node, IsDict

\* The node at a path stays just if the patch has nothing there, and only objects above.
LEMMA OrdinaryStays ==
  ASSUME NEW patch, IsDocument(patch), NEW node, node.at \in Seq(Names), Ordinary(node.at)
  PROVE  Stays(patch, node) <=> node.at \notin Paths(patch) /\ Open(patch, node.at)
<1> DEFINE q == node.at
<1>1. Paths(patch) \subseteq Seq(Names)
  BY PathsAre
<1>2. ASSUME NEW p \in Paths(patch), Ordinary(p), Replaces(Node(patch, p), node)
      PROVE  q \in Paths(patch) \/ ~Open(patch, q)
  <2>1. IsPrefix(p, q) /\ (IsDict(Reached(patch, p)) => p = q)
    BY <1>2, NodeIs DEF Replaces
  <2> QED
    BY <1>2, <2>1 DEF Open
<1>3. ASSUME NEW new, ValueNode(patch, new) \/ GapNode(patch, new) PROVE ~Replaces(new, node)
  <2>1. CASE ValueNode(patch, new)
    <3>1. PICK a, l, s : new.at = <<"values", a, l, s>>
      BY <2>1 DEF ValueNode
    <3> QED
      BY <3>1, MixedPrefix DEF Replaces
  <2>2. CASE GapNode(patch, new)
    <3>1. PICK a : new.at = <<"values", a>>
      BY <2>2 DEF GapNode
    <3> QED
      BY <3>1, MixedPrefix DEF Replaces
  <2> QED
    BY <1>3, <2>1, <2>2
<1>4. ASSUME ~Stays(patch, node) PROVE q \in Paths(patch) \/ ~Open(patch, q)
  <2>1. PICK new \in NodesOf(patch) : Replaces(new, node)
    BY <1>4 DEF Stays
  <2>2. OrdinaryNode(patch, new)
    BY <1>3, <2>1, NodesAre
  <2>3. PICK p \in Paths(patch) : Ordinary(p) /\ new = Node(patch, p)
    BY <2>2 DEF OrdinaryNode
  <2> QED
    BY <1>2, <2>1, <2>3
<1>5. ASSUME NEW p \in Paths(patch), Ordinary(p), Replaces(Node(patch, p), node)
      PROVE  ~Stays(patch, node)
  <2>1. Node(patch, p) \in NodesOf(patch)
    BY <1>5, NodesAre DEF OrdinaryNode
  <2> QED
    BY <1>5, <2>1 DEF Stays
<1>6. ASSUME q \in Paths(patch) PROVE ~Stays(patch, node)
  <2>1. IsPrefix(q, q)
    <3>1. \A i \in 1..Len(q) : q[i] = q[i]
      OBVIOUS
    <3>2. Len(q) <= Len(q)
      BY LenProperties
    <3> QED
      BY <3>1, <3>2, PrefixIs
  <2>2. Replaces(Node(patch, q), node)
    BY <2>1, NodeIs DEF Replaces
  <2> QED
    BY <1>5, <1>6, <2>2
<1>7. ASSUME ~Open(patch, q) PROVE ~Stays(patch, node)
  <2>1. PICK p \in Paths(patch) : IsPrefix(p, q) /\ ~IsDict(Reached(patch, p))
    BY <1>7 DEF Open
  <2>2. p # <<>>
    BY <2>1, ReachedStart DEF IsDict
  <2>3. Ordinary(p)
    BY <1>1, <2>1, <2>2, OrdinaryBefore
  <2>4. Replaces(Node(patch, p), node)
    BY <2>1, NodeIs DEF Replaces
  <2> QED
    BY <1>5, <2>1, <2>3, <2>4
<1> QED
  BY <1>4, <1>6, <1>7

\* A value stays just if the patch has no other, and lists of values if anything.
LEMMA ValueStays ==
  ASSUME NEW patch, IsDocument(patch), NEW a, NEW l, NEW s, NEW node,
         node.at = <<"values", a, l, s>>
  PROVE  Stays(patch, node) <=> ~Blocks(patch, a) /\ ~Has(patch, a, <<l, s>>)
<1>1. Paths(patch) \subseteq Seq(Names)
  BY PathsAre
<1>2. <<"values">> # <<"values", a, l, s>>
  OBVIOUS
<1>3. ASSUME NEW p \in Paths(patch), Ordinary(p), Replaces(Node(patch, p), node)
      PROVE  "values" \in DOMAIN patch /\ ~IsDict(Get(patch, "values"))
  <2>1. IsPrefix(p, <<"values", a, l, s>>) /\ (IsDict(Reached(patch, p)) => p = <<"values", a, l, s>>)
    BY <1>3, NodeIs DEF Replaces
  <2>2. p \in Seq(Names)
    BY <1>1
  <2>3. p = <<"values">>
    BY <1>3, <2>1, <2>2, MixedPrefix
  <2>4. ~IsDict(Reached(patch, <<"values">>))
    BY <1>2, <2>1, <2>3
  <2>5. "values" \in DOMAIN patch
    BY <2>3, ValuesAt
  <2> QED
    BY <2>4, <2>5, ValuesAt
<1>4. ASSUME NEW new, ValueNode(patch, new), Replaces(new, node)
      PROVE  Has(patch, a, <<l, s>>)
  <2>1. PICK b, m, t : Has(patch, b, <<m, t>>) /\ new.at = <<"values", b, m, t>>
    BY <1>4 DEF ValueNode
  <2>2. b = a /\ m = l /\ t = s
    <3>1. IsPrefix(<<"values", b, m, t>>, <<"values", a, l, s>>)
      BY <1>4, <2>1 DEF Replaces
    <3>2. IsPrefix(<<"values", b, m, t>>, <<"values", a, l, s>>) <=> b = a /\ m = l /\ t = s
      BY SamePrefix
    <3> QED
      BY <3>1, <3>2
  <2> QED
    BY <2>1, <2>2
<1>5. ASSUME NEW new, GapNode(patch, new), Replaces(new, node)
      PROVE  a \in DOMAIN ValuesOf(patch) /\ ~IsList(Get(ValuesOf(patch), a))
  <2>1. PICK b \in DOMAIN ValuesOf(patch) :
          ~IsList(ValuesOf(patch)[b]) /\ new.at = <<"values", b>>
    BY <1>5 DEF GapNode
  <2>2. b = a
    <3>1. IsPrefix(<<"values", b>>, <<"values", a, l, s>>)
      BY <1>5, <2>1 DEF Replaces
    <3>2. IsPrefix(<<"values", b>>, <<"values", a, l, s>>) <=> b = a
      BY GapPrefix
    <3> QED
      BY <3>1, <3>2
  <2> QED
    BY <2>1, <2>2 DEF Get
<1>6. ASSUME ~Stays(patch, node) PROVE Blocks(patch, a) \/ Has(patch, a, <<l, s>>)
  <2>1. PICK new \in NodesOf(patch) : Replaces(new, node)
    BY <1>6 DEF Stays
  <2>2. CASE OrdinaryNode(patch, new)
    <3>1. PICK p \in Paths(patch) : Ordinary(p) /\ new = Node(patch, p)
      BY <2>2 DEF OrdinaryNode
    <3> QED
      BY <1>3, <2>1, <3>1 DEF Blocks
  <2>3. CASE ValueNode(patch, new)
    BY <1>4, <2>1, <2>3
  <2>4. CASE GapNode(patch, new)
    BY <1>5, <2>1, <2>4 DEF Blocks
  <2> QED
    BY <2>1, <2>2, <2>3, <2>4, NodesAre
<1>7. ASSUME "values" \in DOMAIN patch, ~IsDict(Get(patch, "values")) PROVE ~Stays(patch, node)
  <2>1. <<"values">> \in Paths(patch) /\ ~IsDict(Reached(patch, <<"values">>))
    BY <1>7, ValuesAt
  <2>2. Node(patch, <<"values">>) \in NodesOf(patch)
    BY <2>1, NodesAre DEF OrdinaryNode, Ordinary
  <2>3. Replaces(Node(patch, <<"values">>), node)
    <3>1. IsPrefix(<<"values">>, <<"values", a, l, s>>)
      BY TopPrefix
    <3> QED
      BY <2>1, <3>1, NodeIs DEF Replaces
  <2> QED
    BY <2>2, <2>3 DEF Stays
<1>8. ASSUME a \in DOMAIN ValuesOf(patch), ~IsList(Get(ValuesOf(patch), a))
      PROVE  ~Stays(patch, node)
  <2> DEFINE new == [at |-> <<"values", a>>, is |-> JsonNull]
  <2>1. GapNode(patch, new)
    BY <1>8 DEF GapNode, Get
  <2>2. ~IsDict(new.is)
    BY DEF IsDict, JsonNull
  <2>3. new.at = <<"values", a>>
    OBVIOUS
  <2> HIDE DEF new
  <2>4. Replaces(new, node)
    <3>1. IsPrefix(<<"values", a>>, <<"values", a, l, s>>)
      BY GapPrefix
    <3> QED
      BY <2>2, <2>3, <3>1 DEF Replaces
  <2> QED
    BY <2>1, <2>4, NodesAre DEF Stays
<1>9. ASSUME Has(patch, a, <<l, s>>) PROVE ~Stays(patch, node)
  <2> DEFINE new == [at |-> <<"values", a, l, s>>,
                     is |-> Get(LastOf(Listed(patch, a), <<l, s>>).dict, "data")]
  <2>1. ValueNode(patch, new)
    BY <1>9 DEF ValueNode
  <2>2. new.at = <<"values", a, l, s>>
    OBVIOUS
  <2> HIDE DEF new
  <2>3. Replaces(new, node)
    <3>1. IsPrefix(<<"values", a, l, s>>, <<"values", a, l, s>>)
      BY SamePrefix
    <3> QED
      BY <2>2, <3>1 DEF Replaces
  <2> QED
    BY <2>1, <2>3, NodesAre DEF Stays
<1> QED
  BY <1>6, <1>7, <1>8, <1>9 DEF Blocks

\* The nodes of a patch are in the result.
LEMMA NamedNodes ==
  ASSUME NEW doc, NEW patch, NEW patched, NEW result, Patching(doc, patch, patched, result),
         NEW path \in Paths(patch), Ordinary(path)
  PROVE  path \in Paths(result) /\ Node(result, path) = Node(patch, path)
<1>1. Near(path)
  BY DEF Near, Ordinary
<1>2. path \in Paths(result)
  BY <1>1, PathsStay
<1>3. AsNamed(doc, patch, patched, result, path)
  BY <1>1, AllNamed
<1>4. CASE Meet(doc, patch, path)
  <2>1. IsDict(Reached(result, path)) /\ IsDict(Reached(patch, path))
    BY <1>3, <1>4 DEF AsNamed, Meet
  <2> QED
    BY <1>2, <2>1 DEF Node
<1>5. CASE ~Meet(doc, patch, path)
  BY <1>2, <1>3, <1>5 DEF AsNamed, Node
<1> QED
  BY <1>4, <1>5

\* The nodes of the document that nothing takes the place of are in it.
LEMMA KeptNodes ==
  ASSUME NEW doc, NEW patch, NEW patched, NEW result, Patching(doc, patch, patched, result),
         NEW path \in Paths(doc), Ordinary(path), path \notin Paths(patch), Open(patch, path)
  PROVE  path \in Paths(result) /\ Node(result, path) = Node(doc, path)
<1>1. Near(path)
  BY DEF Near, Ordinary
<1>2. path \in Paths(result)
  BY <1>1, PathsStay
<1>3. Reached(result, path) = Reached(doc, path)
  BY <1>1, AllKept
<1> QED
  BY <1>2, <1>3 DEF Node

\* A node that is no value is in the result just if it is in the patch, or in the document
\* and stays.
LEMMA OrdinaryPatched ==
  ASSUME NEW doc, NEW patch, NEW patched, NEW result, Patching(doc, patch, patched, result),
         NEW node
  PROVE  OrdinaryNode(result, node) <=>
           OrdinaryNode(patch, node) \/ (OrdinaryNode(doc, node) /\ Stays(patch, node))
<1>1. IsDocument(doc) /\ IsDocument(patch) /\ IsDocument(result)
  BY DEF Patching
<1>2. Paths(doc) \subseteq Seq(Names)
  BY <1>1, PathsAre
<1>3. ASSUME NEW path \in Paths(doc), Ordinary(path), node = Node(doc, path)
      PROVE  Stays(patch, node) <=> path \notin Paths(patch) /\ Open(patch, path)
  <2>1. node.at = path /\ path \in Seq(Names)
    BY <1>2, <1>3, NodeIs
  <2> QED
    BY <1>1, <1>3, <2>1, OrdinaryStays
<1>4. ASSUME OrdinaryNode(patch, node) PROVE OrdinaryNode(result, node)
  <2>1. PICK path \in Paths(patch) : Ordinary(path) /\ node = Node(patch, path)
    BY <1>4 DEF OrdinaryNode
  <2>2. path \in Paths(result) /\ Node(result, path) = Node(patch, path)
    BY <2>1, NamedNodes
  <2> QED
    BY <2>1, <2>2 DEF OrdinaryNode
<1>5. ASSUME OrdinaryNode(doc, node), Stays(patch, node) PROVE OrdinaryNode(result, node)
  <2>1. PICK path \in Paths(doc) : Ordinary(path) /\ node = Node(doc, path)
    BY <1>5 DEF OrdinaryNode
  <2>2. path \notin Paths(patch) /\ Open(patch, path)
    BY <1>3, <1>5, <2>1
  <2>3. path \in Paths(result) /\ Node(result, path) = Node(doc, path)
    BY <2>1, <2>2, KeptNodes
  <2> QED
    BY <2>1, <2>3 DEF OrdinaryNode
<1>6. ASSUME OrdinaryNode(result, node)
      PROVE  OrdinaryNode(patch, node) \/ (OrdinaryNode(doc, node) /\ Stays(patch, node))
  <2>1. PICK path \in Paths(result) : Ordinary(path) /\ node = Node(result, path)
    BY <1>6 DEF OrdinaryNode
  <2>2. path \in Paths(patch) \/ (path \in Paths(doc) /\ Open(patch, path))
    <3>1. Near(path)
      BY <2>1 DEF Near, Ordinary
    <3> QED
      BY <3>1, NoOtherPaths
  <2>3. CASE path \in Paths(patch)
    <3>1. node = Node(patch, path)
      BY <2>1, <2>3, NamedNodes
    <3> QED
      BY <2>1, <2>3, <3>1 DEF OrdinaryNode
  <2>4. CASE path \notin Paths(patch)
    <3>1. path \in Paths(doc) /\ Open(patch, path)
      BY <2>2, <2>4
    <3>2. node = Node(doc, path)
      BY <2>1, <2>4, <3>1, KeptNodes
    <3>3. Stays(patch, node)
      BY <1>3, <2>1, <2>4, <3>1, <3>2
    <3> QED
      BY <2>1, <3>1, <3>2, <3>3 DEF OrdinaryNode
  <2> QED
    BY <2>3, <2>4
<1> QED
  BY <1>4, <1>5, <1>6

\* The same of values.
LEMMA ValuePatched ==
  ASSUME NEW doc, NEW patch, NEW patched, NEW result, Patching(doc, patch, patched, result),
         ~CannotIndex(doc), ~CannotIndex(patch), NEW node
  PROVE  ValueNode(result, node) <=>
           ValueNode(patch, node) \/ (ValueNode(doc, node) /\ Stays(patch, node))
<1> DEFINE Value(x, a, key) == Get(LastOf(Listed(x, a), key).dict, "data")
           At(a, l, s, v) == [at |-> <<"values", a, l, s>>, is |-> v]
<1>1. IsDocument(patch)
  BY DEF Patching
<1>2. \A x : ValueNode(x, node) <=>
        \E a, l, s : Has(x, a, <<l, s>>) /\ node = At(a, l, s, Value(x, a, <<l, s>>))
  BY DEF ValueNode
<1>3. \A a, l, s, v : node = At(a, l, s, v) =>
        (Stays(patch, node) <=> ~Blocks(patch, a) /\ ~Has(patch, a, <<l, s>>))
  <2>1. ASSUME NEW a, NEW l, NEW s, NEW v, node = At(a, l, s, v)
        PROVE  Stays(patch, node) <=> ~Blocks(patch, a) /\ ~Has(patch, a, <<l, s>>)
    <3>1. node.at = <<"values", a, l, s>>
      BY <2>1
    <3> QED
      BY <1>1, <3>1, ValueStays
  <2> QED
    BY <2>1
<1>4. \A a, key :
        /\ Has(result, a, key) <=> Has(patch, a, key) \/ (Has(doc, a, key) /\ ~Blocks(patch, a))
        /\ Has(patch, a, key) => Value(result, a, key) = Value(patch, a, key)
        /\ Has(result, a, key) /\ ~Has(patch, a, key) => Value(result, a, key) = Value(doc, a, key)
  BY ValuesPatched
<1> HIDE DEF Value, At
<1>5. ASSUME ValueNode(result, node)
      PROVE  ValueNode(patch, node) \/ (ValueNode(doc, node) /\ Stays(patch, node))
  <2>1. PICK a, l, s : Has(result, a, <<l, s>>) /\ node = At(a, l, s, Value(result, a, <<l, s>>))
    BY <1>2, <1>5
  <2>2. CASE Has(patch, a, <<l, s>>)
    BY <1>2, <1>4, <2>1, <2>2
  <2>3. CASE ~Has(patch, a, <<l, s>>)
    <3>1. /\ Has(doc, a, <<l, s>>) /\ ~Blocks(patch, a)
          /\ Value(result, a, <<l, s>>) = Value(doc, a, <<l, s>>)
      BY <1>4, <2>1, <2>3
    <3>2. Stays(patch, node)
      BY <1>3, <2>1, <2>3, <3>1
    <3>3. ValueNode(doc, node)
      BY <1>2, <2>1, <3>1
    <3> QED
      BY <3>2, <3>3
  <2> QED
    BY <2>2, <2>3
<1>6. ASSUME ValueNode(patch, node) PROVE ValueNode(result, node)
  <2>1. PICK a, l, s : Has(patch, a, <<l, s>>) /\ node = At(a, l, s, Value(patch, a, <<l, s>>))
    BY <1>2, <1>6
  <2>2. Has(result, a, <<l, s>>) /\ Value(result, a, <<l, s>>) = Value(patch, a, <<l, s>>)
    BY <1>4, <2>1
  <2> QED
    BY <1>2, <2>1, <2>2
<1>7. ASSUME ValueNode(doc, node), Stays(patch, node) PROVE ValueNode(result, node)
  <2>1. PICK a, l, s : Has(doc, a, <<l, s>>) /\ node = At(a, l, s, Value(doc, a, <<l, s>>))
    BY <1>2, <1>7
  <2>2. ~Blocks(patch, a) /\ ~Has(patch, a, <<l, s>>)
    BY <1>3, <1>7, <2>1
  <2>3. Has(result, a, <<l, s>>) /\ Value(result, a, <<l, s>>) = Value(doc, a, <<l, s>>)
    BY <1>4, <2>1, <2>2
  <2> QED
    BY <1>2, <2>1, <2>3
<1> QED
  BY <1>5, <1>6, <1>7

\* What PATCH makes of a document has the nodes that the patch has, and those of the
\* document that nothing in the patch takes the place of.
LEMMA PatchSets ==
  ASSUME NEW doc, IsDocument(doc), NEW patch, IsDocument(patch), ~MergesFurtherDown(doc, patch),
         ~CannotIndex(doc), ~CannotIndex(patch), NEW node, node.is # JsonNull
  PROVE  node \in NodesOf(ApplyPatch(doc, patch)) <=>
           node \in NodesOf(patch) \/ (node \in NodesOf(doc) /\ Stays(patch, node))
<1> DEFINE result == ApplyPatch(doc, patch)
<1>1. PICK patched : /\ \A path \in Seq(Names) : patched[path] = PatchedAt(doc, patch, patched, path)
                     /\ result = patched[<<>>]
  BY PatchedIs
<1>2. IsDocument(result)
  BY PatchedDocument
<1> HIDE DEF result
<1>3. Patching(doc, patch, patched, result)
  BY <1>1, <1>2, ReachedStart DEF Patching, Makes
<1>4. \A x : node \in NodesOf(x) <=> OrdinaryNode(x, node) \/ ValueNode(x, node)
  BY NodesAre DEF GapNode
<1>5. OrdinaryNode(result, node) <=>
        OrdinaryNode(patch, node) \/ (OrdinaryNode(doc, node) /\ Stays(patch, node))
  BY <1>3, OrdinaryPatched
<1>6. ValueNode(result, node) <=>
        ValueNode(patch, node) \/ (ValueNode(doc, node) /\ Stays(patch, node))
  BY <1>3, ValuePatched
<1> QED
  BY <1>4, <1>5, <1>6 DEF result

----------------------------------------------------------------------------
(* What is stored.                                                         *)

\* A document without some of its keys is a document.
LEMMA StoredDocument ==
  ASSUME NEW doc, IsDocument(doc)
  PROVE  IsDocument(Stored(doc))
<1> DEFINE kept == Stored(doc)
           P == {path \in Paths(doc) : path # <<>> => Reached(kept, path) = Reached(doc, path)}
<1>1. /\ <<>> \in Paths(doc) /\ Paths(doc) \subseteq Seq(Names)
      /\ \A path \in Paths(doc) : \A key \in DOMAIN DictOf(Reached(doc, path)) :
           key \in Names /\ Append(path, key) \in Paths(doc)
  BY PathsAre
<1>2. \A key \in DOMAIN kept : key \in DOMAIN doc /\ kept[key] = doc[key]
  BY DEF Stored
<1>3. \A x : Reached(x, <<>>) = [dict |-> x] /\ DictOf(Reached(x, <<>>)) = x
  BY ReachedStart DEF DictOf, IsDict
<1>4. <<>> \in Seq(Names)
  BY <1>1
<1> HIDE DEF kept
<1>5. ASSUME NEW key \in DOMAIN kept PROVE Append(<<>>, key) \in P
  <2>1. key \in DOMAIN doc /\ kept[key] = doc[key]
    BY <1>2
  <2>2. key \in DOMAIN DictOf(Reached(doc, <<>>))
    BY <1>3, <2>1
  <2>3. key \in Names /\ Append(<<>>, key) \in Paths(doc)
    BY <1>1, <2>2
  <2>4. /\ Reached(kept, Append(<<>>, key)) = Get(DictOf(Reached(kept, <<>>)), key)
        /\ Reached(doc, Append(<<>>, key)) = Get(DictOf(Reached(doc, <<>>)), key)
    BY <1>4, <2>3, ReachedNext
  <2>5. Get(kept, key) = Get(doc, key)
    BY <2>1 DEF Get
  <2> QED
    BY <1>3, <2>3, <2>4, <2>5
<1>6. ASSUME NEW path \in P, path # <<>>, NEW key \in DOMAIN DictOf(Reached(kept, path))
      PROVE  Append(path, key) \in P
  <2>1. path \in Paths(doc) /\ Reached(kept, path) = Reached(doc, path)
    BY <1>6
  <2>2. key \in DOMAIN DictOf(Reached(doc, path))
    BY <2>1
  <2>3. key \in Names /\ Append(path, key) \in Paths(doc)
    BY <1>1, <2>1, <2>2
  <2>4. path \in Seq(Names)
    BY <1>1, <2>1
  <2>5. Reached(kept, Append(path, key)) = Reached(doc, Append(path, key))
    BY <2>1, <2>3, <2>4, SameNext
  <2> QED
    BY <2>3, <2>5
<1>7. <<>> \in P
  BY <1>1
<1>8. \A path \in Paths(kept) \cap P : \A key \in DOMAIN DictOf(Reached(kept, path)) :
        Append(path, key) \in P
  <2> SUFFICES ASSUME NEW path \in Paths(kept) \cap P, NEW key \in DOMAIN DictOf(Reached(kept, path))
               PROVE  Append(path, key) \in P
    OBVIOUS
  <2>1. CASE path = <<>>
    <3>1. key \in DOMAIN kept
      BY <1>3, <2>1
    <3> QED
      BY <1>5, <2>1, <3>1
  <2>2. CASE path # <<>>
    BY <1>6, <2>2
  <2> QED
    BY <2>1, <2>2
<1>9. Paths(kept) \subseteq P
  <2> HIDE DEF P
  <2> QED
    BY <1>7, <1>8, PathInduction
<1>10. ASSUME NEW path \in Paths(kept)
       PROVE  /\ path \in Seq(Names)
              /\ IsDict(Reached(kept, path)) => Len(path) < MaxDepth
              /\ IsList(Reached(kept, path)) =>
                   Reached(kept, path).list \in Seq(ToSet(Reached(kept, path).list))
  <2>1. path \in Paths(doc) /\ (path # <<>> => Reached(kept, path) = Reached(doc, path))
    BY <1>9
  <2>2. CASE path = <<>>
    <3>1. Len(path) < MaxDepth
      BY <2>2, ContentsAssumption
    <3>2. ~IsList(Reached(kept, path))
      BY <1>3, <2>2 DEF IsList
    <3> QED
      BY <1>4, <2>2, <3>1, <3>2
  <2>3. CASE path # <<>>
    <3>1. Reached(kept, path) = Reached(doc, path)
      BY <2>1, <2>3
    <3> QED
      BY <1>1, <2>1, <3>1 DEF IsDocument
  <2> QED
    BY <2>2, <2>3
<1> QED
  BY <1>10 DEF IsDocument, kept

\* What is stored is a document, since bodies of requests are, and what PATCH makes of them.
DocumentsStored ==
  /\ kind \in Kinds
  /\ \A doc \in stored : IsDocument(doc)

\* Every step keeps this.
LEMMA StoredStep ==
  ASSUME DocumentsStored, [ContentsNext]_contentsVars
  PROVE  DocumentsStored'
<1>1. \A body \in Payloads[kind] : IsDocument(body) /\ IsDocument(Stored(body))
  BY ContentsAssumption, StoredDocument DEF DocumentsStored
<1>2. kind' = kind
  BY DEF ContentsNext, contentsVars, Subscribe, Create, PatchMissing, PatchItem, Delete, Deliver,
         Lose, Announce
<1>3. ASSUME NEW body \in Payloads[kind], Create(body) \/ PatchMissing(body)
      PROVE  \A doc \in stored' : IsDocument(doc)
  BY <1>1, <1>3 DEF Create, PatchMissing
<1>4. ASSUME NEW patch \in Payloads[kind], PatchItem(patch)
      PROVE  \A doc \in stored' : IsDocument(doc)
  <2>1. PICK existing \in stored : stored' = {Stored(ApplyPatch(existing, patch))}
    BY <1>4 DEF PatchItem
  <2>2. IsDocument(ApplyPatch(existing, patch))
    BY <1>1, PatchedDocument DEF DocumentsStored
  <2> QED
    BY <2>1, <2>2, StoredDocument
<1>5. ASSUME Delete PROVE stored' = {}
  BY <1>5 DEF Delete
<1>6. CASE UNCHANGED stored
  BY <1>2, <1>6 DEF DocumentsStored
<1>7. ASSUME ContentsNext, ~UNCHANGED stored
      PROVE  \/ \E body \in Payloads[kind] : Create(body) \/ PatchMissing(body) \/ PatchItem(body)
             \/ Delete
  BY <1>7 DEF ContentsNext, Subscribe, Deliver, Lose
<1>8. CASE ContentsNext /\ ~UNCHANGED stored
  BY <1>2, <1>3, <1>4, <1>5, <1>7, <1>8 DEF DocumentsStored
<1> QED
  BY <1>6, <1>8 DEF contentsVars

\* PATCH sets just what it names, at any depth, and merges the values of an attribute by
\* locale and scope: for all documents and all patches.
THEOREM PatchesMean == ContentsSpec => []PatchMeans
<1>1. ContentsInit => DocumentsStored
  BY DEF ContentsInit, DocumentsStored
<1>2. DocumentsStored /\ [ContentsNext]_contentsVars => DocumentsStored'
  BY StoredStep
<1>3. DocumentsStored => PatchMeans
  <2> SUFFICES ASSUME DocumentsStored, NEW doc \in stored, NEW patch \in Payloads[kind],
                      ~MergesFurtherDown(doc, patch), ~CannotIndex(doc), ~CannotIndex(patch)
               PROVE  LET named == NodesOf(patch)
                          kept == {old \in NodesOf(doc) : ~\E new \in named : Replaces(new, old)}
                          Told(nodes) == {node \in nodes : node.is # JsonNull} IN
                      Told(NodesOf(ApplyPatch(doc, patch))) = Told(kept \cup named)
    BY DEF PatchMeans
  <2>1. IsDocument(doc) /\ IsDocument(patch)
    BY ContentsAssumption DEF DocumentsStored
  <2>2. ASSUME NEW node, node.is # JsonNull
        PROVE  node \in NodesOf(ApplyPatch(doc, patch)) <=>
                 \/ node \in NodesOf(doc) /\ ~\E new \in NodesOf(patch) : Replaces(new, node)
                 \/ node \in NodesOf(patch)
    BY <2>1, <2>2, PatchSets DEF Stays
  <2> QED
    BY <2>2
<1> QED
  BY <1>1, <1>2, <1>3, PTL DEF ContentsSpec

=============================================================================
