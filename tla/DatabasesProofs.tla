-------------------------- MODULE DatabasesProofs --------------------------
(***************************************************************************)
(* Proofs about Databases, for any number of requests, databases, pools,   *)
(* threads and connections.                                                *)
(***************************************************************************)
EXTENDS Databases, TLAPS

\* The stages in which get_db holds a pool.
Holding == {"publish", "publish_url", "connect", "handler", "work", "exit", "leave"}

\* A request that is under way has a database, and in those stages a pool.
RequestsFit ==
  \A r \in Requests :
    /\ pc[r] # "idle" => req[r] # Null
    /\ pc[r] \in Holding => local[r] # Null

\* No pool is collected that a dictionary or a request refers to.
ReferencedIsAlive ==
  /\ \A d \in Databases : pool[d] # Null => Alive(pool[d])
  /\ \A r \in Requests : local[r] # Null => Alive(local[r])

\* A pool that a request is about to store is open and nobody else's.
NewIsOpen ==
  \A r \in Requests : pc[r] = "publish" =>
    /\ pools[local[r]].open
    /\ \A d \in Databases : pool[d] # local[r]
    /\ \A q \in Requests \ {r} : local[q] # local[r]

\* No pool is registered for two databases.
OnePlace ==
  \A d, e \in Databases : pool[d] # Null /\ pool[d] = pool[e] => d = e

\* A database without tables, or one that is known and gone, has been hurt.
BareIsHurt ==
  \A d \in Databases :
    /\ content[d] = "bare" => d \in hurt
    /\ d \in known /\ content[d] = "none" => d \in hurt

\* What the types need to be inductive; what the dictionary needs.
TInv == TypeOK /\ RequestsFit /\ ReferencedIsAlive
PInv == TInv /\ NewIsOpen /\ OnePlace /\ RegisteredIsOpen

----------------------------------------------------------------------------
(* The operators over pools and records. *)

PoolMap == [Pools -> PoolObject \cup {Null}]

\* Collecting unreferenced pools leaves those that are referenced as they were.
LEMMA SweptKeeps ==
  ASSUME NEW ps \in PoolMap, NEW registered, NEW used
  PROVE  /\ Swept(ps, registered, used) \in PoolMap
         /\ \A p \in Pools : Swept(ps, registered, used)[p] \in {ps[p], Null}
         /\ \A d \in Databases : registered[d] \in Pools =>
              Swept(ps, registered, used)[registered[d]] = ps[registered[d]]
         /\ \A r \in Requests : used[r] \in Pools =>
              Swept(ps, registered, used)[used[r]] = ps[used[r]]
BY DEF Swept, PoolMap

\* Closing, terminating and using connections keeps the pools that there are.
SamePools(ps, qs) ==
  /\ qs \in PoolMap
  /\ \A p \in Pools : qs[p] = Null <=> ps[p] = Null
  /\ \A p \in Pools : ps[p] # Null => qs[p].db = ps[p].db

\* Closing pools keeps them and their databases, and leaves the others as they were.
LEMMA ClosedKeeps ==
  ASSUME pools \in PoolMap, Null \notin PoolObject, NEW P \in SUBSET Pools,
         \A p \in P : Alive(p)
  PROVE  /\ SamePools(pools, Closed(P))
         /\ \A p \in Pools : Closed(P)[p] # Null /\ p \notin P => Closed(P)[p] = pools[p]
         /\ \A p \in P : ~Closed(P)[p].open
BY DEF Closed, PoolMap, PoolObject, Alive, SamePools

\* Terminating sessions leaves pools open or closed as they were.
LEMMA TerminatedKeeps ==
  ASSUME Null \notin PoolObject, NEW ps \in PoolMap, NEW D
  PROVE  /\ SamePools(ps, Terminated(D, ps))
         /\ \A p \in Pools : ps[p] # Null => Terminated(D, ps)[p].open = ps[p].open
<1> DEFINE qs == Terminated(D, ps)
<1>1. ASSUME NEW p \in Pools
      PROVE  /\ qs[p] \in PoolObject \cup {Null}
             /\ qs[p] = Null <=> ps[p] = Null
             /\ ps[p] # Null => qs[p].db = ps[p].db /\ qs[p].open = ps[p].open
  <2>1. CASE qs[p] = ps[p]
    BY <2>1 DEF PoolMap
  <2>2. CASE ps[p] # Null /\ qs[p] = [ps[p] EXCEPT !.idle = "broken"]
    BY <2>2 DEF PoolMap, PoolObject
  <2>3. QED
    BY <2>1, <2>2 DEF Terminated
<1>2. qs \in PoolMap
  BY <1>1 DEF PoolMap, Terminated
<1>3. QED
  BY <1>1, <1>2 DEF SamePools

\* So does putting the idle connection of a pool to use, or back.
LEMMA IdleKeeps ==
  ASSUME pools \in PoolMap, Null \notin PoolObject, NEW p \in Pools, Alive(p),
         NEW idle \in {"none", "live", "broken"}
  PROVE  /\ SamePools(pools, [pools EXCEPT ![p].idle = idle])
         /\ \A q \in Pools : pools[q] # Null =>
              [pools EXCEPT ![p].idle = idle][q].open = pools[q].open
BY DEF PoolMap, PoolObject, SamePools, Alive

\* And so does writing down who made a pool.
LEMMA RacedKeeps ==
  ASSUME pools \in PoolMap, Null \notin PoolObject, NEW p \in Pools, Alive(p),
         NEW raced \in BOOLEAN
  PROVE  /\ SamePools(pools, [pools EXCEPT ![p].raced = raced])
         /\ \A q \in Pools : pools[q] # Null =>
              [pools EXCEPT ![p].raced = raced][q].open = pools[q].open
BY DEF PoolMap, PoolObject, SamePools, Alive

\* What an administrative request is answered.
Codes == {0, 200, 400, 404, 500}

\* An administrative request stays one when it goes to its next step,
LEMMA StepKeeps ==
  ASSUME NEW a \in Administration, NEW step \in Steps
  PROVE  [a EXCEPT !.step = step] \in Administration
BY DEF Administration

\* and when it gets its answer.
LEMMA CodeKeeps ==
  ASSUME NEW a \in Administration, NEW code \in Codes
  PROVE  [a EXCEPT !.code = code] \in Administration
BY DEF Administration, Codes

\* It stays one when the walk has closed another pool.
LEMMA SeenKeeps ==
  ASSUME NEW a \in Administration, NEW keys \in SUBSET Databases, NEW seen \in SUBSET Databases
  PROVE  [a EXCEPT !.step = "close_next", !.keys = keys, !.seen = seen] \in Administration
BY DEF Administration, Steps

\* Closing the pool of a database, if it has one, changes no other.
LEMMA RegisteredKeeps ==
  ASSUME TInv, NEW d \in Databases
  PROVE  /\ SamePools(pools, Closed({pool[d]}))
         /\ \A p \in Pools : p # pool[d] => Closed({pool[d]})[p] = pools[p]
<1>0. pools \in PoolMap /\ Null \notin PoolObject /\ Null \notin Pools
  BY DatabasesAssumption DEF TInv, TypeOK, PoolMap
<1>1. CASE pool[d] = Null
  BY <1>0, <1>1 DEF Closed, SamePools, PoolMap
<1>2. CASE pool[d] # Null
  <2>1. pool[d] \in Pools /\ Alive(pool[d])
    BY <1>2 DEF TInv, TypeOK, ReferencedIsAlive
  <2>2. SamePools(pools, Closed({pool[d]}))
    BY <1>0, <2>1, ClosedKeeps
  <2>3. QED
    BY <2>2 DEF Closed
<1>3. QED
  BY <1>1, <1>2

----------------------------------------------------------------------------
(* The walk of close_db_pool. *)

\* A step of the walk that finds the dictionary as large as it was, and one that does not.
Walks == DestroyCloseAll \/ (DestroyCloseNext /\ Registered = admin.keys)
Stops == DestroyCloseNext /\ Registered # admin.keys

\* What one step of the walk does.
WalkDoes(d) ==
  /\ pools' = Closed({pool[d]}) /\ admin'.step = "close_next" /\ d \in admin'.seen
  /\ admin.step = "close_next" => admin.seen \subseteq admin'.seen

\* It closes one pool or comes to the end, and disturbs everyone.
LEMMA WalkStep ==
  ASSUME TInv, Walks
  PROVE  /\ admin # Null /\ admin.op = "destroy" /\ admin.step \in {"close_all", "close_next"}
         /\ admin' \in Administration /\ admin' # Null /\ admin'.op = "destroy"
         /\ admin'.code = admin.code
         /\ disturbed' = disturbed \cup On(Databases, {})
         /\ \/ admin'.step = "forget" /\ pools' = pools
            \/ \E d \in Databases : WalkDoes(d)
         /\ UNCHANGED <<dicts, Requesting, conn, hurt, touched, stranded, count>>
<1>1. admin \in Administration /\ admin # Null /\ admin.op = "destroy"
      /\ admin.step \in {"close_all", "close_next"}
  BY DEF Walks, DestroyCloseAll, DestroyCloseNext, AdminAt, TInv, TypeOK
<1>2. UNCHANGED <<dicts, Requesting, conn, hurt, touched, stranded, count>>
  BY DEF Walks, DestroyCloseAll, DestroyCloseNext
<1>3. PICK keys \in SUBSET Databases, seen \in SUBSET Databases :
        Visit(keys, seen) /\ (admin.step = "close_next" => seen = admin.seen)
  <2>1. CASE DestroyCloseAll
    BY <2>1 DEF DestroyCloseAll, AdminAt, Registered
  <2>2. CASE DestroyCloseNext /\ Registered = admin.keys
    BY <1>1, <2>2 DEF DestroyCloseNext, Administration
  <2>3. QED
    BY <2>1, <2>2 DEF Walks
<1>4. disturbed' = disturbed \cup On(Databases, {})
  BY <1>3 DEF Visit
<1>5. Null \notin Administration /\ "forget" \in Steps
  BY DatabasesAssumption DEF Steps
<1>6. CASE Go("forget") /\ UNCHANGED pools
  <2>1. admin' = [admin EXCEPT !.step = "forget"]
    BY <1>6 DEF Go
  <2>2. admin' \in Administration
    BY <1>1, <1>5, <2>1, StepKeeps
  <2>3. admin'.op = "destroy" /\ admin'.step = "forget" /\ admin'.code = admin.code
    BY <1>1, <2>1 DEF Administration
  <2>4. QED
    BY <1>1, <1>2, <1>4, <1>5, <1>6, <2>2, <2>3
<1>7. CASE \E d \in keys \ seen :
             /\ pools' = Closed({pool[d]})
             /\ admin' = [admin EXCEPT !.step = "close_next", !.keys = keys, !.seen = seen \cup {d}]
  <2>1. PICK d \in keys \ seen :
          /\ pools' = Closed({pool[d]})
          /\ admin' = [admin EXCEPT !.step = "close_next", !.keys = keys, !.seen = seen \cup {d}]
    BY <1>7
  <2>2. d \in Databases /\ seen \cup {d} \in SUBSET Databases
    OBVIOUS
  <2>3. admin' \in Administration
    BY <1>1, <2>1, <2>2, SeenKeeps
  <2>4. /\ admin'.op = "destroy" /\ admin'.step = "close_next" /\ admin'.seen = seen \cup {d}
        /\ admin'.code = admin.code
    BY <1>1, <2>1 DEF Administration
  <2>5. WalkDoes(d)
    BY <1>3, <2>1, <2>4 DEF WalkDoes
  <2>6. QED
    BY <1>1, <1>2, <1>4, <1>5, <2>2, <2>3, <2>4, <2>5
<1>8. QED
  BY <1>3, <1>6, <1>7 DEF Visit

\* It keeps the pools that there are, and what is being taken out stays so.
LEMMA WalkKeeps ==
  ASSUME TInv, Walks
  PROVE  /\ SamePools(pools, pools')
         /\ \A e \in Databases : Leaving(e) => Leaving(e)'
         /\ \A p \in Pools : pools'[p] = pools[p] \/ \E e \in Databases : pool[e] = p /\ Leaving(e)'
<1>0. pools \in PoolMap
  BY DEF TInv, TypeOK, PoolMap
<1>1. /\ admin # Null /\ admin.op = "destroy" /\ admin.step \in {"close_all", "close_next"}
      /\ admin' # Null /\ admin'.op = "destroy"
      /\ (admin'.step = "forget" /\ pools' = pools) \/ \E d \in Databases : WalkDoes(d)
  BY WalkStep
<1>2. CASE admin'.step = "forget" /\ pools' = pools
  BY <1>0, <1>1, <1>2 DEF SamePools, Leaving, AdminAt
<1>3. ASSUME NEW d \in Databases, WalkDoes(d)
      PROVE  /\ SamePools(pools, pools')
             /\ \A e \in Databases : Leaving(e) => Leaving(e)'
             /\ \A p \in Pools : pools'[p] = pools[p] \/ \E e \in Databases : pool[e] = p /\ Leaving(e)'
  <2>1. SamePools(pools, pools') /\ \A p \in Pools : p # pool[d] => pools'[p] = pools[p]
    BY <1>3, RegisteredKeeps DEF WalkDoes
  <2>2. Leaving(d)' /\ \A e \in Databases : Leaving(e) => Leaving(e)'
    BY <1>1, <1>3 DEF WalkDoes, Leaving, AdminAt
  <2>3. QED
    BY <2>1, <2>2
<1>4. QED
  BY <1>1, <1>2, <1>3

----------------------------------------------------------------------------
(* Type correctness. *)

\* At the start everything is well typed.
LEMMA TypeInit == Init => TInv
BY DatabasesAssumption
   DEF Init, TInv, TypeOK, RequestsFit, ReferencedIsAlive, Alive, Stages, InGetDb, Replies,
       PoolErrors, Holding

\* Every step keeps the types, gives a request what its stage needs, and collects no pool
\* that is referred to: one step of the proof per action.
LEMMA TypeStep == TInv /\ [Next]_vars => TInv'
<1> SUFFICES ASSUME TInv, [Next]_vars PROVE TInv'
  OBVIOUS
<1> USE DatabasesAssumption DEF TInv, dicts, history, Step, Db, Requesting
<1>0. pools \in PoolMap /\ Null \notin PoolObject
  BY DEF TypeOK, PoolMap
<1>a. ASSUME SamePools(pools, pools'), UNCHANGED <<pool, local>> PROVE ReferencedIsAlive' /\ pools' \in PoolMap
  BY <1>0, <1>a DEF SamePools, ReferencedIsAlive, Alive, TypeOK
<1>b. ASSUME NEW ps \in PoolMap, pools' = Swept(ps, pool', local'),
             \A p \in Pools : pools[p] # Null => ps[p] # Null,
             \A d \in Databases : pool'[d] # Null => pool'[d] \in Pools /\ pools[pool'[d]] # Null,
             \A r \in Requests : local'[r] # Null => local'[r] \in Pools /\ pools[local'[r]] # Null
      PROVE  ReferencedIsAlive' /\ pools' \in PoolMap
  <2>1. pools' \in PoolMap
    BY <1>b, SweptKeeps
  <2>2. ASSUME NEW d \in Databases, pool'[d] # Null PROVE pools'[pool'[d]] # Null
    BY <1>b, <2>2, SweptKeeps
  <2>3. ASSUME NEW r \in Requests, local'[r] # Null PROVE pools'[local'[r]] # Null
    BY <1>b, <2>3, SweptKeeps
  <2>4. QED
    BY <2>1, <2>2, <2>3 DEF ReferencedIsAlive, Alive
<1>c. ASSUME admin # Null, NEW step \in Steps, Go(step) PROVE admin' \in Administration
  BY <1>c, StepKeeps DEF Go, TypeOK
<1>d. ASSUME admin # Null, NEW code \in Codes, Done(code) PROVE admin' \in Administration
  <2> DEFINE a == [admin EXCEPT !.step = "done"]
  <2>1. admin \in Administration /\ "done" \in Steps
    BY <1>d DEF TypeOK, Steps
  <2>2. a \in Administration
    BY <2>1, StepKeeps
  <2>3. admin' = [a EXCEPT !.code = code]
    BY <1>d DEF Done
  <2> HIDE DEF a
  <2>4. QED
    BY <1>d, <2>2, <2>3, CodeKeeps
<1>e. ASSUME NEW r \in Requests, NEW why \in Replies, pc[r] # "idle", Fail(r, why) PROVE TInv'
  <2>1. local' = [local EXCEPT ![r] = Null] /\ pools' = Swept(pools, pool', local')
    BY <1>e DEF Fail
  <2>2. ReferencedIsAlive' /\ pools' \in PoolMap
    <3>1. pool' = pool
      BY <1>e DEF Fail
    <3>2. \A d \in Databases : pool'[d] # Null => pool'[d] \in Pools /\ pools[pool'[d]] # Null
      BY <3>1 DEF TypeOK, ReferencedIsAlive, Alive
    <3>3. \A q \in Requests : local'[q] # Null => local'[q] \in Pools /\ pools[local'[q]] # Null
      BY <2>1 DEF TypeOK, ReferencedIsAlive, Alive
    <3>4. QED
      BY <1>0, <1>b, <2>1, <3>2, <3>3
  <2>3. TypeOK'
    BY <1>e, <2>2 DEF Fail, TypeOK, PoolMap, Stages, InGetDb
  <2>4. RequestsFit'
    BY <1>e DEF Fail, TypeOK, RequestsFit, Holding
  <2>5. QED
    BY <2>2, <2>3, <2>4
<1>1. ASSUME NEW r \in Requests, NEW c \in Calls, Receive(r, c[1], c[2]) PROVE TInv'
  <2>1. TypeOK'
    BY <1>1 DEF Receive, TypeOK, Stages, InGetDb, Received, On
  <2>2. RequestsFit'
    BY <1>1 DEF Receive, TypeOK, RequestsFit, Holding, Received, On
  <2>3. ReferencedIsAlive'
    BY <1>1 DEF Receive, ReferencedIsAlive, Alive, TypeOK, Received, On
  <2>4. QED
    BY <2>1, <2>2, <2>3
<1>2. ASSUME NEW r \in Requests, Look(r) PROVE TInv'
  <2>1. TypeOK'
    BY <1>2 DEF Look, TypeOK, Stages, InGetDb, On
  <2>2. RequestsFit'
    BY <1>2 DEF Look, TypeOK, RequestsFit, Holding, On
  <2>3. ReferencedIsAlive'
    BY <1>2 DEF Look, ReferencedIsAlive, Alive, TypeOK, On
  <2>4. QED
    BY <2>1, <2>2, <2>3
<1>3. ASSUME NEW r \in Requests, Take(r) PROVE TInv'
  <2>1. CASE pool[Db(r)] = Null
    BY <1>3, <1>e, <2>1 DEF Take, Replies, PoolErrors
  <2>2. CASE pool[Db(r)] # Null
    <3>1. Db(r) \in Databases
      BY <1>3 DEF Take, TypeOK, RequestsFit, Received
    <3>2. TypeOK'
      BY <1>3, <2>2, <3>1 DEF Take, TypeOK, Stages, InGetDb
    <3>3. RequestsFit'
      BY <1>3, <2>2, <3>1 DEF Take, TypeOK, RequestsFit, Holding
    <3>4. ReferencedIsAlive'
      BY <1>3, <2>2, <3>1 DEF Take, TypeOK, ReferencedIsAlive, Alive
    <3>5. QED
      BY <3>2, <3>3, <3>4
  <2>3. QED
    BY <2>1, <2>2
<1>4. ASSUME NEW r \in Requests, Recheck(r) PROVE TInv'
  <2>1. TypeOK'
    BY <1>4 DEF Recheck, TypeOK, Stages, InGetDb
  <2>2. RequestsFit'
    BY <1>4 DEF Recheck, TypeOK, RequestsFit, Holding
  <2>3. ReferencedIsAlive'
    BY <1>4 DEF Recheck, ReferencedIsAlive, Alive, TypeOK
  <2>4. QED
    BY <2>1, <2>2, <2>3
<1>5. ASSUME NEW r \in Requests, Close(r) PROVE TInv'
  <2>1. CASE pool[Db(r)] = Null
    BY <1>5, <1>e, <2>1 DEF Close, Replies, PoolErrors
  <2>2. CASE pool[Db(r)] # Null
    <3>1. Db(r) \in Databases
      BY <1>5 DEF Close, TypeOK, RequestsFit, Received
    <3>2. pool[Db(r)] \in Pools /\ Alive(pool[Db(r)])
      BY <2>2, <3>1 DEF TypeOK, ReferencedIsAlive
    <3>3. SamePools(pools, pools')
      BY <1>5, <1>0, <2>2, <3>2, ClosedKeeps DEF Close
    <3>4. ReferencedIsAlive' /\ pools' \in PoolMap
      BY <1>5, <1>a, <2>2, <3>3 DEF Close
    <3>5. TypeOK'
      BY <1>5, <2>2, <3>4 DEF Close, TypeOK, PoolMap, Stages, InGetDb
    <3>6. RequestsFit'
      BY <1>5, <2>2 DEF Close, TypeOK, RequestsFit, Holding
    <3>7. QED
      BY <3>4, <3>5, <3>6
  <2>3. QED
    BY <2>1, <2>2
<1>6. ASSUME NEW r \in Requests, Create(r) PROVE TInv'
  <2> DEFINE p == CHOOSE q \in Pools : ~Alive(q)
             new == [db |-> Db(r), open |-> TRUE, idle |-> "none", raced |-> FALSE]
  <2>1. p \in Pools /\ ~Alive(p)
    BY <1>6 DEF Create
  <2>2. new \in PoolObject
    BY <1>6 DEF Create, TypeOK, RequestsFit, Received, PoolObject
  <2>3. pools' = [pools EXCEPT ![p] = new] /\ local' = [local EXCEPT ![r] = p] /\ pool' = pool
    BY <1>6 DEF Create
  <2> HIDE DEF p, new
  <2>4. TypeOK'
    BY <1>6, <2>1, <2>2, <2>3 DEF Create, TypeOK, Stages, InGetDb
  <2>5. RequestsFit'
    BY <1>6, <2>1, <2>3 DEF Create, TypeOK, RequestsFit, Holding
  <2>6. ReferencedIsAlive'
    BY <2>1, <2>2, <2>3 DEF TypeOK, ReferencedIsAlive, Alive
  <2>7. QED
    BY <2>4, <2>5, <2>6
<1>7. ASSUME NEW r \in Requests, Publish(r) PROVE TInv'
  <2> DEFINE raced == r \in disturbed
             ps == [pools EXCEPT ![local[r]].raced = raced]
  <2>1. local[r] \in Pools /\ Alive(local[r]) /\ Db(r) \in Databases
    BY <1>7 DEF Publish, TypeOK, RequestsFit, ReferencedIsAlive, Holding, Received
  <2>2. raced \in BOOLEAN
    OBVIOUS
  <2>3. pools' = Swept(ps, pool', local')
    BY <1>7 DEF Publish
  <2> HIDE DEF raced
  <2>4. SamePools(pools, ps)
    BY <1>0, <2>1, <2>2, RacedKeeps
  <2> HIDE DEF ps
  <2>5. pool' = [pool EXCEPT ![Db(r)] = local[r]] /\ local' = local
    BY <1>7 DEF Publish
  <2>6. ReferencedIsAlive' /\ pools' \in PoolMap
    <3>1. ps \in PoolMap /\ (\A p \in Pools : pools[p] # Null => ps[p] # Null)
      BY <2>4 DEF SamePools
    <3>2. \A d \in Databases : pool'[d] # Null => pool'[d] \in Pools /\ pools[pool'[d]] # Null
      BY <2>1, <2>5 DEF TypeOK, ReferencedIsAlive, Alive
    <3>3. \A q \in Requests : local'[q] # Null => local'[q] \in Pools /\ pools[local'[q]] # Null
      BY <2>5 DEF TypeOK, ReferencedIsAlive, Alive
    <3>4. QED
      BY <1>b, <2>3, <3>1, <3>2, <3>3
  <2>7. TypeOK'
    BY <1>7, <2>1, <2>6 DEF Publish, TypeOK, PoolMap, Stages, InGetDb
  <2>8. RequestsFit'
    BY <1>7 DEF Publish, TypeOK, RequestsFit, Holding
  <2>9. QED
    BY <2>6, <2>7, <2>8
<1>8. ASSUME NEW r \in Requests, PublishUrl(r) PROVE TInv'
  <2>1. Db(r) \in Databases
    BY <1>8 DEF PublishUrl, TypeOK, RequestsFit, Received
  <2>2. TypeOK'
    BY <1>8, <2>1 DEF PublishUrl, TypeOK, Stages, InGetDb
  <2>3. RequestsFit'
    BY <1>8 DEF PublishUrl, TypeOK, RequestsFit, Holding
  <2>4. ReferencedIsAlive'
    BY <1>8 DEF PublishUrl, ReferencedIsAlive, Alive
  <2>5. QED
    BY <2>2, <2>3, <2>4
<1>9. ASSUME NEW r \in Requests, Connect(r) PROVE TInv'
  <2>0. local[r] \in Pools /\ Alive(local[r])
    BY <1>9 DEF Connect, TypeOK, RequestsFit, ReferencedIsAlive, Holding
  <2>1. CASE Fail(r, "pool_closed")
    BY <1>9, <1>e, <2>1 DEF Connect, Replies, PoolErrors
  <2>2. CASE ~Fail(r, "pool_closed")
    <3>1. SamePools(pools, pools')
      BY <1>9, <1>0, <2>0, <2>2, IdleKeeps DEF Connect
    <3>2. ReferencedIsAlive' /\ pools' \in PoolMap
      BY <1>9, <1>a, <2>2, <3>1 DEF Connect
    <3>3. pools[local[r]].idle \in {"none", "live", "broken"}
      BY <2>0 DEF Alive, TypeOK, PoolObject
    <3>4. TypeOK'
      BY <1>9, <2>2, <3>2, <3>3 DEF Connect, TypeOK, PoolMap, Stages, InGetDb
    <3>5. RequestsFit'
      BY <1>9, <2>2 DEF Connect, TypeOK, RequestsFit, Holding
    <3>6. QED
      BY <3>2, <3>4, <3>5
  <2>3. QED
    BY <2>1, <2>2
<1>10. ASSUME NEW r \in Requests, ConnectTimesOut(r) PROVE TInv'
  BY <1>10, <1>e DEF ConnectTimesOut, Replies
<1>11. ASSUME NEW r \in Requests, Work(r) PROVE TInv'
  <2>1. TypeOK'
    BY <1>11 DEF Work, TypeOK, Stages, InGetDb
  <2>2. RequestsFit'
    BY <1>11 DEF Work, TypeOK, RequestsFit, Holding
  <2>3. ReferencedIsAlive'
    BY <1>11 DEF Work, ReferencedIsAlive, Alive, TypeOK
  <2>4. QED
    BY <2>1, <2>2, <2>3
<1>12. ASSUME NEW r \in Requests, Get(r) PROVE TInv'
  <2>1. reply' \in [Requests -> Replies]
    BY <1>12 DEF Get, HandlerRaises, TypeOK, Replies, PoolErrors
  <2>2. TypeOK'
    BY <1>12, <2>1 DEF Get, TypeOK, Stages
  <2>3. RequestsFit'
    BY <1>12 DEF Get, TypeOK, RequestsFit, Holding
  <2>4. ReferencedIsAlive'
    BY <1>12 DEF Get, ReferencedIsAlive, Alive
  <2>5. QED
    BY <2>2, <2>3, <2>4
<1>13. ASSUME NEW r \in Requests, Post(r) PROVE TInv'
  <2>1. reply' \in [Requests -> Replies]
    BY <1>13 DEF Post, HandlerRaises, TypeOK, Replies, PoolErrors
  <2>2. PICK to \in {"exit", "leave"} : pc[r] = "handler" /\ pc' = [pc EXCEPT ![r] = to]
    BY <1>13 DEF Post
  <2>3. UNCHANGED <<content, known, pool, url, pools, req, local, conn, admin, disturbed,
                    hurt, touched, stranded, count>>
    BY <1>13 DEF Post
  <2>4. TypeOK'
    BY <2>1, <2>2, <2>3 DEF TypeOK, Stages
  <2>5. RequestsFit'
    BY <2>2, <2>3 DEF TypeOK, RequestsFit, Holding
  <2>6. ReferencedIsAlive'
    BY <2>3 DEF ReferencedIsAlive, Alive
  <2>7. QED
    BY <2>4, <2>5, <2>6
<1>14. ASSUME NEW r \in Requests, Leave(r) PROVE TInv'
  <2> DEFINE ps == IF pools[local[r]].open /\ conn[r] = "live"
                   THEN [pools EXCEPT ![local[r]].idle = "live"] ELSE pools
  <2>1. local[r] \in Pools /\ Alive(local[r])
    BY <1>14 DEF Leave, TypeOK, RequestsFit, ReferencedIsAlive, Holding
  <2>2. SamePools(pools, [pools EXCEPT ![local[r]].idle = "live"]) /\ SamePools(pools, pools)
    BY <1>0, <2>1, IdleKeeps DEF SamePools
  <2>3. SamePools(pools, ps)
    BY <2>2
  <2>4. /\ local' = [local EXCEPT ![r] = Null] /\ pool' = pool
        /\ pools' = Swept(ps, pool, local')
    BY <1>14 DEF Leave
  <2> HIDE DEF ps
  <2>5. ReferencedIsAlive' /\ pools' \in PoolMap
    <3>1. ps \in PoolMap /\ (\A p \in Pools : pools[p] # Null => ps[p] # Null)
      BY <2>3 DEF SamePools
    <3>2. \A d \in Databases : pool'[d] # Null => pool'[d] \in Pools /\ pools[pool'[d]] # Null
      BY <2>4 DEF TypeOK, ReferencedIsAlive, Alive
    <3>3. \A q \in Requests : local'[q] # Null => local'[q] \in Pools /\ pools[local'[q]] # Null
      BY <2>4 DEF TypeOK, ReferencedIsAlive, Alive
    <3>4. QED
      BY <1>b, <2>4, <3>1, <3>2, <3>3
  <2>6. TypeOK'
    BY <1>14, <2>5 DEF Leave, Answered, TypeOK, PoolMap, Stages, Replies
  <2>7. RequestsFit'
    BY <1>14 DEF Leave, Answered, TypeOK, RequestsFit, Holding
  <2>8. QED
    BY <2>5, <2>6, <2>7
<1>15. ASSUME NEW r \in Requests, Answer(r) PROVE TInv'
  <2>1. TypeOK'
    BY <1>15 DEF Answer, TypeOK, Stages, InGetDb, Answered, Replies
  <2>2. RequestsFit'
    BY <1>15 DEF Answer, TypeOK, RequestsFit, Holding, Answered, Replies
  <2>3. ReferencedIsAlive'
    BY <1>15 DEF Answer, ReferencedIsAlive, Alive, TypeOK, Answered, Replies
  <2>4. QED
    BY <2>1, <2>2, <2>3
<1>16. ASSUME NEW op \in Operations, AdminReceive(op[1], op[2], op[3]) PROVE TInv'
  <2>1. TypeOK'
    BY <1>16 DEF AdminReceive, TypeOK, Stages, InGetDb, Administration, First, Ops, Steps
  <2>2. RequestsFit'
    BY <1>16 DEF AdminReceive, TypeOK, RequestsFit, Holding, Administration, First, Ops, Steps
  <2>3. ReferencedIsAlive'
    BY <1>16 DEF AdminReceive, ReferencedIsAlive, Alive, TypeOK, Administration, First, Ops, Steps
  <2>4. QED
    BY <2>1, <2>2, <2>3
<1>17. ASSUME AdminAnswer PROVE TInv'
  <2>1. admin # Null
    BY <1>17 DEF AdminAnswer, AdminAt
  <2>2. admin' \in Administration \cup {Null}
    BY <1>17, <1>c, <1>d, <2>1 DEF AdminAnswer, AdminAt, Steps, Codes
  <2>3. admin.db \in Databases /\ admin.other \in Databases
    BY <2>1 DEF TypeOK, Administration
  <2>4. TypeOK'
    BY <1>17, <2>2, <2>3 DEF AdminAnswer, TypeOK
  <2>5. RequestsFit'
    BY <1>17 DEF AdminAnswer, RequestsFit
  <2>6. ReferencedIsAlive'
    BY <1>17 DEF AdminAnswer, ReferencedIsAlive, Alive
  <2>7. QED
    BY <2>4, <2>5, <2>6
<1>18. ASSUME Ensure PROVE TInv'
  <2>1. admin # Null
    BY <1>18 DEF Ensure, AdminAt
  <2>2. admin' \in Administration \cup {Null}
    BY <1>18, <1>c, <1>d, <2>1 DEF Ensure, AdminAt, Steps, Codes, Ensured
  <2>3. admin.db \in Databases /\ admin.other \in Databases
    BY <2>1 DEF TypeOK, Administration
  <2>4. TypeOK'
    BY <1>18, <2>2, <2>3 DEF Ensure, TypeOK, Ensured
  <2>5. RequestsFit'
    BY <1>18 DEF Ensure, RequestsFit
  <2>6. ReferencedIsAlive'
    BY <1>18 DEF Ensure, ReferencedIsAlive, Alive, Ensured
  <2>7. QED
    BY <2>4, <2>5, <2>6
<1>19. ASSUME EnsureInit PROVE TInv'
  <2>1. admin # Null
    BY <1>19 DEF EnsureInit, AdminAt
  <2>2. admin' \in Administration \cup {Null}
    BY <1>19, <1>c, <1>d, <2>1 DEF EnsureInit, AdminAt, Steps, Codes, Ensured
  <2>3. admin.db \in Databases /\ admin.other \in Databases
    BY <2>1 DEF TypeOK, Administration
  <2>4. TypeOK'
    BY <1>19, <2>2, <2>3 DEF EnsureInit, TypeOK, Ensured
  <2>5. RequestsFit'
    BY <1>19 DEF EnsureInit, RequestsFit
  <2>6. ReferencedIsAlive'
    BY <1>19 DEF EnsureInit, ReferencedIsAlive, Alive, Ensured
  <2>7. QED
    BY <2>4, <2>5, <2>6
<1>20. ASSUME InitDb PROVE TInv'
  <2>1. admin # Null
    BY <1>20 DEF InitDb, AdminAt
  <2>2. admin' \in Administration \cup {Null}
    BY <1>20, <1>c, <1>d, <2>1 DEF InitDb, AdminAt, Steps, Codes
  <2>3. admin.db \in Databases /\ admin.other \in Databases
    BY <2>1 DEF TypeOK, Administration
  <2>4. TypeOK'
    BY <1>20, <2>2, <2>3 DEF InitDb, TypeOK
  <2>5. RequestsFit'
    BY <1>20 DEF InitDb, RequestsFit
  <2>6. ReferencedIsAlive'
    BY <1>20 DEF InitDb, ReferencedIsAlive, Alive
  <2>7. QED
    BY <2>4, <2>5, <2>6
<1>21. ASSUME CloseCurrent PROVE TInv'
  <2>1. admin # Null
    BY <1>21 DEF CloseCurrent, AdminAt
  <2>2. admin' \in Administration \cup {Null}
    BY <1>21, <1>c, <1>d, <2>1 DEF CloseCurrent, AdminAt, Steps, Codes
  <2>3. admin.db \in Databases /\ admin.other \in Databases
    BY <2>1 DEF TypeOK, Administration
  <2>4. SamePools(pools, pools')
    BY <1>0, <1>21, <2>3, RegisteredKeeps DEF CloseCurrent, SamePools
  <2>5. ReferencedIsAlive' /\ pools' \in PoolMap
    BY <1>21, <1>a, <2>4 DEF CloseCurrent
  <2>6. TypeOK'
    BY <1>21, <2>2, <2>5 DEF CloseCurrent, TypeOK, PoolMap, On
  <2>7. RequestsFit'
    BY <1>21 DEF CloseCurrent, RequestsFit
  <2>8. QED
    BY <2>5, <2>6, <2>7
<1>21b. ASSUME PopCurrent PROVE TInv'
  <2>1. admin # Null
    BY <1>21b DEF PopCurrent, AdminAt
  <2>2. admin' \in Administration \cup {Null}
    BY <1>21b, <1>c, <2>1 DEF PopCurrent, Steps
  <2>3. admin.db \in Databases
    BY <2>1 DEF TypeOK, Administration
  <2>4. ReferencedIsAlive' /\ pools' \in PoolMap
    BY <1>21b, <1>0, <1>b, <2>3 DEF PopCurrent, TypeOK, ReferencedIsAlive, Alive
  <2>5. TypeOK'
    BY <1>21b, <2>2, <2>3, <2>4 DEF PopCurrent, TypeOK, PoolMap, On
  <2>6. RequestsFit'
    BY <1>21b DEF PopCurrent, RequestsFit
  <2>7. QED
    BY <2>4, <2>5, <2>6
<1>22. ASSUME Terminate PROVE TInv'
  <2>1. admin # Null
    BY <1>22 DEF Terminate, AdminAt
  <2>2. admin' \in Administration \cup {Null}
    BY <1>22, <1>c, <1>d, <2>1 DEF Terminate, AdminAt, Steps, Codes
  <2>3. admin.db \in Databases /\ admin.other \in Databases
    BY <2>1 DEF TypeOK, Administration
  <2>4. SamePools(pools, pools')
    BY <1>22, <1>0, TerminatedKeeps DEF Terminate
  <2>5. ReferencedIsAlive' /\ pools' \in PoolMap
    BY <1>22, <1>a, <2>4 DEF Terminate
  <2>6. conn' \in [Requests -> {"none", "live", "broken"}]
    BY <1>22 DEF Terminate, TerminatedConns, TypeOK
  <2>7. TypeOK'
    BY <1>22, <2>2, <2>5, <2>6 DEF Terminate, TypeOK, PoolMap, On
  <2>8. RequestsFit'
    BY <1>22 DEF Terminate, RequestsFit
  <2>9. QED
    BY <2>5, <2>7, <2>8
<1>23. ASSUME BackupCopy PROVE TInv'
  <2>1. admin # Null
    BY <1>23 DEF BackupCopy, AdminAt
  <2>2. admin' \in Administration \cup {Null}
    BY <1>23, <1>c, <1>d, <2>1 DEF BackupCopy, AdminAt, Steps, Codes
  <2>3. admin.db \in Databases /\ admin.other \in Databases
    BY <2>1 DEF TypeOK, Administration
  <2>4. TypeOK'
    BY <1>23, <2>2, <2>3 DEF BackupCopy, TypeOK, Copied
  <2>5. RequestsFit'
    BY <1>23 DEF BackupCopy, RequestsFit
  <2>6. ReferencedIsAlive'
    BY <1>23 DEF BackupCopy, ReferencedIsAlive, Alive, Copied
  <2>7. QED
    BY <2>4, <2>5, <2>6
<1>24. ASSUME RestoreDrop PROVE TInv'
  <2>1. admin # Null
    BY <1>24 DEF RestoreDrop, AdminAt
  <2>2. admin' \in Administration \cup {Null}
    BY <1>24, <1>c, <1>d, <2>1 DEF RestoreDrop, AdminAt, Steps, Codes
  <2>3. admin.db \in Databases /\ admin.other \in Databases
    BY <2>1 DEF TypeOK, Administration
  <2>4. TypeOK'
    BY <1>24, <2>2, <2>3 DEF RestoreDrop, TypeOK
  <2>5. RequestsFit'
    BY <1>24 DEF RestoreDrop, RequestsFit
  <2>6. ReferencedIsAlive'
    BY <1>24 DEF RestoreDrop, ReferencedIsAlive, Alive
  <2>7. QED
    BY <2>4, <2>5, <2>6
<1>25. ASSUME RestoreCopy PROVE TInv'
  <2>1. admin # Null
    BY <1>25 DEF RestoreCopy, AdminAt
  <2>2. admin' \in Administration \cup {Null}
    BY <1>25, <1>c, <1>d, <2>1 DEF RestoreCopy, AdminAt, Steps, Codes
  <2>3. admin.db \in Databases /\ admin.other \in Databases
    BY <2>1 DEF TypeOK, Administration
  <2>4. TypeOK'
    BY <1>25, <2>2, <2>3 DEF RestoreCopy, TypeOK, Copied
  <2>5. RequestsFit'
    BY <1>25 DEF RestoreCopy, RequestsFit
  <2>6. ReferencedIsAlive'
    BY <1>25 DEF RestoreCopy, ReferencedIsAlive, Alive, Copied
  <2>7. QED
    BY <2>4, <2>5, <2>6
<1>26. ASSUME Walks PROVE TInv'
  <2>1. /\ admin' \in Administration /\ disturbed' = disturbed \cup On(Databases, {})
        /\ UNCHANGED <<dicts, Requesting, conn, hurt, touched, stranded, count>>
    BY <1>26, WalkStep
  <2>2. SamePools(pools, pools')
    BY <1>26, WalkKeeps
  <2>3. ReferencedIsAlive' /\ pools' \in PoolMap
    BY <1>a, <2>1, <2>2
  <2>4. TypeOK'
    BY <2>1, <2>3 DEF TypeOK, PoolMap, On
  <2>5. RequestsFit'
    BY <2>1 DEF RequestsFit
  <2>6. QED
    BY <2>3, <2>4, <2>5
<1>26b. ASSUME Stops PROVE TInv'
  <2>1. admin # Null /\ admin.seen \subseteq Databases
    BY <1>26b DEF Stops, DestroyCloseNext, AdminAt, TypeOK, Administration
  <2>2. admin' \in Administration \cup {Null}
    BY <1>26b, <1>d, <2>1 DEF Stops, DestroyCloseNext, Codes
  <2>3. stranded' \subseteq Databases
    BY <1>26b, <2>1 DEF Stops, DestroyCloseNext, TypeOK
  <2>4. UNCHANGED <<dicts, pools, Requesting, conn, disturbed, hurt, touched, count>>
    BY <1>26b DEF Stops, DestroyCloseNext
  <2>5. TypeOK'
    BY <2>2, <2>3, <2>4 DEF TypeOK
  <2>6. QED
    BY <2>4, <2>5 DEF RequestsFit, ReferencedIsAlive, Alive
<1>27. ASSUME DestroyForget PROVE TInv'
  <2>1. admin # Null
    BY <1>27 DEF DestroyForget, AdminAt
  <2>2. admin' \in Administration \cup {Null}
    BY <1>27, <1>c, <1>d, <2>1 DEF DestroyForget, AdminAt, Steps, Codes
  <2>3. admin.db \in Databases /\ admin.other \in Databases
    BY <2>1 DEF TypeOK, Administration
  <2>4. ReferencedIsAlive' /\ pools' \in PoolMap
    BY <1>27, <1>0, <1>b DEF DestroyForget, TypeOK, ReferencedIsAlive, Alive
  <2>5. TypeOK'
    BY <1>27, <2>2, <2>4 DEF DestroyForget, TypeOK, PoolMap, On
  <2>6. RequestsFit'
    BY <1>27 DEF DestroyForget, RequestsFit
  <2>7. QED
    BY <2>4, <2>5, <2>6
<1>27b. ASSUME DestroyForgetUrls PROVE TInv'
  <2>1. admin # Null
    BY <1>27b DEF DestroyForgetUrls, AdminAt
  <2>2. admin' \in Administration \cup {Null}
    BY <1>27b, <1>c, <2>1 DEF DestroyForgetUrls, Steps
  <2>3. TypeOK'
    BY <1>27b, <2>2 DEF DestroyForgetUrls, TypeOK
  <2>4. QED
    BY <1>27b, <2>3 DEF DestroyForgetUrls, RequestsFit, ReferencedIsAlive, Alive
<1>28. ASSUME DestroyList PROVE TInv'
  <2>1. admin # Null
    BY <1>28 DEF DestroyList, AdminAt
  <2>2. admin' \in Administration \cup {Null}
    BY <1>28, <1>c, <1>d, <2>1 DEF DestroyList, AdminAt, Steps, Codes
  <2>3. admin.db \in Databases /\ admin.other \in Databases
    BY <2>1 DEF TypeOK, Administration
  <2>4. TypeOK'
    BY <1>28, <2>2, <2>3 DEF DestroyList, TypeOK
  <2>5. RequestsFit'
    BY <1>28 DEF DestroyList, RequestsFit
  <2>6. ReferencedIsAlive'
    BY <1>28 DEF DestroyList, ReferencedIsAlive, Alive
  <2>7. QED
    BY <2>4, <2>5, <2>6
<1>29. ASSUME NEW p \in Pools, Keep(p) PROVE TInv'
  <2>1. SamePools(pools, pools')
    BY <1>29, <1>0, IdleKeeps DEF Keep
  <2>2. ReferencedIsAlive' /\ pools' \in PoolMap
    BY <1>29, <1>a, <2>1 DEF Keep
  <2>3. TypeOK'
    BY <1>29, <2>2 DEF Keep, TypeOK, PoolMap
  <2>4. RequestsFit'
    BY <1>29 DEF Keep, RequestsFit
  <2>5. QED
    BY <2>2, <2>3, <2>4
<1>30. ASSUME Restart PROVE TInv'
  <2>1. TypeOK'
    BY <1>30 DEF Restart, TypeOK, Stages, Replies, PoolMap
  <2>2. RequestsFit' /\ ReferencedIsAlive'
    BY <1>30 DEF Restart, RequestsFit, ReferencedIsAlive, Holding
  <2>3. QED
    BY <2>1, <2>2
<1>31. ASSUME UNCHANGED vars PROVE TInv'
  <2>1. TypeOK'
    BY <1>31 DEF vars, TypeOK
  <2>2. RequestsFit' /\ ReferencedIsAlive'
    BY <1>31 DEF vars, RequestsFit, ReferencedIsAlive, Alive
  <2>3. QED
    BY <2>1, <2>2
<1>32. QED
  BY <1>1, <1>2, <1>3, <1>4, <1>5, <1>6, <1>7, <1>8, <1>9, <1>10, <1>11, <1>12,
     <1>13, <1>14, <1>15, <1>16, <1>17, <1>18, <1>19, <1>20, <1>21, <1>21b, <1>22, <1>23,
     <1>24, <1>25, <1>26, <1>26b, <1>27, <1>27b, <1>28, <1>29, <1>30, <1>31
     DEF Next, Request, Admin, Walks, Stops

\* Every reachable state of the databases and pools is well typed.
THEOREM PoolsTypeCorrect == Spec => []TypeOK
<1>1. TInv => TypeOK
  BY DEF TInv
<1>2. QED
  BY TypeInit, TypeStep, <1>1, PTL DEF Spec

----------------------------------------------------------------------------
(* The pools in the dictionary. *)

\* At the start there are no pools.
LEMMA PoolInit == Init => PInv
BY TypeInit, DatabasesAssumption DEF Init, PInv, NewIsOpen, OnePlace, RegisteredIsOpen

\* No step leaves a closed pool in the dictionary, except those that RegisteredIsOpen names.
LEMMA PoolStep == PInv /\ TInv' /\ [Next]_vars => PInv'
<1> SUFFICES ASSUME PInv, TInv', [Next]_vars PROVE PInv'
  OBVIOUS
<1> USE DatabasesAssumption DEF PInv, TInv, dicts, history, Step, Db, Requesting
<1>0. pools \in PoolMap /\ Null \notin PoolObject /\ Null \notin Pools
  BY DEF TypeOK, PoolMap
<1>z. Ops = {"ensure", "init", "clear", "backup", "restore", "destroy"}
  BY DEF Ops
\* Pools are only taken out of the dictionary, requests only lose theirs or take one from
\* the dictionary, and a pool in it is closed only by whom RegisteredIsOpen excuses.
<1>a. ASSUME \A d \in Databases : pool'[d] \in {pool[d], Null},
             \A q \in Requests : local'[q] \in {local[q], Null} \/ \E d \in Databases : local'[q] = pool[d],
             \A r \in Requests : pc'[r] = "publish" =>
               pc[r] = "publish" /\ local'[r] = local[r] /\ pools'[local[r]].open = pools[local[r]].open,
             \A d \in Databases : pool'[d] # Null =>
               \/ pools'[pool[d]].open = pools[pool[d]].open
               \/ \E r \in Requests : pc'[r] = "create" /\ req'[r].db = d
               \/ Leaving(d)',
             \A r \in Requests : pc[r] \in {"create", "publish"} =>
               pc'[r] \in {"create", "publish"} /\ req'[r].db = req[r].db,
             \A d \in Databases : pool'[d] # Null /\ ~pools'[pool[d]].open =>
               (Leaving(d) \/ d \in stranded => Leaving(d)' \/ d \in stranded')
      PROVE  PInv'
  <2>1. NewIsOpen'
    <3> SUFFICES ASSUME NEW r \in Requests, pc'[r] = "publish"
                 PROVE  /\ pools'[local'[r]].open
                        /\ \A d \in Databases : pool'[d] # local'[r]
                        /\ \A q \in Requests \ {r} : local'[q] # local'[r]
      BY DEF NewIsOpen
    <3>1. pc[r] = "publish" /\ local'[r] = local[r] /\ pools'[local[r]].open = pools[local[r]].open
      BY <1>a
    <3>2. /\ pools[local[r]].open
          /\ \A d \in Databases : pool[d] # local[r]
          /\ \A q \in Requests \ {r} : local[q] # local[r]
      BY <3>1 DEF NewIsOpen
    <3>3. local[r] # Null
      BY <3>1 DEF RequestsFit, Holding
    <3>4. QED
      BY <1>a, <3>1, <3>2, <3>3
  <2>2. OnePlace'
    BY <1>a DEF OnePlace
  <2>3. RegisteredIsOpen'
    <3> SUFFICES ASSUME NEW d \in Databases, pool'[d] # Null, ~pools'[pool'[d]].open,
                        ~Leaving(d)', d \notin stranded'
                 PROVE  \E r \in Requests : pc'[r] \in {"create", "publish"} /\ req'[r].db = d
      BY DEF RegisteredIsOpen
    <3>1. pool'[d] = pool[d]
      BY <1>a
    <3>2. CASE pools'[pool[d]].open = pools[pool[d]].open
      <4>1. ~Leaving(d) /\ d \notin stranded
        BY <1>a, <3>1
      <4>2. PICK r \in Requests : pc[r] \in {"create", "publish"} /\ req[r].db = d
        BY <3>1, <3>2, <4>1 DEF RegisteredIsOpen
      <4>3. QED
        BY <1>a, <4>2
    <3>3. CASE \E r \in Requests : pc'[r] = "create" /\ req'[r].db = d
      BY <3>3
    <3>4. QED
      BY <1>a, <3>2, <3>3
  <2>4. QED
    BY <2>1, <2>2, <2>3
\* Most steps leave the pools, the dictionary and what requests hold alone.
<1>b. ASSUME UNCHANGED <<pools, pool, local, stranded>>,
             \A r \in Requests : pc'[r] = "publish" => pc[r] = "publish",
             \A r \in Requests : pc[r] \in {"create", "publish"} =>
               pc'[r] \in {"create", "publish"} /\ req'[r].db = req[r].db,
             \A d \in Databases : Leaving(d) => Leaving(d)'
      PROVE  PInv'
  BY <1>a, <1>b
\* Others give up what they hold, or use the connections of a pool.
<1>c. ASSUME NEW r \in Requests, pc[r] \notin {"create", "publish"}, pc'[r] \notin {"create", "publish"},
             \A q \in Requests \ {r} : pc'[q] = pc[q] /\ local'[q] = local[q] /\ req'[q] = req[q],
             local'[r] \in {local[r], Null}, UNCHANGED <<pool, admin, stranded>>,
             \A p \in Pools : pools[p] # Null /\ pools'[p] # Null => pools'[p].open = pools[p].open
      PROVE  PInv'
  <2>1. \A d \in Databases : pool'[d] # Null => pools'[pool[d]].open = pools[pool[d]].open
    BY <1>c DEF ReferencedIsAlive, Alive, TypeOK
  <2>2. \A q \in Requests : pc'[q] = "publish" =>
          pc[q] = "publish" /\ local'[q] = local[q] /\ pools'[local[q]].open = pools[local[q]].open
    BY <1>c DEF ReferencedIsAlive, Alive, TypeOK, RequestsFit, Holding
  <2>3. \A q \in Requests : pc[q] \in {"create", "publish"} =>
          pc'[q] \in {"create", "publish"} /\ req'[q].db = req[q].db
    BY <1>c
  <2>4. \A d \in Databases : Leaving(d) => Leaving(d)'
    BY <1>c DEF Leaving, AdminAt
  <2>5. \A q \in Requests : local'[q] \in {local[q], Null}
    BY <1>c
  <2>6. QED
    BY <1>a, <1>c, <2>1, <2>2, <2>3, <2>4, <2>5
<1>e. ASSUME NEW r \in Requests, NEW why \in Replies, pc[r] \notin {"idle", "create", "publish"}, Fail(r, why)
      PROVE  PInv'
  <2>1. \A p \in Pools : pools'[p] \in {pools[p], Null}
    BY <1>0, <1>e, SweptKeeps DEF Fail
  <2>2. /\ \A q \in Requests \ {r} : pc'[q] = pc[q] /\ local'[q] = local[q]
        /\ pc'[r] = "answer" /\ local'[r] = Null /\ UNCHANGED <<pool, admin, req, stranded>>
    BY <1>e DEF Fail, TypeOK
  <2>3. QED
    BY <1>c, <1>e, <2>1, <2>2
<1>1. ASSUME NEW r \in Requests, NEW c \in Calls, Receive(r, c[1], c[2]) PROVE PInv'
  BY <1>1, <1>b, <1>z DEF Receive, Leaving, AdminAt, TypeOK
<1>2. ASSUME NEW r \in Requests, Look(r) PROVE PInv'
  BY <1>2, <1>b, <1>z DEF Look, Leaving, AdminAt, TypeOK
<1>3. ASSUME NEW r \in Requests, Take(r) PROVE PInv'
  <2>1. CASE pool[Db(r)] = Null
    BY <1>3, <1>e, <2>1 DEF Take, Replies, PoolErrors
  <2>2. CASE pool[Db(r)] # Null
    <3>1. Db(r) \in Databases
      BY <1>3 DEF Take, TypeOK, RequestsFit, Received
    <3>2. /\ pc' = [pc EXCEPT ![r] = "connect"] /\ local' = [local EXCEPT ![r] = pool[Db(r)]]
          /\ UNCHANGED <<pools, pool, req, admin, stranded>>
      BY <1>3, <2>2 DEF Take
    <3>3. \A q \in Requests : local'[q] \in {local[q], Null} \/ \E d \in Databases : local'[q] = pool[d]
      BY <3>1, <3>2 DEF TypeOK
    <3>4. \A q \in Requests : pc'[q] = "publish" => pc[q] = "publish" /\ local'[q] = local[q]
      BY <3>2 DEF TypeOK
    <3>5. \A q \in Requests : pc[q] \in {"create", "publish"} => pc'[q] = pc[q]
      BY <1>3, <3>2 DEF Take, TypeOK
    <3>6. QED
      BY <1>a, <3>2, <3>3, <3>4, <3>5 DEF Leaving, AdminAt
  <2>3. QED
    BY <2>1, <2>2
<1>4. ASSUME NEW r \in Requests, Recheck(r) PROVE PInv'
  BY <1>4, <1>b, <1>z DEF Recheck, Leaving, AdminAt, TypeOK
<1>5. ASSUME NEW r \in Requests, Close(r) PROVE PInv'
  <2>1. CASE pool[Db(r)] = Null
    BY <1>5, <1>e, <2>1 DEF Close, Replies, PoolErrors
  <2>2. CASE pool[Db(r)] # Null
    <3> DEFINE c == pool[Db(r)]
    <3>1. Db(r) \in Databases /\ c \in Pools /\ Alive(c)
      BY <1>5, <2>2 DEF Close, TypeOK, RequestsFit, Received, ReferencedIsAlive
    <3>2. /\ pc[r] = "close" /\ pc' = [pc EXCEPT ![r] = "create"] /\ pools' = Closed({c})
          /\ UNCHANGED <<pool, local, req, admin, stranded>>
      BY <1>5, <2>2 DEF Close
    <3>3. \A p \in Pools : pools[p] # Null /\ p # c => pools'[p] = pools[p]
      BY <3>2 DEF Closed
    <3>4. \A d \in Databases : pool'[d] # Null =>
            pools'[pool[d]].open = pools[pool[d]].open \/ (pc'[r] = "create" /\ req'[r].db = d)
      BY <3>1, <3>2, <3>3 DEF OnePlace, TypeOK, ReferencedIsAlive, Alive
    <3>5. \A q \in Requests : pc'[q] = "publish" =>
            pc[q] = "publish" /\ local'[q] = local[q] /\ pools'[local[q]].open = pools[local[q]].open
      <4> SUFFICES ASSUME NEW q \in Requests, pc'[q] = "publish"
                   PROVE  pc[q] = "publish" /\ pools'[local[q]].open = pools[local[q]].open
        BY <3>2
      <4>1. pc[q] = "publish"
        BY <3>2 DEF TypeOK
      <4>2. local[q] \in Pools /\ pools[local[q]] # Null /\ local[q] # c
        BY <3>1, <4>1 DEF NewIsOpen, TypeOK, RequestsFit, ReferencedIsAlive, Alive, Holding
      <4>3. QED
        BY <3>3, <4>1, <4>2
    <3>6. \A q \in Requests : pc[q] \in {"create", "publish"} =>
            pc'[q] \in {"create", "publish"} /\ req'[q].db = req[q].db
      BY <3>2 DEF TypeOK
    <3>7. QED
      BY <1>a, <3>2, <3>4, <3>5, <3>6 DEF Leaving, AdminAt
  <2>3. QED
    BY <2>1, <2>2
<1>6. ASSUME NEW r \in Requests, Create(r) PROVE PInv'
  <2> DEFINE p == CHOOSE q \in Pools : ~Alive(q)
             new == [db |-> Db(r), open |-> TRUE, idle |-> "none", raced |-> FALSE]
  <2>1. p \in Pools /\ ~Alive(p) /\ new.open
    BY <1>6 DEF Create
  <2>2. /\ pc[r] = "create" /\ pc' = [pc EXCEPT ![r] = "publish"]
        /\ pools' = [pools EXCEPT ![p] = new] /\ local' = [local EXCEPT ![r] = p]
        /\ UNCHANGED <<pool, req, admin, stranded>>
    BY <1>6 DEF Create
  <2> HIDE DEF p, new
  <2>3. \A d \in Databases : pool[d] # p
    BY <1>0, <2>1 DEF TypeOK, ReferencedIsAlive
  <2>4. \A q \in Requests : local[q] # p
    BY <1>0, <2>1 DEF TypeOK, ReferencedIsAlive
  <2>5. pools'[p].open /\ \A q \in Pools \ {p} : pools'[q] = pools[q]
    BY <2>1, <2>2 DEF TypeOK
  <2>6. NewIsOpen'
    <3> SUFFICES ASSUME NEW s \in Requests, pc'[s] = "publish"
                 PROVE  /\ pools'[local'[s]].open
                        /\ \A d \in Databases : pool'[d] # local'[s]
                        /\ \A q \in Requests \ {s} : local'[q] # local'[s]
      BY DEF NewIsOpen
    <3>1. CASE s = r
      BY <2>2, <2>3, <2>4, <2>5, <3>1 DEF TypeOK
    <3>2. CASE s # r
      <4>1. pc[s] = "publish" /\ local'[s] = local[s] /\ local[s] \in Pools \ {p}
        BY <2>2, <2>4, <3>2 DEF TypeOK, RequestsFit, Holding
      <4>2. QED
        BY <2>2, <2>4, <2>5, <4>1 DEF NewIsOpen, TypeOK
    <3>3. QED
      BY <3>1, <3>2
  <2>7. OnePlace'
    BY <2>2 DEF OnePlace
  <2>8. RegisteredIsOpen'
    <3>1. \A d \in Databases : pool[d] # Null => pools'[pool[d]] = pools[pool[d]]
      BY <2>3, <2>5 DEF TypeOK
    <3>2. \A q \in Requests : pc[q] \in {"create", "publish"} => pc'[q] \in {"create", "publish"}
      BY <2>2 DEF TypeOK
    <3>3. QED
      BY <2>2, <3>1, <3>2 DEF RegisteredIsOpen, Leaving, AdminAt
  <2>9. QED
    BY <2>6, <2>7, <2>8
<1>7. ASSUME NEW r \in Requests, Publish(r) PROVE PInv'
  <2> DEFINE raced == r \in disturbed
             ps == [pools EXCEPT ![local[r]].raced = raced]
  <2>1. local[r] \in Pools /\ Alive(local[r]) /\ Db(r) \in Databases
    BY <1>7 DEF Publish, TypeOK, RequestsFit, ReferencedIsAlive, Holding, Received
  <2>2. raced \in BOOLEAN
    OBVIOUS
  <2>3. pools' = Swept(ps, pool', local')
    BY <1>7 DEF Publish
  <2> HIDE DEF raced
  <2>4. ps \in PoolMap /\ \A p \in Pools : pools[p] # Null => ps[p].open = pools[p].open
    BY <1>0, <2>1, <2>2, RacedKeeps DEF SamePools
  <2> HIDE DEF ps
  <2>5. /\ pc[r] = "publish" /\ pc' = [pc EXCEPT ![r] = "publish_url"]
        /\ pool' = [pool EXCEPT ![Db(r)] = local[r]] /\ UNCHANGED <<local, req, admin>>
        /\ stranded' = stranded \ {Db(r)}
    BY <1>7 DEF Publish
  <2>6. \A d \in Databases : pool'[d] # Null =>
          pool'[d] \in Pools /\ pools'[pool'[d]].open = pools[pool'[d]].open
    <3>1. ASSUME NEW d \in Databases, pool'[d] # Null PROVE pool'[d] \in Pools /\ pools[pool'[d]] # Null
      BY <2>1, <2>5, <3>1 DEF TypeOK, ReferencedIsAlive, Alive
    <3>2. QED
      BY <2>3, <2>4, <3>1, SweptKeeps
  <2>7. \A q \in Requests : local[q] # Null => pools'[local[q]].open = pools[local[q]].open
    <3>1. ASSUME NEW q \in Requests, local[q] # Null PROVE local[q] \in Pools /\ pools[local[q]] # Null
      BY <3>1 DEF TypeOK, ReferencedIsAlive, Alive
    <3>2. QED
      BY <2>3, <2>4, <2>5, <3>1, SweptKeeps
  <2>8. /\ pools[local[r]].open
        /\ \A d \in Databases : pool[d] # local[r]
        /\ \A q \in Requests \ {r} : local[q] # local[r]
    BY <2>5 DEF NewIsOpen
  <2>9. NewIsOpen'
    <3> SUFFICES ASSUME NEW s \in Requests, pc'[s] = "publish"
                 PROVE  /\ pools'[local[s]].open
                        /\ \A d \in Databases : pool'[d] # local[s]
                        /\ \A q \in Requests \ {s} : local[q] # local[s]
      BY <2>5 DEF NewIsOpen
    <3>1. s # r /\ pc[s] = "publish" /\ local[s] # Null
      BY <2>5 DEF TypeOK, RequestsFit, Holding
    <3>2. QED
      BY <2>1, <2>5, <2>7, <2>8, <3>1 DEF NewIsOpen, TypeOK
  <2>10. OnePlace'
    BY <2>1, <2>5, <2>8 DEF OnePlace, TypeOK
  <2>11. RegisteredIsOpen'
    <3> SUFFICES ASSUME NEW d \in Databases, pool'[d] # Null, ~pools'[pool'[d]].open
                 PROVE  \/ \E q \in Requests : pc'[q] \in {"create", "publish"} /\ req[q].db = d
                        \/ Leaving(d)' \/ d \in stranded'
      BY <2>5 DEF RegisteredIsOpen
    <3>1. d # Db(r) /\ pool'[d] = pool[d] /\ ~pools[pool[d]].open
      BY <2>1, <2>5, <2>6, <2>8 DEF TypeOK
    <3>2. \/ \E q \in Requests : pc[q] \in {"create", "publish"} /\ req[q].db = d
          \/ Leaving(d) \/ d \in stranded
      BY <3>1 DEF RegisteredIsOpen
    <3>3. Leaving(d)' <=> Leaving(d)
      BY <2>5 DEF Leaving, AdminAt
    <3>4. QED
      BY <2>5, <3>1, <3>2, <3>3 DEF TypeOK
  <2>12. QED
    BY <2>9, <2>10, <2>11
<1>8. ASSUME NEW r \in Requests, PublishUrl(r) PROVE PInv'
  BY <1>8, <1>b, <1>z DEF PublishUrl, Leaving, AdminAt, TypeOK
<1>9. ASSUME NEW r \in Requests, Connect(r) PROVE PInv'
  <2>0. local[r] \in Pools /\ Alive(local[r])
    BY <1>9 DEF Connect, TypeOK, RequestsFit, ReferencedIsAlive, Holding
  <2>1. CASE Fail(r, "pool_closed")
    BY <1>9, <1>e, <2>1 DEF Connect, Replies, PoolErrors
  <2>2. CASE ~Fail(r, "pool_closed")
    <3>1. \A p \in Pools : pools[p] # Null => pools'[p].open = pools[p].open
      <4>1. pools' = [pools EXCEPT ![local[r]].idle = "none"]
        BY <1>9, <2>2 DEF Connect
      <4>2. QED
        BY <1>0, <2>0, <4>1, IdleKeeps
    <3>2. /\ pc[r] = "connect" /\ pc' = [pc EXCEPT ![r] = "handler"]
          /\ UNCHANGED <<pool, local, req, admin, stranded>>
      BY <1>9, <2>2 DEF Connect
    <3>3. \A q \in Requests \ {r} : pc'[q] = pc[q]
      BY <3>2 DEF TypeOK
    <3>4. pc'[r] = "handler"
      BY <3>2 DEF TypeOK
    <3>5. QED
      BY <1>c, <3>1, <3>2, <3>3, <3>4
  <2>3. QED
    BY <2>1, <2>2
<1>10. ASSUME NEW r \in Requests, ConnectTimesOut(r) PROVE PInv'
  BY <1>10, <1>e DEF ConnectTimesOut, Replies
<1>11. ASSUME NEW r \in Requests, Work(r) PROVE PInv'
  BY <1>11, <1>b, <1>z DEF Work, Leaving, AdminAt, TypeOK
<1>12. ASSUME NEW r \in Requests, Get(r) PROVE PInv'
  BY <1>12, <1>b, <1>z DEF Get, Leaving, AdminAt, TypeOK
<1>13. ASSUME NEW r \in Requests, Post(r) PROVE PInv'
  BY <1>13, <1>b, <1>z DEF Post, Leaving, AdminAt, TypeOK
<1>14. ASSUME NEW r \in Requests, Leave(r) PROVE PInv'
  <2> DEFINE ps == IF pools[local[r]].open /\ conn[r] = "live"
                   THEN [pools EXCEPT ![local[r]].idle = "live"] ELSE pools
  <2>1. local[r] \in Pools /\ Alive(local[r])
    BY <1>14 DEF Leave, TypeOK, RequestsFit, ReferencedIsAlive, Holding
  <2>2. /\ SamePools(pools, [pools EXCEPT ![local[r]].idle = "live"])
        /\ \A p \in Pools : pools[p] # Null =>
             [pools EXCEPT ![local[r]].idle = "live"][p].open = pools[p].open
    BY <1>0, <2>1, IdleKeeps
  <2>3. ps \in PoolMap /\ \A p \in Pools : pools[p] # Null => ps[p].open = pools[p].open
    BY <1>0, <2>2 DEF SamePools
  <2>4. /\ pc[r] \in {"exit", "leave"} /\ pools' = Swept(ps, pool, local')
        /\ pc' = [pc EXCEPT ![r] = "idle"] /\ local' = [local EXCEPT ![r] = Null]
        /\ req' = [req EXCEPT ![r] = Null] /\ UNCHANGED <<pool, admin, stranded>>
    BY <1>14 DEF Leave, Answered
  <2> HIDE DEF ps
  <2>5. \A p \in Pools : pools[p] # Null /\ pools'[p] # Null => pools'[p].open = pools[p].open
    BY <2>3, <2>4, SweptKeeps
  <2>6. /\ \A q \in Requests \ {r} : pc'[q] = pc[q] /\ local'[q] = local[q] /\ req'[q] = req[q]
        /\ pc'[r] = "idle" /\ local'[r] = Null
    BY <2>4 DEF TypeOK
  <2>7. QED
    BY <1>c, <2>4, <2>5, <2>6
<1>15. ASSUME NEW r \in Requests, Answer(r) PROVE PInv'
  BY <1>15, <1>b, <1>z DEF Answer, Leaving, AdminAt, TypeOK, Answered
<1>16. ASSUME NEW op \in Operations, AdminReceive(op[1], op[2], op[3]) PROVE PInv'
  BY <1>16, <1>b, <1>z DEF AdminReceive, Leaving, AdminAt, TypeOK, LoopFree
<1>17. ASSUME AdminAnswer PROVE PInv'
  BY <1>17, <1>b, <1>z DEF AdminAnswer, Leaving, AdminAt, TypeOK
<1>18. ASSUME Ensure PROVE PInv'
  BY <1>18, <1>b, <1>z DEF Ensure, Leaving, AdminAt, TypeOK
<1>19. ASSUME EnsureInit PROVE PInv'
  BY <1>19, <1>b, <1>z DEF EnsureInit, Leaving, AdminAt, TypeOK
<1>20. ASSUME InitDb PROVE PInv'
  BY <1>20, <1>b, <1>z DEF InitDb, Leaving, AdminAt, TypeOK
<1>21. ASSUME CloseCurrent PROVE PInv'
  <2> DEFINE c == pool[admin.db]
  <2>1. /\ admin \in Administration /\ admin # Null /\ admin.db \in Databases
        /\ admin.op \in {"backup", "restore"} /\ admin.step = "close"
    BY <1>21 DEF CloseCurrent, AdminAt, TypeOK, Administration
  <2>2. UNCHANGED <<pool, local, pc, req, stranded>> /\ \A d \in Databases : ~Leaving(d)
    BY <1>21, <2>1 DEF CloseCurrent, Leaving, AdminAt
  <2>3. CASE UNCHANGED pools
    BY <1>b, <2>2, <2>3
  <2>4. CASE pools' # pools
    <3>1. pools' = Closed({c}) /\ Go(IF c = Null THEN "terminate" ELSE "pop")
      BY <1>21, <2>4 DEF CloseCurrent
    <3>2. \A p \in Pools : p # c => pools'[p] = pools[p]
      BY <2>1, <3>1, RegisteredKeeps
    <3>3. c # Null
      BY <1>0, <2>4, <3>1 DEF Closed, PoolMap
    <3>4. admin' = [admin EXCEPT !.step = "pop"] /\ "pop" \in Steps
      BY <3>1, <3>3 DEF Go, Steps
    <3>5. admin' \in Administration
      BY <2>1, <3>4, StepKeeps
    <3>6. \A d \in Databases : d = admin.db => Leaving(d)'
      BY <2>1, <3>4, <3>5 DEF Leaving, AdminAt, Administration
    <3>7. \A d \in Databases : pool'[d] # Null =>
            pools'[pool[d]].open = pools[pool[d]].open \/ Leaving(d)'
      <4> SUFFICES ASSUME NEW d \in Databases, pool[d] # Null
                   PROVE  pools'[pool[d]] = pools[pool[d]] \/ Leaving(d)'
        BY <2>2
      <4>1. pool[d] \in Pools
        BY DEF TypeOK
      <4>2. pool[d] = c => d = admin.db
        BY <2>1 DEF OnePlace
      <4>3. QED
        BY <3>2, <3>6, <4>1, <4>2
    <3>8. ASSUME NEW r \in Requests, pc[r] = "publish" PROVE pools'[local[r]].open = pools[local[r]].open
      BY <2>1, <3>2, <3>8 DEF NewIsOpen, RequestsFit, Holding, TypeOK
    <3>9. QED
      BY <1>a, <2>2, <3>7, <3>8
  <2>5. QED
    BY <2>3, <2>4
<1>21b. ASSUME PopCurrent PROVE PInv'
  <2>1. /\ admin # Null /\ admin.db \in Databases
        /\ admin.op \in {"backup", "restore"} /\ admin.step = "pop"
    BY <1>21b DEF PopCurrent, AdminAt, TypeOK, Administration
  <2>2. /\ pool' = [pool EXCEPT ![admin.db] = Null] /\ pools' = Swept(pools, pool', local')
        /\ UNCHANGED <<pc, req, local>> /\ stranded' = stranded \ {admin.db}
    BY <1>21b DEF PopCurrent
  <2>3. \A d \in Databases : pool'[d] \in {pool[d], Null} /\ (pool'[d] # Null => d # admin.db)
    BY <2>1, <2>2 DEF TypeOK
  <2>4. \A d \in Databases : pool'[d] # Null => pools'[pool[d]].open = pools[pool[d]].open
    <3> SUFFICES ASSUME NEW d \in Databases, pool'[d] # Null
                 PROVE  pools'[pool[d]].open = pools[pool[d]].open
      OBVIOUS
    <3>1. pool'[d] = pool[d] /\ pool'[d] \in Pools
      BY <2>3 DEF TypeOK
    <3>2. Swept(pools, pool', local')[pool'[d]] = pools[pool'[d]]
      BY <1>0, <3>1, SweptKeeps
    <3>3. QED
      BY <2>2, <3>1, <3>2
  <2>5. ASSUME NEW r \in Requests, pc[r] = "publish" PROVE pools'[local[r]].open = pools[local[r]].open
    <3>1. local[r] \in Pools /\ pools[local[r]] # Null
      BY <2>5 DEF RequestsFit, Holding, TypeOK, ReferencedIsAlive, Alive
    <3>2. QED
      BY <1>0, <2>2, <3>1, SweptKeeps
  <2>6. \A d \in Databases : d # admin.db => ~Leaving(d)
    BY <2>1 DEF Leaving, AdminAt
  <2>7. QED
    BY <1>a, <2>2, <2>3, <2>4, <2>5, <2>6
<1>22. ASSUME Terminate PROVE PInv'
  <2>1. \A p \in Pools : pools[p] # Null => pools'[p].open = pools[p].open
    BY <1>22, <1>0, TerminatedKeeps DEF Terminate
  <2>2. UNCHANGED <<pool, local, pc, req, stranded>> /\ \A d \in Databases : ~Leaving(d)
    BY <1>22 DEF Terminate, Leaving, AdminAt
  <2>3. \A d \in Databases : pool'[d] # Null => pools'[pool[d]].open = pools[pool[d]].open
    BY <2>1, <2>2 DEF TypeOK, ReferencedIsAlive, Alive
  <2>4. \A r \in Requests : pc[r] = "publish" => pools'[local[r]].open = pools[local[r]].open
    BY <2>1 DEF TypeOK, ReferencedIsAlive, Alive, RequestsFit, Holding
  <2>5. QED
    BY <1>a, <2>2, <2>3, <2>4
<1>23. ASSUME BackupCopy PROVE PInv'
  BY <1>23, <1>b, <1>z DEF BackupCopy, Leaving, AdminAt, TypeOK
<1>24. ASSUME RestoreDrop PROVE PInv'
  BY <1>24, <1>b, <1>z DEF RestoreDrop, Leaving, AdminAt, TypeOK
<1>25. ASSUME RestoreCopy PROVE PInv'
  BY <1>25, <1>b, <1>z DEF RestoreCopy, Leaving, AdminAt, TypeOK
<1>26. ASSUME Walks PROVE PInv'
  <2>1. UNCHANGED <<pool, local, pc, req, stranded>>
    BY <1>26, WalkStep
  <2>2. /\ \A e \in Databases : Leaving(e) => Leaving(e)'
        /\ \A p \in Pools : pools'[p] = pools[p] \/ \E e \in Databases : pool[e] = p /\ Leaving(e)'
    BY <1>26, WalkKeeps
  <2>3. \A d \in Databases : pool'[d] # Null =>
          pools'[pool[d]].open = pools[pool[d]].open \/ Leaving(d)'
    BY <2>1, <2>2 DEF OnePlace, TypeOK
  <2>4. ASSUME NEW r \in Requests, pc[r] = "publish" PROVE pools'[local[r]].open = pools[local[r]].open
    BY <2>2, <2>4 DEF NewIsOpen, RequestsFit, Holding, TypeOK
  <2>5. QED
    BY <1>a, <2>1, <2>2, <2>3, <2>4
<1>26b. ASSUME Stops PROVE PInv'
  <2>1. /\ admin # Null /\ admin.op = "destroy" /\ admin.step = "close_next"
        /\ UNCHANGED <<pool, pools, local, pc, req>>
        /\ stranded' = stranded \cup {d \in admin.seen : ~pools[pool[d]].open}
    BY <1>26b DEF Stops, DestroyCloseNext, AdminAt
  <2>2. \A d \in Databases : ~pools[pool[d]].open /\ Leaving(d) => d \in stranded'
    BY <2>1 DEF Leaving, AdminAt
  <2>3. QED
    BY <1>a, <2>1, <2>2
<1>27. ASSUME DestroyForget PROVE PInv'
  <2>1. /\ pool' = [d \in Databases |-> Null] /\ pools' = Swept(pools, pool', local')
        /\ UNCHANGED <<pc, req, local>>
    BY <1>27 DEF DestroyForget
  <2>2. ASSUME NEW r \in Requests, pc[r] = "publish" PROVE pools'[local[r]].open = pools[local[r]].open
    <3>1. local[r] \in Pools /\ pools[local[r]] # Null
      BY <2>2 DEF RequestsFit, Holding, TypeOK, ReferencedIsAlive, Alive
    <3>2. QED
      BY <1>0, <2>1, <3>1, SweptKeeps
  <2>3. QED
    BY <1>a, <2>1, <2>2
<1>27b. ASSUME DestroyForgetUrls PROVE PInv'
  BY <1>27b, <1>b, <1>z DEF DestroyForgetUrls, Leaving, AdminAt, TypeOK
<1>28. ASSUME DestroyList PROVE PInv'
  BY <1>28, <1>b, <1>z DEF DestroyList, Leaving, AdminAt, TypeOK
<1>29. ASSUME NEW p \in Pools, Keep(p) PROVE PInv'
  <2>1. \A q \in Pools : pools[q] # Null => pools'[q].open = pools[q].open
    BY <1>29, <1>0, IdleKeeps DEF Keep
  <2>2. UNCHANGED <<pool, local, pc, req, admin, stranded>>
    BY <1>29 DEF Keep
  <2>3. \A d \in Databases : pool'[d] # Null => pools'[pool[d]].open = pools[pool[d]].open
    BY <2>1, <2>2 DEF TypeOK, ReferencedIsAlive, Alive
  <2>4. \A r \in Requests : pc[r] = "publish" => pools'[local[r]].open = pools[local[r]].open
    BY <2>1 DEF TypeOK, ReferencedIsAlive, Alive, RequestsFit, Holding
  <2>5. QED
    BY <1>a, <2>2, <2>3, <2>4 DEF Leaving, AdminAt
<1>30. ASSUME Restart PROVE PInv'
  BY <1>30 DEF Restart, NewIsOpen, OnePlace, RegisteredIsOpen
<1>31. ASSUME UNCHANGED vars PROVE PInv'
  BY <1>31, <1>b DEF vars, Leaving, AdminAt
<1>32. QED
  BY <1>1, <1>2, <1>3, <1>4, <1>5, <1>6, <1>7, <1>8, <1>9, <1>10, <1>11, <1>12,
     <1>13, <1>14, <1>15, <1>16, <1>17, <1>18, <1>19, <1>20, <1>21, <1>21b, <1>22, <1>23,
     <1>24, <1>25, <1>26, <1>26b, <1>27, <1>27b, <1>28, <1>29, <1>30, <1>31
     DEF Next, Request, Admin, Walks, Stops

\* The pool that _db_pools has for a database is open for whoever finds it, except in the
\* gap between the closing of it and the replacing or taking out (database.py:85-92,
\* :101-103, admin.py:84-86), or after the RuntimeError of database.py:101, for any
\* number of threads.
THEOREM RegisteredStaysOpen == Spec => []RegisteredIsOpen
<1>1. Init => PInv
  BY PoolInit
<1>2. PInv /\ [Next]_vars => PInv'
  <2>1. PInv => TInv
    BY DEF PInv
  <2>2. QED
    BY PoolStep, TypeStep, <2>1
<1>3. PInv => RegisteredIsOpen
  BY DEF PInv
<1>4. QED
  BY <1>1, <1>2, <1>3, PTL DEF Spec

----------------------------------------------------------------------------
(* The databases that are known. *)

\* No step leaves a database without its tables, or a known one dropped, that is not hurt.
LEMMA HurtStep == TInv /\ BareIsHurt /\ [Next]_vars => BareIsHurt'
<1> SUFFICES ASSUME TInv, BareIsHurt, [Next]_vars PROVE BareIsHurt'
  OBVIOUS
<1> USE DEF TInv, TypeOK, dicts, history
<1>1. ASSUME UNCHANGED <<content, known, hurt>> PROVE BareIsHurt'
  BY <1>1 DEF BareIsHurt
<1>2. ASSUME NEW r \in Requests, Request(r) PROVE UNCHANGED <<content, known, hurt>>
  BY <1>2 DEF Request, Look, Take, Recheck, Close, Create, Publish, PublishUrl, Connect,
              ConnectTimesOut, Work, Get, Post, Leave, Answer, Fail
<1>3. ASSUME NEW r \in Requests, NEW c \in Calls, Receive(r, c[1], c[2])
      PROVE  UNCHANGED <<content, known, hurt>>
  BY <1>3 DEF Receive
<1>4. ASSUME \/ \E op \in Operations : AdminReceive(op[1], op[2], op[3])
             \/ AdminAnswer \/ CloseCurrent \/ PopCurrent \/ Terminate
             \/ DestroyCloseAll \/ DestroyCloseNext \/ DestroyForget \/ DestroyForgetUrls
             \/ \E p \in Pools : Keep(p)
             \/ UNCHANGED vars
      PROVE  UNCHANGED <<content, known, hurt>>
  BY <1>4 DEF AdminReceive, AdminAnswer, CloseCurrent, PopCurrent, Terminate, DestroyCloseAll,
              DestroyCloseNext, DestroyForget, DestroyForgetUrls, Keep, vars
<1>5. ASSUME Ensure PROVE BareIsHurt'
  BY <1>5 DEF Ensure, Ensured, AdminAt, Administration, BareIsHurt, Exists
<1>6. ASSUME EnsureInit PROVE BareIsHurt'
  BY <1>6 DEF EnsureInit, Ensured, AdminAt, Administration, BareIsHurt
<1>7. ASSUME InitDb PROVE BareIsHurt'
  BY <1>7 DEF InitDb, AdminAt, Administration, BareIsHurt
<1>8. ASSUME BackupCopy PROVE BareIsHurt'
  BY <1>8 DEF BackupCopy, Copied, AdminAt, Administration, BareIsHurt, Exists
<1>9. ASSUME RestoreDrop PROVE BareIsHurt'
  BY <1>9 DEF RestoreDrop, AdminAt, Administration, BareIsHurt
<1>10. ASSUME RestoreCopy PROVE BareIsHurt'
  BY <1>10 DEF RestoreCopy, Copied, AdminAt, Administration, BareIsHurt, Exists
<1>11. ASSUME DestroyList PROVE BareIsHurt'
  BY <1>11 DEF DestroyList, BareIsHurt
<1>12. ASSUME Restart PROVE BareIsHurt'
  BY <1>12 DEF Restart, BareIsHurt
<1>13. QED
  BY <1>1, <1>2, <1>3, <1>4, <1>5, <1>6, <1>7, <1>8, <1>9, <1>10, <1>11, <1>12 DEF Next, Admin

\* Whatever is created, restored, copied, cut short or crashes: a database is known and
\* not ready only where an error has left it so.
THEOREM KnownStaysReady == Spec => []KnownIsReady
<1>1. Init => TInv /\ BareIsHurt
  BY TypeInit DEF Init, BareIsHurt
<1>2. TInv /\ BareIsHurt /\ [Next]_vars => (TInv /\ BareIsHurt)'
  BY TypeStep, HurtStep
<1>3. TInv /\ BareIsHurt => KnownIsReady
  BY DEF TInv, TypeOK, BareIsHurt, KnownIsReady
<1>4. QED
  BY <1>1, <1>2, <1>3, PTL DEF Spec

----------------------------------------------------------------------------
(* Restores. *)

\* A database that a pool or a request is for has been named since the start.
UseIsTouched ==
  /\ \A p \in Pools : Alive(p) => pools[p].db \in touched
  /\ \A r \in Requests : req[r] # Null => Db(r) \in touched

\* Only a handler, and the exit that follows it, have a connection.
ConnectionsFit == \A r \in Requests : conn[r] # "none" => pc[r] \in {"handler", "work", "exit", "leave"}

\* A restore that has not answered has met no error, and its source is there.
RestoreFits ==
  admin # Null /\ admin.step # "done" =>
    /\ admin.code = 0
    /\ AdminAt({"restore"}, admin.step) /\ admin.step # "close" => Exists(admin.other) \/ admin.other = admin.db

RInv == TInv /\ UseIsTouched /\ ConnectionsFit /\ RestoreFits

\* Pools and requests are only ever for databases that requests have named.
LEMMA TouchStep == TInv /\ UseIsTouched /\ [Next]_vars => UseIsTouched'
<1> SUFFICES ASSUME TInv, UseIsTouched, [Next]_vars PROVE UseIsTouched'
  OBVIOUS
<1> USE DatabasesAssumption DEF TInv, dicts, history, Step, Db, Requesting
<1>0. pools \in PoolMap /\ Null \notin PoolObject
  BY DEF TypeOK, PoolMap
<1>a. ASSUME \A p \in Pools : pools'[p] # Null => pools[p] # Null /\ pools'[p].db = pools[p].db,
             UNCHANGED <<req, touched>>
      PROVE  UseIsTouched'
  BY <1>a DEF UseIsTouched, Alive
<1>b. ASSUME UNCHANGED <<pools, touched>>, \A r \in Requests : req'[r] \in {req[r], Null}
      PROVE  UseIsTouched'
  BY <1>b DEF UseIsTouched, Alive
<1>c. ASSUME NEW r \in Requests, NEW why, Fail(r, why) PROVE UseIsTouched'
  BY <1>0, <1>a, <1>c, SweptKeeps DEF Fail
<1>1. ASSUME NEW r \in Requests, NEW c \in Calls, Receive(r, c[1], c[2]) PROVE UseIsTouched'
  BY <1>1 DEF Receive, UseIsTouched, Alive, TypeOK
<1>2. ASSUME NEW r \in Requests, Look(r) \/ Recheck(r) \/ PublishUrl(r) \/ Work(r) \/ Get(r) \/ Post(r)
      PROVE  UseIsTouched'
  BY <1>2, <1>b DEF Look, Recheck, PublishUrl, Work, Get, Post
<1>3. ASSUME NEW r \in Requests, Take(r) PROVE UseIsTouched'
  BY <1>3, <1>b, <1>c DEF Take
<1>4. ASSUME NEW r \in Requests, Close(r) PROVE UseIsTouched'
  <2>1. CASE pool[Db(r)] = Null
    BY <1>4, <1>c, <2>1 DEF Close
  <2>2. CASE pool[Db(r)] # Null
    <3>1. pool[Db(r)] \in Pools /\ Alive(pool[Db(r)])
      BY <1>4, <2>2 DEF Close, TypeOK, RequestsFit, Received, ReferencedIsAlive
    <3>2. SamePools(pools, pools')
      BY <1>0, <1>4, <2>2, <3>1, ClosedKeeps DEF Close
    <3>3. QED
      BY <1>4, <1>a, <2>2, <3>2 DEF Close, SamePools
  <2>3. QED
    BY <2>1, <2>2
<1>5. ASSUME NEW r \in Requests, Create(r) PROVE UseIsTouched'
  <2> DEFINE p == CHOOSE q \in Pools : ~Alive(q)
             new == [db |-> Db(r), open |-> TRUE, idle |-> "none", raced |-> FALSE]
  <2>1. p \in Pools /\ new.db \in touched
    BY <1>5 DEF Create, UseIsTouched, RequestsFit
  <2>2. pools' = [pools EXCEPT ![p] = new] /\ UNCHANGED <<req, touched>>
    BY <1>5 DEF Create
  <2> HIDE DEF p, new
  <2>3. QED
    BY <2>1, <2>2 DEF UseIsTouched, Alive, TypeOK
<1>6. ASSUME NEW r \in Requests, Publish(r) PROVE UseIsTouched'
  <2> DEFINE raced == r \in disturbed
             ps == [pools EXCEPT ![local[r]].raced = raced]
  <2>1. local[r] \in Pools /\ Alive(local[r]) /\ raced \in BOOLEAN
    BY <1>6 DEF Publish, TypeOK, RequestsFit, ReferencedIsAlive, Holding
  <2>2. pools' = Swept(ps, pool', local') /\ UNCHANGED <<req, touched>>
    BY <1>6 DEF Publish
  <2> HIDE DEF raced
  <2>3. SamePools(pools, ps)
    BY <1>0, <2>1, RacedKeeps
  <2> HIDE DEF ps
  <2>4. QED
    BY <1>a, <2>2, <2>3, SweptKeeps DEF SamePools
<1>7. ASSUME NEW r \in Requests, Connect(r) PROVE UseIsTouched'
  <2>1. CASE Fail(r, "pool_closed")
    BY <1>c, <2>1
  <2>2. CASE ~Fail(r, "pool_closed")
    <3>1. local[r] \in Pools /\ Alive(local[r])
      BY <1>7 DEF Connect, TypeOK, RequestsFit, ReferencedIsAlive, Holding
    <3>2. pools' = [pools EXCEPT ![local[r]].idle = "none"] /\ UNCHANGED <<req, touched>>
      BY <1>7, <2>2 DEF Connect
    <3>3. SamePools(pools, pools')
      BY <1>0, <3>1, <3>2, IdleKeeps
    <3>4. QED
      BY <1>a, <3>2, <3>3 DEF SamePools
  <2>3. QED
    BY <2>1, <2>2
<1>8. ASSUME NEW r \in Requests, ConnectTimesOut(r) PROVE UseIsTouched'
  BY <1>8, <1>c DEF ConnectTimesOut
<1>9. ASSUME NEW r \in Requests, Leave(r) PROVE UseIsTouched'
  <2> DEFINE ps == IF pools[local[r]].open /\ conn[r] = "live"
                   THEN [pools EXCEPT ![local[r]].idle = "live"] ELSE pools
  <2>1. local[r] \in Pools /\ Alive(local[r])
    BY <1>9 DEF Leave, TypeOK, RequestsFit, ReferencedIsAlive, Holding
  <2>2. SamePools(pools, [pools EXCEPT ![local[r]].idle = "live"]) /\ SamePools(pools, pools)
    BY <1>0, <2>1, IdleKeeps DEF SamePools
  <2>3. SamePools(pools, ps)
    BY <2>2
  <2>4. /\ pools' = Swept(ps, pool, local') /\ req' = [req EXCEPT ![r] = Null] /\ touched' = touched
    BY <1>9 DEF Leave, Answered
  <2> HIDE DEF ps
  <2>5. \A p \in Pools : pools'[p] # Null => pools[p] # Null /\ pools'[p].db = pools[p].db
    BY <2>3, <2>4, SweptKeeps DEF SamePools
  <2>6. QED
    BY <2>4, <2>5 DEF UseIsTouched, Alive, TypeOK
<1>10. ASSUME NEW r \in Requests, Answer(r) PROVE UseIsTouched'
  BY <1>10, <1>b DEF Answer, Answered, TypeOK
<1>11. ASSUME \/ \E op \in Operations : AdminReceive(op[1], op[2], op[3])
              \/ AdminAnswer \/ Ensure \/ EnsureInit \/ InitDb \/ BackupCopy \/ RestoreDrop \/ RestoreCopy
              \/ Stops \/ DestroyForgetUrls \/ DestroyList \/ UNCHANGED vars
       PROVE  UseIsTouched'
  BY <1>11, <1>b DEF AdminReceive, AdminAnswer, Ensure, EnsureInit, InitDb, BackupCopy, RestoreDrop,
                     RestoreCopy, Stops, DestroyCloseNext, DestroyForgetUrls, DestroyList, vars
<1>12. ASSUME CloseCurrent PROVE UseIsTouched'
  <2>1. admin.db \in Databases
    BY <1>12 DEF CloseCurrent, AdminAt, TypeOK, Administration
  <2>2. SamePools(pools, pools')
    BY <1>0, <1>12, <2>1, RegisteredKeeps DEF CloseCurrent, SamePools
  <2>3. QED
    BY <1>12, <1>a, <2>2 DEF CloseCurrent, SamePools
<1>12b. ASSUME PopCurrent PROVE UseIsTouched'
  BY <1>0, <1>12b, <1>a, SweptKeeps DEF PopCurrent
<1>13. ASSUME Terminate PROVE UseIsTouched'
  <2>1. SamePools(pools, pools') /\ UNCHANGED <<req, touched>>
    BY <1>0, <1>13, TerminatedKeeps DEF Terminate
  <2>2. QED
    BY <1>a, <2>1 DEF SamePools
<1>14. ASSUME Walks PROVE UseIsTouched'
  <2>1. UNCHANGED <<req, touched>> /\ SamePools(pools, pools')
    BY <1>14, WalkStep, WalkKeeps
  <2>2. QED
    BY <1>a, <2>1 DEF SamePools
<1>15. ASSUME DestroyForget PROVE UseIsTouched'
  BY <1>0, <1>15, <1>a, SweptKeeps DEF DestroyForget
<1>16. ASSUME NEW p \in Pools, Keep(p) PROVE UseIsTouched'
  <2>1. SamePools(pools, pools') /\ UNCHANGED <<req, touched>>
    BY <1>0, <1>16, IdleKeeps DEF Keep
  <2>2. QED
    BY <1>a, <2>1 DEF SamePools
<1>17. ASSUME Restart PROVE UseIsTouched'
  BY <1>17 DEF Restart, UseIsTouched, Alive
<1>18. QED
  BY <1>1, <1>2, <1>3, <1>4, <1>5, <1>6, <1>7, <1>8, <1>9, <1>10, <1>11, <1>12, <1>12b, <1>13,
     <1>14, <1>15, <1>16, <1>17 DEF Next, Request, Admin, Walks, Stops

\* A connection is handed out when a handler is about to start, and given back at the exit.
LEMMA ConnectionStep == TInv /\ ConnectionsFit /\ [Next]_vars => ConnectionsFit'
<1> SUFFICES ASSUME TInv, ConnectionsFit, [Next]_vars PROVE ConnectionsFit'
  OBVIOUS
<1> USE DEF TInv, TypeOK, Step, ConnectionsFit, Requesting
<1>1. ASSUME NEW r \in Requests, Request(r) PROVE ConnectionsFit'
  <2>1. ASSUME NEW why, pc[r] \in InGetDb, Fail(r, why) PROVE ConnectionsFit'
    BY <2>1 DEF Fail, InGetDb
  <2>2. CASE Look(r) \/ Recheck(r) \/ Create(r) \/ Publish(r) \/ PublishUrl(r)
    BY <2>2 DEF Look, Recheck, Create, Publish, PublishUrl
  <2>3. CASE Take(r)
    BY <2>1, <2>3 DEF Take, InGetDb
  <2>4. CASE Close(r)
    BY <2>1, <2>4 DEF Close, InGetDb
  <2>5. CASE Connect(r)
    BY <2>1, <2>5 DEF Connect, InGetDb
  <2>6. CASE ConnectTimesOut(r)
    BY <2>1, <2>6 DEF ConnectTimesOut, InGetDb
  <2>7. CASE Work(r)
    BY <2>7 DEF Work
  <2>8. CASE Get(r)
    BY <2>8 DEF Get
  <2>9. CASE Post(r)
    BY <2>9 DEF Post
  <2>10. CASE Leave(r) \/ Answer(r)
    BY <2>10 DEF Leave, Answer, Answered
  <2>11. QED
    BY <1>1, <2>2, <2>3, <2>4, <2>5, <2>6, <2>7, <2>8, <2>9, <2>10 DEF Request
<1>2. ASSUME NEW r \in Requests, NEW c \in Calls, Receive(r, c[1], c[2]) PROVE ConnectionsFit'
  BY <1>2 DEF Receive
<1>3. CASE Terminate
  BY <1>3 DEF Terminate, TerminatedConns
<1>4. CASE \/ \E op \in Operations : AdminReceive(op[1], op[2], op[3])
           \/ AdminAnswer \/ Ensure \/ EnsureInit \/ InitDb \/ CloseCurrent \/ PopCurrent
           \/ BackupCopy \/ RestoreDrop \/ RestoreCopy \/ Walks \/ Stops \/ DestroyForget
           \/ DestroyForgetUrls \/ DestroyList
           \/ \E p \in Pools : Keep(p)
           \/ UNCHANGED vars
  <2>1. CASE Walks
    BY <2>1, WalkStep
  <2>2. CASE ~Walks
    BY <1>4, <2>2
       DEF AdminReceive, AdminAnswer, Ensure, EnsureInit, InitDb, CloseCurrent, PopCurrent,
           BackupCopy, RestoreDrop, RestoreCopy, Stops, DestroyCloseNext, DestroyForget,
           DestroyForgetUrls, DestroyList, Keep, vars
  <2>3. QED
    BY <2>1, <2>2
<1>5. CASE Restart
  BY <1>5 DEF Restart
<1>6. QED
  BY <1>1, <1>2, <1>3, <1>4, <1>5 DEF Next, Admin, Walks, Stops

\* From its check to its end a restore finds its source, or has dropped it itself.
LEMMA RestoreStep == TInv /\ RestoreFits /\ [Next]_vars => RestoreFits'
<1> SUFFICES ASSUME TInv, RestoreFits, [Next]_vars PROVE RestoreFits'
  OBVIOUS
<1> USE DEF TInv, dicts, history, AdminAt
<1>0. admin \in Administration \cup {Null} /\ content \in [Databases -> {"none", "bare", "ready"}]
  BY DEF TypeOK
<1>1. ASSUME UNCHANGED <<admin, content>> PROVE RestoreFits'
  BY <1>1 DEF RestoreFits, Exists
<1>2. ASSUME NEW r \in Requests, Request(r) PROVE UNCHANGED <<admin, content>>
  BY <1>2 DEF Request, Look, Take, Recheck, Close, Create, Publish, PublishUrl, Connect,
              ConnectTimesOut, Work, Get, Post, Leave, Answer, Fail
<1>3. ASSUME NEW r \in Requests, NEW c \in Calls, Receive(r, c[1], c[2]) PROVE UNCHANGED <<admin, content>>
  BY <1>3 DEF Receive
<1>4. ASSUME (\E p \in Pools : Keep(p)) \/ UNCHANGED vars PROVE UNCHANGED <<admin, content>>
  BY <1>4 DEF Keep, vars
<1>5. ASSUME NEW op \in Operations, AdminReceive(op[1], op[2], op[3]) PROVE RestoreFits'
  BY <1>5 DEF AdminReceive, RestoreFits, First
<1>6. ASSUME AdminAnswer \/ Restart PROVE RestoreFits'
  BY <1>6 DEF AdminAnswer, Restart, RestoreFits
<1>7. ASSUME NEW code, Done(code), admin # Null PROVE RestoreFits'
  BY <1>0, <1>7 DEF Done, RestoreFits, Administration
<1>8. ASSUME admin # Null, admin.op # "restore", admin.step # "done", NEW step \in Steps, Go(step)
      PROVE  RestoreFits'
  BY <1>0, <1>8 DEF Go, RestoreFits, Administration
<1>9. ASSUME Ensure \/ EnsureInit PROVE RestoreFits'
  BY <1>7, <1>8, <1>9 DEF Ensure, EnsureInit, Ensured, Steps
<1>10. ASSUME InitDb \/ BackupCopy \/ RestoreCopy \/ DestroyList PROVE RestoreFits'
  BY <1>7, <1>10 DEF InitDb, BackupCopy, RestoreCopy, DestroyList
<1>11. ASSUME CloseCurrent PROVE RestoreFits'
  BY <1>0, <1>7, <1>11 DEF CloseCurrent, CanStart, Go, RestoreFits, Administration, Exists
<1>12. ASSUME Terminate PROVE RestoreFits'
  BY <1>0, <1>12 DEF Terminate, Go, RestoreFits, Administration, Exists
<1>13. ASSUME RestoreDrop PROVE RestoreFits'
  BY <1>0, <1>7, <1>13 DEF RestoreDrop, Go, RestoreFits, Administration, Exists
<1>14. ASSUME PopCurrent PROVE RestoreFits'
  BY <1>0, <1>14 DEF PopCurrent, Go, RestoreFits, Administration, Exists
<1>15. ASSUME DestroyForget \/ DestroyForgetUrls PROVE RestoreFits'
  BY <1>8, <1>15 DEF DestroyForget, DestroyForgetUrls, Steps
<1>16. ASSUME Stops PROVE RestoreFits'
  BY <1>7, <1>16 DEF Stops, DestroyCloseNext
<1>17. ASSUME Walks PROVE RestoreFits'
  <2>1. admin # Null /\ admin.op = "destroy" /\ admin.step # "done"
        /\ admin' # Null /\ admin'.op = "destroy" /\ admin'.code = admin.code
    BY <1>17, WalkStep
  <2>2. QED
    BY <2>1 DEF RestoreFits
<1>18. QED
  BY <1>1, <1>2, <1>3, <1>4, <1>5, <1>6, <1>9, <1>10, <1>11, <1>12, <1>13, <1>14, <1>15, <1>16,
     <1>17 DEF Next, Admin, Walks, Stops

\* A restore loses a database only to a backup that requests have named, or to itself,
\* whatever requests and other operations do meanwhile.
THEOREM RestoresKeepData == Spec => RestoreKeepsData
<1>1. Init => RInv
  BY TypeInit, DatabasesAssumption
     DEF Init, RInv, UseIsTouched, ConnectionsFit, RestoreFits, Alive
<1>2. RInv /\ [Next]_vars => RInv'
  BY TypeStep, TouchStep, ConnectionStep, RestoreStep DEF RInv
<1>3. RInv /\ [Next]_vars =>
        [AdminAt({"restore"}, "copy") /\ admin' # Null /\ admin'.code = 500
           => admin.other = admin.db \/ admin.other \in touched]_vars
  <2> SUFFICES ASSUME RInv, [Next]_vars, AdminAt({"restore"}, "copy"), admin' # Null, admin'.code = 500
               PROVE  admin.other = admin.db \/ admin.other \in touched
    OBVIOUS
  <2>1. admin.code = 0 /\ (Exists(admin.other) \/ admin.other = admin.db)
    BY DEF RInv, RestoreFits, AdminAt
  <2>2. admin' # admin
    BY <2>1
  <2>3. RestoreCopy
    BY <2>2 DEF Next, Request, Admin, AdminAt, Receive, Look, Take, Recheck, Close, Create, Publish,
                PublishUrl, Connect, ConnectTimesOut, Work, Get, Post, Leave, Answer, Fail, AdminReceive,
                LoopFree, AdminAnswer, Ensure, EnsureInit, InitDb, CloseCurrent, PopCurrent, Terminate,
                BackupCopy, RestoreDrop, DestroyCloseAll, DestroyCloseNext, DestroyForget,
                DestroyForgetUrls, DestroyList, Keep, Restart, vars
  <2>4. ~Exists(admin.other) \/ Sessions(admin.other)
    <3>1. admin \in Administration
      BY DEF AdminAt, RInv, TInv, TypeOK
    <3>2. Done(200) => admin'.code = 200
      BY <3>1 DEF Done, Administration
    <3>3. ~Done(200)
      BY <3>2
    <3>4. QED
      BY <2>3, <3>3 DEF RestoreCopy
  <2>5. Sessions(admin.other) => admin.other \in touched
    BY DEF Sessions, RInv, UseIsTouched, ConnectionsFit, TInv, RequestsFit, Db
  <2>6. QED
    BY <2>1, <2>4, <2>5
<1>4. QED
  BY <1>1, <1>2, <1>3, PTL DEF Spec, RestoreKeepsData

----------------------------------------------------------------------------
(* A request pays only for what happened during its life. *)

\* Only the stages that hold a pool have one; a connection without a request is clean, and
\* a request in get_db has not failed yet.
LocalFits == \A r \in Requests : local[r] # Null => pc[r] \in Holding
IdleIsClean ==
  \A r \in Requests :
    /\ pc[r] = "idle" => req[r] = Null /\ reply[r] = "ok"
    /\ pc[r] \in InGetDb => reply[r] = "ok"

\* A pool is kept, and used, for its own database.
PoolsFit ==
  /\ \A d \in Databases : pool[d] # Null => pools[pool[d]].db = d
  /\ \A r \in Requests : local[r] # Null => pools[local[r]].db = Db(r)

\* Who makes a pool has disturbed all others on its database, and so have the operations
\* that take pools away, until they have done so.
MakersDisturb ==
  \A q \in Requests : pc[q] \in Creating =>
    \A r \in Requests \ {q} : req[r] # Null /\ Db(r) = Db(q) => r \in disturbed
LeavingDisturbs ==
  \A d \in Databases : Leaving(d) =>
    \A r \in Requests : req[r] # Null /\ Db(r) = d => r \in disturbed
TerminateDisturbs ==
  AdminAt({"backup", "restore"}, "terminate") =>
    /\ \A r \in Requests : req[r] # Null /\ Db(r) = admin.db => r \in disturbed
    /\ pool[admin.db] # Null => pools[pool[admin.db]].raced

\* The broken connection of a pool of quiet times is out of reach of quiet requests.
NewIsFresh == \A r \in Requests : pc[r] = "publish" => ~pools[local[r]].raced
BrokenIsOld ==
  \A p \in Pools : Alive(p) /\ pools[p].idle = "broken" /\ ~pools[p].raced =>
    /\ \A d \in Databases : pool[d] # p
    /\ \A r \in Requests : local[r] = p => r \in disturbed

\* What a quiet request finds at every stage.
QuietHas ==
  \A r \in Requests \ disturbed :
    /\ pc[r] \in {"take", "close"} => pool[Db(r)] # Null
    /\ pc[r] \in {"publish_url", "connect"} => pools[local[r]].open \/ Db(r) \in stranded
    /\ conn[r] # "broken"
    /\ reply[r] \notin PoolErrors \/ Db(r) \in stranded

QInv ==
  /\ PInv /\ ConnectionsFit /\ LocalFits /\ IdleIsClean /\ PoolsFit
  /\ MakersDisturb /\ LeavingDisturbs /\ TerminateDisturbs /\ NewIsFresh /\ BrokenIsOld /\ QuietHas

----------------------------------------------------------------------------
(* What a step can change. *)

Received1(r) == \E c \in Calls : Receive(r, c[1], c[2])

\* A request that neither moves nor arrives keeps its state; only its connection may break.
LEMMA Unmoved ==
  ASSUME TInv, [Next]_vars, NEW r \in Requests, ~Request(r), ~Received1(r), ~Restart
  PROVE  /\ pc'[r] = pc[r] /\ req'[r] = req[r] /\ local'[r] = local[r] /\ reply'[r] = reply[r]
         /\ conn'[r] = conn[r] \/ (Terminate /\ conn[r] = "live" /\ Db(r) = admin.db)
         /\ r \in disturbed => r \in disturbed'
<1> USE DEF TInv, TypeOK, dicts, history, Step, Requesting
<1>1. ASSUME NEW q \in Requests, Request(q)
      PROVE  /\ pc'[r] = pc[r] /\ req'[r] = req[r] /\ local'[r] = local[r] /\ reply'[r] = reply[r]
             /\ conn'[r] = conn[r] /\ (r \in disturbed => r \in disturbed')
  <2>0. q # r
    BY <1>1
  <2>1. CASE Look(q) \/ Recheck(q) \/ Create(q) \/ Publish(q) \/ PublishUrl(q)
    BY <2>0, <2>1 DEF Look, Recheck, Create, Publish, PublishUrl
  <2>2. CASE Take(q) \/ Close(q) \/ Connect(q) \/ ConnectTimesOut(q)
    BY <2>0, <2>2 DEF Take, Close, Connect, ConnectTimesOut, Fail
  <2>3. CASE Work(q) \/ Get(q)
    BY <2>0, <2>3 DEF Work, Get, HandlerRaises
  <2>4. CASE Post(q)
    BY <2>0, <2>4 DEF Post, HandlerRaises
  <2>5. CASE Leave(q) \/ Answer(q)
    BY <2>0, <2>5 DEF Leave, Answer, Answered
  <2>6. QED
    BY <1>1, <2>1, <2>2, <2>3, <2>4, <2>5 DEF Request
<1>2. ASSUME NEW q \in Requests, NEW c \in Calls, Receive(q, c[1], c[2])
      PROVE  /\ pc'[r] = pc[r] /\ req'[r] = req[r] /\ local'[r] = local[r] /\ reply'[r] = reply[r]
             /\ conn'[r] = conn[r] /\ (r \in disturbed => r \in disturbed')
  <2>1. q # r
    BY <1>2 DEF Received1
  <2>2. QED
    BY <1>2, <2>1 DEF Receive
<1>3. CASE Terminate
  BY <1>3 DEF Terminate, TerminatedConns, Db
<1>4. CASE \/ \E op \in Operations : AdminReceive(op[1], op[2], op[3])
           \/ AdminAnswer \/ Ensure \/ EnsureInit \/ InitDb \/ CloseCurrent \/ PopCurrent
           \/ BackupCopy \/ RestoreDrop \/ RestoreCopy \/ Walks \/ Stops \/ DestroyForget
           \/ DestroyForgetUrls \/ DestroyList
           \/ \E p \in Pools : Keep(p)
           \/ UNCHANGED vars
  <2>1. CASE Walks
    BY <2>1, WalkStep
  <2>2. CASE ~Walks
    BY <1>4, <2>2
       DEF AdminReceive, AdminAnswer, Ensure, EnsureInit, InitDb, CloseCurrent, PopCurrent,
           BackupCopy, RestoreDrop, RestoreCopy, Stops, DestroyCloseNext, DestroyForget,
           DestroyForgetUrls, DestroyList, Keep, vars
  <2>3. QED
    BY <2>1, <2>2
<1>5. QED
  BY <1>1, <1>2, <1>3, <1>4 DEF Next, Admin, Walks, Stops

\* A request stays what it is, and disturbed, until it is answered.
LEMMA Stays ==
  ASSUME TInv, [Next]_vars, NEW r \in Requests, req'[r] # Null
  PROVE  Received1(r) \/ (req'[r] = req[r] /\ (r \in disturbed => r \in disturbed'))
<1> USE DEF TInv, TypeOK, dicts, history, Step
<1>1. CASE Request(r)
  <2>1. CASE Look(r) \/ Recheck(r) \/ Create(r) \/ Publish(r) \/ PublishUrl(r)
    BY <2>1 DEF Look, Recheck, Create, Publish, PublishUrl
  <2>2. CASE Take(r) \/ Close(r) \/ Connect(r) \/ ConnectTimesOut(r)
    BY <2>2 DEF Take, Close, Connect, ConnectTimesOut, Fail
  <2>3. CASE Work(r) \/ Get(r) \/ Post(r)
    BY <2>3 DEF Work, Get, Post
  <2>4. CASE Leave(r) \/ Answer(r)
    BY <2>4 DEF Leave, Answer, Answered
  <2>5. QED
    BY <1>1, <2>1, <2>2, <2>3, <2>4 DEF Request
<1>2. CASE Restart
  BY <1>2 DEF Restart
<1>3. CASE ~Request(r) /\ ~Restart
  BY <1>3, Unmoved
<1>4. QED
  BY <1>1, <1>2, <1>3

\* It gets a pool by making it or from the dictionary.
LEMMA OwnLocal ==
  ASSUME TInv, NEW r \in Requests, Request(r), local'[r] # Null
  PROVE  \/ local'[r] = local[r]
         \/ Create(r)
         \/ Take(r) /\ local'[r] = pool[Db(r)]
<1> USE DEF TInv, TypeOK, dicts, history, Step
<1>1. CASE Look(r) \/ Recheck(r) \/ Publish(r) \/ PublishUrl(r)
  BY <1>1 DEF Look, Recheck, Publish, PublishUrl
<1>2. CASE Take(r) \/ Close(r) \/ Connect(r) \/ ConnectTimesOut(r)
  BY <1>2 DEF Take, Close, Connect, ConnectTimesOut, Fail
<1>3. CASE Work(r) \/ Get(r) \/ Post(r)
  BY <1>3 DEF Work, Get, Post
<1>4. CASE Leave(r) \/ Answer(r)
  BY <1>4 DEF Leave, Answer
<1>5. QED
  BY <1>1, <1>2, <1>3, <1>4 DEF Request

\* The dictionary changes by a request that stores its pool, or forgets.
LEMMA DictionaryChange ==
  ASSUME TInv, [Next]_vars, NEW d \in Databases
  PROVE  \/ pool'[d] = pool[d]
         \/ pool'[d] = Null /\ ((PopCurrent /\ d = admin.db) \/ DestroyForget \/ Restart)
         \/ \E r \in Requests : Publish(r) /\ d = Db(r) /\ pool'[d] = local[r]
<1> USE DEF TInv, TypeOK, dicts
<1>1. ASSUME NEW r \in Requests, Request(r), ~Publish(r) PROVE pool' = pool
  BY <1>1 DEF Request, Look, Take, Recheck, Close, Create, PublishUrl, Connect, ConnectTimesOut,
              Work, Get, Post, Leave, Answer, Fail
<1>2. ASSUME NEW r \in Requests, Publish(r), pool'[d] # pool[d] PROVE d = Db(r) /\ pool'[d] = local[r]
  BY <1>2 DEF Publish
<1>3. ASSUME NEW r \in Requests, Received1(r) PROVE pool' = pool
  BY <1>3 DEF Received1, Receive
<1>4. ASSUME PopCurrent, pool'[d] # pool[d] PROVE d = admin.db /\ pool'[d] = Null
  BY <1>4 DEF PopCurrent
<1>5. CASE DestroyForget \/ Restart
  BY <1>5 DEF DestroyForget, Restart
<1>6. ASSUME \/ \E op \in Operations : AdminReceive(op[1], op[2], op[3])
             \/ AdminAnswer \/ Ensure \/ EnsureInit \/ InitDb \/ CloseCurrent \/ Terminate
             \/ BackupCopy \/ RestoreDrop \/ RestoreCopy \/ DestroyCloseAll \/ DestroyCloseNext
             \/ DestroyForgetUrls \/ DestroyList
             \/ \E p \in Pools : Keep(p)
             \/ UNCHANGED vars
      PROVE  pool' = pool
  BY <1>6 DEF AdminReceive, AdminAnswer, Ensure, EnsureInit, InitDb, CloseCurrent, Terminate,
              BackupCopy, RestoreDrop, RestoreCopy, DestroyCloseAll, DestroyCloseNext,
              DestroyForgetUrls, DestroyList, Keep, vars
<1>7. QED
  BY <1>1, <1>2, <1>3, <1>4, <1>5, <1>6 DEF Next, Admin, Received1

\* A pool that was stranded stays so until it is taken out or replaced.
LEMMA StrandedChange ==
  ASSUME TInv, [Next]_vars, NEW d \in stranded
  PROVE  \/ d \in stranded'
         \/ PopCurrent /\ d = admin.db
         \/ DestroyForget \/ Restart
         \/ \E r \in Requests : Publish(r) /\ d = Db(r)
<1> USE DEF TInv, dicts, history
<1>1. ASSUME NEW r \in Requests, Request(r), ~Publish(r) PROVE stranded' = stranded
  BY <1>1 DEF Request, Look, Take, Recheck, Close, Create, PublishUrl, Connect, ConnectTimesOut,
              Work, Get, Post, Leave, Answer, Fail
<1>2. ASSUME NEW r \in Requests, Publish(r), d \notin stranded' PROVE d = Db(r)
  BY <1>2 DEF Publish
<1>3. ASSUME NEW r \in Requests, Received1(r) PROVE stranded' = stranded
  BY <1>3 DEF Received1, Receive
<1>4. ASSUME PopCurrent, d \notin stranded' PROVE d = admin.db
  BY <1>4 DEF PopCurrent
<1>5. ASSUME DestroyCloseNext PROVE stranded \subseteq stranded'
  BY <1>5 DEF DestroyCloseNext
<1>6. ASSUME \/ \E op \in Operations : AdminReceive(op[1], op[2], op[3])
             \/ AdminAnswer \/ Ensure \/ EnsureInit \/ InitDb \/ CloseCurrent \/ Terminate
             \/ BackupCopy \/ RestoreDrop \/ RestoreCopy \/ DestroyCloseAll
             \/ DestroyForgetUrls \/ DestroyList
             \/ \E p \in Pools : Keep(p)
             \/ UNCHANGED vars
      PROVE  stranded' = stranded
  BY <1>6 DEF AdminReceive, AdminAnswer, Ensure, EnsureInit, InitDb, CloseCurrent, Terminate,
              BackupCopy, RestoreDrop, RestoreCopy, DestroyCloseAll, DestroyForgetUrls,
              DestroyList, Keep, vars
<1>7. QED
  BY <1>1, <1>2, <1>3, <1>4, <1>5, <1>6 DEF Next, Admin, Received1

\* An operation is about to take a pool out because it has just closed it, or has before;
\* and terminates sessions when there is no pool, or no more.
LEMMA AdminChange ==
  ASSUME TInv, [Next]_vars
  PROVE  /\ \A d \in Databases : Leaving(d)' =>
              \/ Leaving(d) /\ admin' = admin
              \/ CloseCurrent /\ CanStart /\ d = admin.db
              \/ Walks
         /\ AdminAt({"backup", "restore"}, "terminate")' =>
              \/ AdminAt({"backup", "restore"}, "terminate") /\ admin' = admin
              \/ CloseCurrent /\ CanStart /\ pool[admin.db] = Null /\ admin'.db = admin.db
              \/ PopCurrent /\ admin'.db = admin.db
<1> USE DEF TInv, dicts, history, AdminAt, Leaving
<1>0. admin \in Administration \cup {Null}
  BY DEF TypeOK
<1>1. ASSUME NEW r \in Requests, Request(r) PROVE admin' = admin
  BY <1>1 DEF Request, Look, Take, Recheck, Close, Create, Publish, PublishUrl, Connect,
              ConnectTimesOut, Work, Get, Post, Leave, Answer, Fail
<1>2. ASSUME NEW r \in Requests, Received1(r) PROVE admin' = admin
  BY <1>2 DEF Received1, Receive
<1>3. ASSUME (\E p \in Pools : Keep(p)) \/ UNCHANGED vars PROVE admin' = admin
  BY <1>3 DEF Keep, vars
<1>4. ASSUME NEW op \in Operations, AdminReceive(op[1], op[2], op[3])
      PROVE  admin'.step \notin {"pop", "close_next", "forget", "terminate"}
  <2>1. op[1] \in Ops
    BY DatabasesAssumption
  <2>2. admin'.step = First(op[1])
    BY <1>4 DEF AdminReceive
  <2>3. First(op[1]) \in {"ensure", "truncate", "close", "close_all"}
    BY <2>1 DEF First, Ops
  <2>4. QED
    BY <2>2, <2>3
<1>5. ASSUME AdminAnswer \/ Restart PROVE admin' = Null
  BY <1>5 DEF AdminAnswer, Restart
<1>6. ASSUME NEW code, Done(code), admin # Null PROVE admin'.step = "done"
  BY <1>0, <1>6 DEF Done, Administration
<1>7. ASSUME NEW step, Go(step), admin # Null
      PROVE  admin'.step = step /\ admin'.db = admin.db /\ admin'.op = admin.op
  BY <1>0, <1>7 DEF Go, Administration
<1>8. ASSUME Ensure \/ EnsureInit \/ InitDb \/ Terminate \/ BackupCopy \/ RestoreDrop \/ RestoreCopy
             \/ DestroyForget \/ DestroyForgetUrls \/ DestroyList \/ Stops
      PROVE  admin'.step \notin {"pop", "close_next", "forget", "terminate"}
  BY <1>6, <1>7, <1>8 DEF Ensure, EnsureInit, Ensured, InitDb, Terminate, BackupCopy, RestoreDrop,
                          RestoreCopy, DestroyForget, DestroyForgetUrls, DestroyList, Stops,
                          DestroyCloseNext
<1>9. ASSUME CloseCurrent
      PROVE  \/ admin'.step = "done"
             \/ CanStart /\ admin'.db = admin.db /\ admin'.step = "pop"
             \/ CanStart /\ admin'.db = admin.db /\ admin'.step = "terminate" /\ pool[admin.db] = Null
  BY <1>6, <1>7, <1>9 DEF CloseCurrent
<1>10. ASSUME PopCurrent PROVE admin'.step = "terminate" /\ admin'.db = admin.db
  BY <1>7, <1>10 DEF PopCurrent
<1>11. ASSUME Walks PROVE admin'.step # "terminate"
  BY <1>11, WalkStep DEF WalkDoes
<1>12. QED
  BY <1>1, <1>2, <1>3, <1>4, <1>5, <1>8, <1>9, <1>10, <1>11 DEF Next, Admin, Received1, Walks, Stops

\* Making a pool takes an object that nobody refers to, and changes no other.
LEMMA CreateMakes ==
  ASSUME TInv, NEW r \in Requests, Create(r)
  PROVE  /\ local'[r] \in Pools /\ ~Alive(local'[r])
         /\ pools' = [pools EXCEPT ![local'[r]] = [db |-> Db(r), open |-> TRUE, idle |-> "none",
                                                   raced |-> FALSE]]
         /\ pools'[local'[r]] = [db |-> Db(r), open |-> TRUE, idle |-> "none", raced |-> FALSE]
<1> DEFINE p == CHOOSE q \in Pools : ~Alive(q)
<1>1. p \in Pools /\ ~Alive(p)
  BY DEF Create
<1>2. local'[r] = p
  BY DEF Create, TInv, TypeOK
<1>3. pools' = [pools EXCEPT ![p] = [db |-> Db(r), open |-> TRUE, idle |-> "none", raced |-> FALSE]]
  BY DEF Create
<1> HIDE DEF p
<1>4. QED
  BY <1>1, <1>2, <1>3 DEF TInv, TypeOK

\* Who closes pools.
Closes(p) ==
  \/ \E r \in Requests : Close(r) /\ pool[Db(r)] = p
  \/ CloseCurrent /\ CanStart /\ pool[admin.db] = p
  \/ Walks

\* A pool that was there, is.
Kept(p) ==
  /\ Alive(p) /\ pools'[p].db = pools[p].db
  /\ \A r \in Requests : Publish(r) /\ local[r] = p => (pools'[p].raced <=> r \in disturbed)
  /\ (\A r \in Requests : Publish(r) => local[r] # p) => pools'[p].raced = pools[p].raced
  /\ pools'[p].idle = "broken" => pools[p].idle = "broken" \/ (Terminate /\ pools[p].db = admin.db)
  /\ pools[p].open => pools'[p].open \/ Closes(p)

\* Publishing changes only where a request is, so that nothing else happens in that step.
LEMMA PublishAlone ==
  ASSUME TInv, NEW r \in Requests, Publish(r)
  PROVE  /\ pc[r] = "publish" /\ pc'[r] = "publish_url"
         /\ \A q \in Requests \ {r} : pc'[q] = pc[q]
         /\ ~Terminate
         /\ \A p \in Pools : ~Closes(p)
<1>1. pc[r] = "publish" /\ pc' = [pc EXCEPT ![r] = "publish_url"]
  BY DEF Publish, Step
<1>2. pc'[r] = "publish_url" /\ \A q \in Requests \ {r} : pc'[q] = pc[q]
  BY <1>1 DEF TInv, TypeOK
<1>3. ~Terminate /\ ~CloseCurrent /\ ~Walks
  <2>1. ~Walks
    BY <1>1, <1>2, WalkStep DEF Requesting
  <2>2. QED
    BY <1>1, <1>2, <2>1 DEF Terminate, CloseCurrent, Requesting
<1>4. ASSUME NEW q \in Requests, Close(q) PROVE FALSE
  <2>1. pc[q] = "close" /\ pc'[q] # "close"
    BY <1>4 DEF Close, Fail, TInv, TypeOK
  <2>2. QED
    BY <1>1, <1>2, <2>1
<1>5. QED
  BY <1>1, <1>2, <1>3, <1>4 DEF Closes

\* A pool object is either made in this step or was there before.
LEMMA PoolsChange ==
  ASSUME TInv, [Next]_vars, NEW p \in Pools, pools'[p] # Null,
         \A r \in Requests : ~Create(r) \/ local'[r] # p
  PROVE  Kept(p)
<1>0. pools \in PoolMap /\ Null \notin PoolObject /\ Null \notin Pools
  BY DatabasesAssumption DEF TInv, TypeOK, PoolMap
<1>1. ASSUME pools'[p] = pools[p], \A r \in Requests : Publish(r) => local[r] # p
      PROVE  Kept(p)
  BY <1>1 DEF Kept, Alive
<1>2. ASSUME NEW registered, NEW used, pools' = Swept(pools, registered, used)
      PROVE  pools'[p] = pools[p]
  BY <1>0, <1>2, SweptKeeps
<1>3. ASSUME \/ \E r \in Requests : Look(r) \/ Recheck(r) \/ PublishUrl(r) \/ Work(r) \/ Get(r)
                                     \/ Post(r) \/ Answer(r)
             \/ \E r \in Requests, c \in Calls : Receive(r, c[1], c[2])
             \/ \E op \in Operations : AdminReceive(op[1], op[2], op[3])
             \/ AdminAnswer \/ Ensure \/ EnsureInit \/ InitDb \/ BackupCopy \/ RestoreDrop
             \/ RestoreCopy \/ Stops \/ DestroyForgetUrls \/ DestroyList
             \/ UNCHANGED vars
      PROVE  pools' = pools
  BY <1>3 DEF Look, Recheck, PublishUrl, Work, Get, Post, Answer, Receive, AdminReceive, AdminAnswer,
              Ensure, EnsureInit, InitDb, BackupCopy, RestoreDrop, RestoreCopy, Stops,
              DestroyCloseNext, DestroyForgetUrls, DestroyList, vars
<1>4. ASSUME NEW r \in Requests, NEW why, Fail(r, why) PROVE pools'[p] = pools[p]
  <2>1. pools' = Swept(pools, pool, local')
    BY <1>4 DEF Fail
  <2>2. QED
    BY <1>2, <2>1
<1>5. ASSUME NEW r \in Requests, Take(r) \/ ConnectTimesOut(r) PROVE pools'[p] = pools[p]
  BY <1>4, <1>5 DEF Take, ConnectTimesOut
<1>6. ASSUME DestroyForget \/ PopCurrent PROVE pools'[p] = pools[p]
  <2>1. pools' = Swept(pools, pool', local)
    BY <1>6 DEF DestroyForget, PopCurrent
  <2>2. QED
    BY <1>2, <2>1
<1>7. ASSUME NEW r \in Requests, Create(r) PROVE pools'[p] = pools[p]
  BY <1>0, <1>7, CreateMakes DEF PoolMap
<1>p. CASE \E r \in Requests : Publish(r)
  <2>1. PICK r \in Requests : Publish(r)
    BY <1>p
  <2>2. local[r] \in Pools /\ Alive(local[r])
    BY <2>1, PublishAlone DEF TInv, TypeOK, RequestsFit, ReferencedIsAlive, Holding
  <2> DEFINE raced == r \in disturbed
             ps == [pools EXCEPT ![local[r]].raced = raced]
  <2>3. raced \in BOOLEAN
    OBVIOUS
  <2>4. pools' = Swept(ps, pool', local)
    BY <2>1 DEF Publish
  <2>5. \A q \in Requests : Publish(q) => q = r
    BY <2>1, PublishAlone
  <2> HIDE DEF raced
  <2>6. ps \in PoolMap
    BY <1>0, <2>2, <2>3, RacedKeeps DEF SamePools
  <2>7. pools'[p] = ps[p]
    <3> HIDE DEF ps
    <3> QED BY <2>4, <2>6, SweptKeeps
  <2>8. Alive(p) /\ ps[p].db = pools[p].db /\ ps[p].open = pools[p].open /\ ps[p].idle = pools[p].idle
        /\ ps[p].raced = (IF p = local[r] THEN raced ELSE pools[p].raced)
    BY <1>0, <2>2, <2>3, <2>7 DEF PoolMap, PoolObject, Alive
  <2>9. raced <=> r \in disturbed
    BY DEF raced
  <2> HIDE DEF ps
  <2>10. \A q \in Requests : Publish(q) /\ local[q] = p => (pools'[p].raced <=> q \in disturbed)
    BY <2>5, <2>7, <2>8, <2>9
  <2>11. (\A q \in Requests : Publish(q) => local[q] # p) => pools'[p].raced = pools[p].raced
    BY <2>1, <2>7, <2>8
  <2>12. QED
    BY <2>7, <2>8, <2>10, <2>11 DEF Kept
<1>q. CASE \A r \in Requests : ~Publish(r)
  <2>1. ASSUME Alive(p), pools'[p].db = pools[p].db, pools'[p].raced = pools[p].raced,
               pools'[p].idle = "broken" => pools[p].idle = "broken",
               pools[p].open => pools'[p].open \/ Closes(p)
        PROVE  Kept(p)
    BY <1>q, <2>1 DEF Kept
  <2>2. CASE pools'[p] = pools[p]
    BY <1>1, <1>q, <2>2
  <2>3. ASSUME NEW P \in SUBSET Pools, \A q \in P : Alive(q), pools'[p] = Closed(P)[p],
               p \in P => Closes(p)
        PROVE  Kept(p)
    <3>1. CASE p \in P
      <4>1. pools'[p] = [pools[p] EXCEPT !.open = FALSE, !.idle = "none"] /\ Alive(p)
        BY <2>3, <3>1 DEF Closed
      <4>2. QED
        BY <1>0, <2>1, <2>3, <3>1, <4>1 DEF PoolMap, PoolObject, Alive
    <3>2. CASE p \notin P
      BY <2>2, <2>3, <3>2 DEF Closed
    <3>3. QED
      BY <3>1, <3>2
  <2>4. ASSUME NEW q \in Pools, Alive(q), NEW idle \in {"none", "live"},
               pools'[p] = [pools EXCEPT ![q].idle = idle][p]
        PROVE  Kept(p)
    <3>1. CASE p = q
      BY <1>0, <2>1, <2>4, <3>1 DEF PoolMap, PoolObject, Alive
    <3>2. CASE p # q
      BY <1>0, <2>2, <2>4, <3>2 DEF PoolMap
    <3>3. QED
      BY <3>1, <3>2
  <2>5. ASSUME NEW r \in Requests, Close(r) PROVE Kept(p)
    <3>1. CASE pool[Db(r)] = Null
      BY <1>4, <2>2, <2>5, <3>1 DEF Close
    <3>2. CASE pool[Db(r)] # Null
      <4>1. pools' = Closed({pool[Db(r)]})
        BY <2>5, <3>2 DEF Close
      <4>2. Db(r) \in Databases
        BY <2>5 DEF Close, Db, TInv, TypeOK, RequestsFit, Received
      <4>3. pool[Db(r)] \in Pools /\ Alive(pool[Db(r)])
        BY <3>2, <4>2 DEF TInv, TypeOK, ReferencedIsAlive
      <4>4. p = pool[Db(r)] => Closes(p)
        BY <2>5 DEF Closes
      <4>5. QED
        BY <2>3, <4>1, <4>3, <4>4
    <3>3. QED
      BY <3>1, <3>2
  <2>6. ASSUME NEW r \in Requests, Connect(r) PROVE Kept(p)
    <3>1. CASE Fail(r, "pool_closed")
      BY <1>4, <2>2, <3>1
    <3>2. CASE pools' = [pools EXCEPT ![local[r]].idle = "none"]
      <4>1. local[r] \in Pools /\ Alive(local[r])
        BY <2>6 DEF Connect, TInv, TypeOK, RequestsFit, ReferencedIsAlive, Holding
      <4>2. QED
        BY <2>4, <3>2, <4>1
    <3>3. QED
      BY <2>6, <3>1, <3>2 DEF Connect
  <2>7. ASSUME NEW r \in Requests, Leave(r) PROVE Kept(p)
    <3> DEFINE back == [pools EXCEPT ![local[r]].idle = "live"]
    <3>1. local[r] \in Pools /\ Alive(local[r])
      BY <2>7 DEF Leave, TInv, TypeOK, RequestsFit, ReferencedIsAlive, Holding
    <3>2. back \in PoolMap
      BY <1>0, <3>1, IdleKeeps DEF SamePools
    <3>3. pools' = Swept(back, pool, local') \/ pools' = Swept(pools, pool, local')
      BY <2>7 DEF Leave
    <3>4. pools'[p] = back[p] \/ pools'[p] = pools[p]
      <4> HIDE DEF back
      <4> QED BY <1>0, <3>2, <3>3, SweptKeeps
    <3>5. QED
      BY <2>2, <2>4, <3>1, <3>4
  <2>c. ASSUME NEW d \in Databases, pools' = Closed({pool[d]}), pool[d] = p => Closes(p)
        PROVE  Kept(p)
    <3>1. CASE pool[d] = p
      <4>1. Alive(p)
        BY <1>0, <3>1 DEF TInv, ReferencedIsAlive
      <4>2. QED
        BY <2>3, <2>c, <3>1, <4>1
    <3>2. CASE pool[d] # p
      BY <2>2, <2>c, <3>2 DEF Closed
    <3>3. QED
      BY <3>1, <3>2
  <2>8. ASSUME CloseCurrent PROVE Kept(p)
    <3>1. CASE ~CanStart
      BY <2>2, <2>8, <3>1 DEF CloseCurrent
    <3>2. CASE CanStart
      <4>1. pools' = Closed({pool[admin.db]})
        BY <2>8, <3>2 DEF CloseCurrent
      <4>2. admin.db \in Databases
        BY <2>8 DEF CloseCurrent, AdminAt, TInv, TypeOK, Administration
      <4>3. pool[admin.db] = p => Closes(p)
        BY <2>8, <3>2 DEF Closes
      <4>4. QED
        BY <2>c, <4>1, <4>2, <4>3
    <3>3. QED
      BY <3>1, <3>2
  <2>9. ASSUME Walks PROVE Kept(p)
    <3>1. pools' = pools \/ \E d \in Databases : WalkDoes(d)
      BY <2>9, WalkStep
    <3>2. Closes(p)
      BY <2>9 DEF Closes
    <3>3. QED
      BY <2>2, <2>c, <3>1, <3>2 DEF WalkDoes
  <2>10. ASSUME Terminate PROVE Kept(p)
    <3>1. pools' = Terminated({admin.db}, pools)
      BY <2>10 DEF Terminate
    <3>2. CASE pools'[p] = pools[p]
      BY <2>2, <3>2
    <3>3. CASE pools'[p] # pools[p]
      <4>1. Alive(p) /\ pools[p].db = admin.db /\ pools'[p] = [pools[p] EXCEPT !.idle = "broken"]
        BY <3>1, <3>3 DEF Terminated, Alive
      <4>2. pools'[p].db = pools[p].db /\ pools'[p].open = pools[p].open
            /\ pools'[p].raced = pools[p].raced
        BY <1>0, <4>1 DEF PoolMap, PoolObject, Alive
      <4>3. QED
        BY <1>q, <2>10, <4>1, <4>2 DEF Kept
    <3>4. QED
      BY <3>2, <3>3
  <2>11. ASSUME NEW q \in Pools, Keep(q) PROVE Kept(p)
    <3>1. pools' = [pools EXCEPT ![q].idle = "live"] /\ Alive(q)
      BY <2>11 DEF Keep
    <3>2. QED
      BY <2>4, <3>1
  <2>12. ~Restart
    BY DEF Restart
  <2>13. CASE \E r \in Requests : Request(r)
    <3>1. PICK r \in Requests : Request(r)
      BY <2>13
    <3>2. QED
      BY <1>3, <1>5, <1>7, <1>q, <2>2, <2>5, <2>6, <2>7, <3>1 DEF Request
  <2>14. CASE Admin
    BY <1>3, <1>6, <2>2, <2>8, <2>9, <2>10, <2>14 DEF Admin, Walks, Stops
  <2>15. QED
    BY <1>3, <2>2, <2>11, <2>12, <2>13, <2>14 DEF Next
<1>8. QED
  BY <1>p, <1>q

\* Requests get hold of a pool as OwnLocal says, and of none when they arrive.
LEMMA LocalChange ==
  ASSUME TInv, LocalFits, IdleIsClean, [Next]_vars, NEW r \in Requests, local'[r] # Null
  PROVE  \/ local'[r] = local[r]
         \/ Create(r)
         \/ Take(r) /\ local'[r] = pool[Db(r)]
<1>1. CASE Received1(r)
  BY <1>1 DEF Received1, Receive
<1>2. CASE Restart
  BY <1>2 DEF Restart
<1>3. QED
  BY <1>1, <1>2, OwnLocal, Unmoved

----------------------------------------------------------------------------
(* The parts of the invariant. *)

\* A request leaves the stages that hold a pool without it, and is clean when it is answered.
LEMMA LocalStep ==
  ASSUME TInv, LocalFits, IdleIsClean, [Next]_vars
  PROVE  LocalFits' /\ IdleIsClean'
<1> SUFFICES ASSUME NEW r \in Requests
             PROVE  /\ local'[r] # Null => pc'[r] \in Holding
                    /\ pc'[r] = "idle" => req'[r] = Null /\ reply'[r] = "ok"
                    /\ pc'[r] \in InGetDb => reply'[r] = "ok"
  BY DEF LocalFits, IdleIsClean
<1> USE DEF TInv, TypeOK, dicts, history, Step, Holding, InGetDb
<1>0. /\ local[r] # Null => pc[r] \in Holding
      /\ pc[r] = "idle" => req[r] = Null /\ reply[r] = "ok"
      /\ pc[r] \in InGetDb => reply[r] = "ok"
  BY DEF LocalFits, IdleIsClean
<1>1. CASE Request(r)
  <2>1. CASE Look(r) \/ Recheck(r) \/ Create(r) \/ Publish(r) \/ PublishUrl(r)
    BY <1>0, <2>1 DEF Look, Recheck, Create, Publish, PublishUrl
  <2>2. CASE Take(r) \/ Close(r) \/ Connect(r) \/ ConnectTimesOut(r)
    BY <1>0, <2>2 DEF Take, Close, Connect, ConnectTimesOut, Fail
  <2>3. CASE Work(r) \/ Get(r) \/ Post(r)
    BY <1>0, <2>3 DEF Work, Get, Post
  <2>4. CASE Leave(r) \/ Answer(r)
    BY <1>0, <2>4 DEF Leave, Answer, Answered
  <2>5. QED
    BY <1>1, <2>1, <2>2, <2>3, <2>4 DEF Request
<1>2. CASE Received1(r)
  BY <1>0, <1>2 DEF Received1, Receive
<1>3. CASE Restart
  BY <1>3 DEF Restart
<1>4. CASE ~Request(r) /\ ~Received1(r) /\ ~Restart
  BY <1>0, <1>4, Unmoved
<1>5. QED
  BY <1>1, <1>2, <1>3, <1>4

\* A pool that is referred to and was there before is kept.
LEMMA AliveIsKept ==
  ASSUME TInv, [Next]_vars, NEW p \in Pools, Alive(p), pools'[p] # Null
  PROVE  Kept(p)
BY CreateMakes, PoolsChange

\* Pools stay where they belong.
LEMMA FitStep ==
  ASSUME TInv, TInv', LocalFits, LocalFits', IdleIsClean, PoolsFit, [Next]_vars
  PROVE  PoolsFit'
<1> USE DEF TInv, TypeOK, ReferencedIsAlive, Alive
<1>1. ASSUME NEW d \in Databases, pool'[d] # Null PROVE pools'[pool'[d]].db = d
  <2>0. pool'[d] \in Pools /\ pools'[pool'[d]] # Null
    BY <1>1
  <2>1. CASE pool'[d] = pool[d]
    <3>1. Kept(pool[d]) /\ pools[pool[d]].db = d
      BY <1>1, <2>0, <2>1, AliveIsKept DEF PoolsFit
    <3>2. QED
      BY <2>1, <3>1 DEF Kept
  <2>2. ASSUME NEW r \in Requests, d = Db(r), pool'[d] = local[r] PROVE pools'[pool'[d]].db = d
    <3>1. Kept(local[r]) /\ pools[local[r]].db = d
      BY <1>1, <2>0, <2>2, AliveIsKept DEF PoolsFit
    <3>2. QED
      BY <2>2, <3>1 DEF Kept
  <2>3. QED
    BY <1>1, <2>1, <2>2, DictionaryChange
<1>2. ASSUME NEW r \in Requests, local'[r] # Null PROVE pools'[local'[r]].db = Db(r)'
  <2>0. local'[r] \in Pools /\ pools'[local'[r]] # Null
    BY <1>2
  <2>1. req'[r] # Null
    BY <1>2 DEF LocalFits, RequestsFit, Holding
  <2>2. ~Received1(r)
    BY <1>2 DEF Received1, Receive, LocalFits, Holding, Step
  <2>3. Db(r)' = Db(r)
    BY <2>1, <2>2, Stays DEF Db
  <2>4. CASE local'[r] = local[r]
    <3>1. Kept(local[r]) /\ pools[local[r]].db = Db(r)
      BY <1>2, <2>0, <2>4, AliveIsKept DEF PoolsFit
    <3>2. QED
      BY <2>3, <2>4, <3>1 DEF Kept
  <2>5. CASE Create(r)
    <3>1. TInv
      OBVIOUS
    <3>2. pools'[local'[r]] = [db |-> Db(r), open |-> TRUE, idle |-> "none", raced |-> FALSE]
      BY ONLY <2>5, <3>1, CreateMakes
    <3>3. QED
      BY <2>3, <3>2
  <2>6. CASE Take(r) /\ local'[r] = pool[Db(r)]
    <3>1. Db(r) \in Databases
      BY <2>1, <2>2, Stays DEF Db, Received
    <3>2. Kept(pool[Db(r)]) /\ pools[pool[Db(r)]].db = Db(r)
      BY <1>2, <2>0, <2>6, <3>1, AliveIsKept DEF PoolsFit
    <3>3. QED
      BY <2>3, <2>6, <3>2 DEF Kept
  <2>7. QED
    BY <1>2, <2>4, <2>5, <2>6, LocalChange
<1>3. QED
  BY <1>1, <1>2 DEF PoolsFit

\* Who begins to make a pool has found none.
LEMMA BeginsToMake ==
  ASSUME TInv, [Next]_vars, NEW q \in Requests, pc'[q] \in Creating, pc[q] \notin Creating
  PROVE  Look(q) /\ pc'[q] = "recheck"
<1> USE DEF TInv, TypeOK, dicts, history, Step, Creating
<1>1. CASE Request(q)
  <2>1. CASE Look(q) \/ Recheck(q) \/ Create(q) \/ Publish(q) \/ PublishUrl(q)
    BY <2>1 DEF Look, Recheck, Create, Publish, PublishUrl
  <2>2. CASE Take(q) \/ Close(q) \/ Connect(q) \/ ConnectTimesOut(q)
    BY <2>2 DEF Take, Close, Connect, ConnectTimesOut, Fail
  <2>3. CASE Work(q) \/ Get(q) \/ Post(q)
    BY <2>3 DEF Work, Get, Post
  <2>4. CASE Leave(q) \/ Answer(q)
    BY <2>4 DEF Leave, Answer, Answered
  <2>5. QED
    BY <1>1, <2>1, <2>2, <2>3, <2>4 DEF Request
<1>2. CASE Received1(q)
  BY <1>2 DEF Received1, Receive
<1>3. CASE Restart
  BY <1>3 DEF Restart
<1>4. QED
  BY <1>1, <1>2, <1>3, Unmoved

\* The makers of a pool disturb who is there, and those who arrive are.
LEMMA MakersStep ==
  ASSUME TInv, TInv', MakersDisturb, [Next]_vars
  PROVE  MakersDisturb'
<1> SUFFICES ASSUME NEW q \in Requests, pc'[q] \in Creating,
                    NEW r \in Requests \ {q}, req'[r] # Null, Db(r)' = Db(q)'
             PROVE  r \in disturbed'
  BY DEF MakersDisturb
<1> USE DEF TInv, TypeOK, dicts, history, Step
<1>1. req'[q] # Null
  BY DEF RequestsFit, Creating
<1>2. ~Received1(q)
  BY DEF Received1, Receive, Creating
<1>3. Db(q)' = Db(q)
  BY <1>1, <1>2, Stays DEF Db
<1>4. CASE Received1(r)
  <2>1. PICK c \in Calls : Receive(r, c[1], c[2])
    BY <1>4 DEF Received1
  <2>2. pc'[q] = pc[q] /\ Db(r)' = c[1]
    BY <2>1 DEF Receive, Db
  <2>3. QED
    BY <1>3, <2>1, <2>2 DEF Receive
<1>5. CASE ~Received1(r)
  <2>1. Db(r)' = Db(r) /\ req[r] # Null /\ (r \in disturbed => r \in disturbed')
    BY <1>5, Stays DEF Db
  <2>2. CASE pc[q] \in Creating
    BY <1>3, <2>1, <2>2 DEF MakersDisturb
  <2>3. CASE pc[q] \notin Creating
    <3>1. disturbed' = disturbed \cup On({Db(q)}, {q})
      BY <2>3, BeginsToMake DEF Look
    <3>2. r \in On({Db(q)}, {q})
      BY <1>3, <2>1 DEF On, Db
    <3>3. QED
      BY <3>1, <3>2
  <2>4. QED
    BY <2>2, <2>3
<1>6. QED
  BY <1>4, <1>5

\* Before a pool is taken out everyone on its database is disturbed.
LEMMA LeavingStep ==
  ASSUME TInv, TInv', LeavingDisturbs, [Next]_vars
  PROVE  LeavingDisturbs'
<1> SUFFICES ASSUME NEW d \in Databases, Leaving(d)', NEW r \in Requests, req'[r] # Null, Db(r)' = d
             PROVE  r \in disturbed'
  BY DEF LeavingDisturbs
<1>1. CASE Leaving(d) /\ admin' = admin
  <2>1. ~Received1(r)
    BY <1>1 DEF Received1, Receive, LoopFree, Leaving, AdminAt
  <2>2. req'[r] = req[r] /\ (r \in disturbed => r \in disturbed')
    BY <2>1, Stays
  <2>3. QED
    BY <1>1, <2>2 DEF LeavingDisturbs, Db
<1>2. CASE CloseCurrent /\ CanStart /\ d = admin.db
  <2>1. req'[r] = req[r] /\ disturbed' = disturbed \cup On({d}, {})
    BY <1>2 DEF CloseCurrent, Requesting
  <2>2. QED
    BY <2>1 DEF On, Db
<1>3. CASE Walks
  <2>1. req'[r] = req[r] /\ disturbed' = disturbed \cup On(Databases, {})
    BY <1>3, WalkStep DEF Requesting
  <2>2. QED
    BY <2>1 DEF On, Db
<1>4. QED
  BY <1>1, <1>2, <1>3, AdminChange

\* Before sessions are terminated everyone on the database is disturbed, and whoever has
\* made its pool.
LEMMA TerminateStep ==
  ASSUME PInv, TInv', TerminateDisturbs, [Next]_vars
  PROVE  TerminateDisturbs'
<1> SUFFICES ASSUME AdminAt({"backup", "restore"}, "terminate")'
             PROVE  /\ \A r \in Requests : req'[r] # Null /\ Db(r)' = admin'.db => r \in disturbed'
                    /\ pool'[admin'.db] # Null => pools'[pool'[admin'.db]].raced
  BY DEF TerminateDisturbs
<1>0. TInv
  BY DEF PInv
<1>1. CASE AdminAt({"backup", "restore"}, "terminate") /\ admin' = admin
  <2>1. ASSUME NEW r \in Requests, req'[r] # Null, Db(r)' = admin'.db PROVE r \in disturbed'
    <3>1. ~Received1(r)
      BY <1>1 DEF Received1, Receive, LoopFree, AdminAt
    <3>2. req'[r] = req[r] /\ (r \in disturbed => r \in disturbed')
      BY <1>0, <2>1, <3>1, Stays
    <3>3. QED
      BY <1>1, <2>1, <3>2 DEF TerminateDisturbs, Db
  <2>2. ASSUME pool'[admin.db] # Null PROVE pools'[pool'[admin.db]].raced
    <3>0. admin.db \in Databases
      BY <1>0, <1>1 DEF AdminAt, TInv, TypeOK, Administration
    <3>1. pool'[admin.db] \in Pools /\ pools'[pool'[admin.db]] # Null
      BY <2>2, <3>0 DEF TInv, TypeOK, ReferencedIsAlive, Alive
    <3>2. CASE pool'[admin.db] = pool[admin.db]
      <4>1. Alive(pool[admin.db]) /\ pools[pool[admin.db]].raced
        BY <1>0, <1>1, <2>2, <3>0, <3>2 DEF TerminateDisturbs, TInv, ReferencedIsAlive
      <4>2. Kept(pool[admin.db])
        BY <1>0, <3>1, <3>2, <4>1, AliveIsKept
      <4>3. \A r \in Requests : Publish(r) => local[r] # pool[admin.db]
        BY <3>0 DEF PInv, NewIsOpen, Publish, Step
      <4>4. pools'[pool[admin.db]].raced = pools[pool[admin.db]].raced
        BY <4>2, <4>3 DEF Kept
      <4>5. QED
        BY <3>2, <4>1, <4>4
    <3>3. ASSUME NEW r \in Requests, Publish(r), admin.db = Db(r), pool'[admin.db] = local[r]
          PROVE  pools'[pool'[admin.db]].raced
      <4>1. req[r] # Null /\ Alive(local[r])
        BY <1>0, <2>2, <3>3 DEF Publish, Step, TInv, RequestsFit, ReferencedIsAlive
      <4>2. r \in disturbed
        BY <1>1, <3>3, <4>1 DEF TerminateDisturbs
      <4>3. Kept(local[r])
        BY <1>0, <3>1, <3>3, <4>1, AliveIsKept
      <4>4. pools'[local[r]].raced <=> r \in disturbed
        BY <3>3, <4>3 DEF Kept
      <4>5. pools'[local[r]].raced
        BY <4>2, <4>4
      <4>6. QED
        BY <3>3, <4>5
    <3>4. QED
      BY <1>0, <2>2, <3>0, <3>2, <3>3, DictionaryChange
  <2>3. QED
    BY <1>1, <2>1, <2>2
<1>2. CASE CloseCurrent /\ CanStart /\ pool[admin.db] = Null /\ admin'.db = admin.db
  <2>1. req' = req /\ disturbed' = disturbed \cup On({admin.db}, {}) /\ pool' = pool
    BY <1>2 DEF CloseCurrent, Requesting, dicts
  <2>2. QED
    BY <1>2, <2>1 DEF On, Db
<1>3. CASE PopCurrent /\ admin'.db = admin.db
  <2>1. req' = req /\ disturbed' = disturbed \cup On({admin.db}, {})
        /\ pool' = [pool EXCEPT ![admin.db] = Null]
    BY <1>3 DEF PopCurrent, Requesting
  <2>2. pool'[admin.db] = Null
    BY <1>0, <1>3, <2>1 DEF PopCurrent, AdminAt, TInv, TypeOK, Administration
  <2>3. QED
    BY <1>3, <2>1, <2>2 DEF On, Db
<1>4. QED
  BY <1>0, <1>1, <1>2, <1>3, AdminChange

\* A pool that is about to be stored is as it was made.
LEMMA FreshStep ==
  ASSUME PInv, TInv', NewIsFresh, [Next]_vars
  PROVE  NewIsFresh'
<1> SUFFICES ASSUME NEW r \in Requests, pc'[r] = "publish" PROVE ~pools'[local'[r]].raced
  BY DEF NewIsFresh
<1>0. TInv
  BY DEF PInv
<1>1. CASE Create(r)
  <2>1. pools'[local'[r]] = [db |-> Db(r), open |-> TRUE, idle |-> "none", raced |-> FALSE]
    BY ONLY <1>0, <1>1, CreateMakes
  <2>2. QED
    BY <2>1
<1>2. CASE ~Create(r)
  <2> USE DEF TInv, TypeOK, dicts, history, Step
  <2>1. ~Request(r)
    <3>1. ~(Look(r) \/ Recheck(r) \/ Publish(r) \/ PublishUrl(r))
      BY <1>0 DEF Look, Recheck, Publish, PublishUrl
    <3>2. ~(Take(r) \/ Close(r) \/ Connect(r) \/ ConnectTimesOut(r))
      BY <1>0 DEF Take, Close, Connect, ConnectTimesOut, Fail
    <3>3. ~(Work(r) \/ Get(r) \/ Post(r))
      BY <1>0 DEF Work, Get, Post
    <3>4. ~(Leave(r) \/ Answer(r))
      BY <1>0 DEF Leave, Answer, Answered
    <3>5. QED
      BY <1>2, <3>1, <3>2, <3>3, <3>4 DEF Request
  <2>2. ~Received1(r) /\ ~Restart
    BY <1>0 DEF Received1, Receive, Restart
  <2>3. pc[r] = "publish" /\ local'[r] = local[r]
    BY <1>0, <2>1, <2>2, Unmoved
  <2>4. local[r] \in Pools /\ Alive(local[r]) /\ pools'[local[r]] # Null
    BY <1>0, <2>3 DEF RequestsFit, ReferencedIsAlive, Holding, Alive
  <2>5. Kept(local[r])
    BY <1>0, <2>4, AliveIsKept
  <2>6. \A q \in Requests : Publish(q) => local[q] # local[r]
    BY <2>1, <2>3 DEF Request, PInv, NewIsOpen
  <2>7. pools'[local[r]].raced = pools[local[r]].raced
    BY <2>5, <2>6 DEF Kept
  <2>8. ~pools[local[r]].raced
    BY <2>3 DEF NewIsFresh
  <2>9. QED
    BY <2>3, <2>7, <2>8
<1>3. QED
  BY <1>1, <1>2

\* When sessions are terminated, or a pool is stored, what breaks is known to be old.
LEMMA BrokenStep ==
  ASSUME PInv, TInv', LocalFits, LocalFits', IdleIsClean, PoolsFit, TerminateDisturbs, NewIsFresh,
         BrokenIsOld, [Next]_vars
  PROVE  BrokenIsOld'
<1> SUFFICES ASSUME NEW p \in Pools, pools'[p] # Null, pools'[p].idle = "broken", ~pools'[p].raced
             PROVE  /\ \A d \in Databases : pool'[d] # p
                    /\ \A r \in Requests : local'[r] = p => r \in disturbed'
  BY DEF BrokenIsOld, Alive
<1>0. TInv /\ Null \notin Pools
  BY DatabasesAssumption DEF PInv
<1>1. ASSUME NEW r \in Requests, Create(r), local'[r] = p PROVE FALSE
  <2>1. pools'[local'[r]] = [db |-> Db(r), open |-> TRUE, idle |-> "none", raced |-> FALSE]
    BY ONLY <1>0, <1>1, CreateMakes
  <2>2. QED
    BY <1>1, <2>1
<1>2. Kept(p) /\ Alive(p)
  BY <1>0, <1>1, PoolsChange DEF Kept
<1>3. /\ \A d \in Databases : pool[d] # p
      /\ \A r \in Requests : local[r] = p => r \in disturbed
      /\ \A r \in Requests : Publish(r) => local[r] # p
  <2>1. CASE pools[p].idle = "broken"
    <3>1. ASSUME NEW q \in Requests, Publish(q), local[q] = p PROVE FALSE
      <4>1. q \notin disturbed
        BY <1>2, <3>1 DEF Kept
      <4>2. ~pools[p].raced
        BY <3>1, PublishAlone, <1>0 DEF NewIsFresh
      <4>3. QED
        BY <1>2, <2>1, <3>1, <4>1, <4>2 DEF BrokenIsOld
    <3>2. pools'[p].raced = pools[p].raced
      BY <1>2, <3>1 DEF Kept
    <3>3. QED
      BY <1>2, <2>1, <3>1, <3>2 DEF BrokenIsOld
  <2>2. CASE Terminate /\ pools[p].db = admin.db
    <3>1. \A r \in Requests : ~Publish(r)
      BY <1>0, <2>2, PublishAlone
    <3>2. ~pools[p].raced
      BY <1>2, <3>1 DEF Kept
    <3>3. AdminAt({"backup", "restore"}, "terminate")
      BY <2>2 DEF Terminate
    <3>4. \A d \in Databases : pool[d] # p
      BY <1>0, <2>2, <3>2, <3>3 DEF PoolsFit, TerminateDisturbs
    <3>5. ASSUME NEW r \in Requests, local[r] = p PROVE r \in disturbed
      <4>1. Db(r) = admin.db /\ req[r] # Null
        BY <1>0, <2>2, <3>5 DEF PoolsFit, LocalFits, TInv, RequestsFit, Holding
      <4>2. QED
        BY <3>3, <4>1 DEF TerminateDisturbs
    <3>6. QED
      BY <3>1, <3>4, <3>5
  <2>3. QED
    BY <1>2, <2>1, <2>2 DEF Kept
<1>4. ASSUME NEW d \in Databases PROVE pool'[d] # p
  BY <1>0, <1>3, DictionaryChange
<1>5. ASSUME NEW r \in Requests, local'[r] = p PROVE r \in disturbed'
  <2>1. local[r] = p
    <3>1. CASE Take(r) /\ local'[r] = pool[Db(r)]
      <4>1. Db(r) \in Databases
        BY <1>0, <3>1 DEF Take, TInv, TypeOK, RequestsFit, Db, Received
      <4>2. QED
        BY <1>3, <1>5, <3>1, <4>1
    <3>2. QED
      BY <1>0, <1>1, <1>5, <3>1, LocalChange
  <2>2. req'[r] # Null
    BY <1>0, <1>5 DEF LocalFits, TInv, RequestsFit, Holding
  <2>3. ~Received1(r)
    BY <1>0, <2>1 DEF Received1, Receive, LocalFits, Holding, Step
  <2>4. QED
    BY <1>0, <1>3, <2>1, <2>2, <2>3, Stays
<1>6. QED
  BY <1>4, <1>5

\* What a quiet request finds when others take a step.
LEMMA QuietUnmoved ==
  ASSUME QInv, TInv', [Next]_vars, NEW r \in Requests, ~Request(r), ~Received1(r), ~Restart,
         r \notin disturbed'
  PROVE  /\ pc'[r] \in {"take", "close"} => pool'[Db(r)'] # Null
         /\ pc'[r] \in {"publish_url", "connect"} => pools'[local'[r]].open \/ Db(r)' \in stranded'
         /\ conn'[r] # "broken"
         /\ reply'[r] \notin PoolErrors \/ Db(r)' \in stranded'
<1>0. TInv /\ r \notin disturbed
  BY Unmoved DEF QInv, PInv
<1>1. /\ pc'[r] = pc[r] /\ req'[r] = req[r] /\ local'[r] = local[r] /\ reply'[r] = reply[r]
      /\ conn'[r] = conn[r] \/ (Terminate /\ conn[r] = "live" /\ Db(r) = admin.db)
  BY <1>0, Unmoved
<1>2. /\ pc[r] \in {"take", "close"} => pool[Db(r)] # Null
      /\ pc[r] \in {"publish_url", "connect"} => pools[local[r]].open \/ Db(r) \in stranded
      /\ conn[r] # "broken"
      /\ reply[r] \notin PoolErrors \/ Db(r) \in stranded
  BY <1>0 DEF QInv, QuietHas
<1>3. ASSUME NEW D, disturbed' = disturbed \cup On(D, {}) PROVE req[r] = Null \/ Db(r) \notin D
  BY <1>3 DEF On, Db
<1>4. req[r] # Null => Db(r) \in Databases
  BY <1>0 DEF TInv, TypeOK, Db, Received
<1>5. ASSUME (CloseCurrent /\ CanStart) \/ PopCurrent PROVE req[r] = Null \/ Db(r) # admin.db
  BY <1>3, <1>5 DEF CloseCurrent, PopCurrent
<1>6. ASSUME Walks \/ DestroyForget PROVE req[r] = Null
  <2>1. disturbed' = disturbed \cup On(Databases, {})
    BY <1>0, <1>6, WalkStep DEF DestroyForget
  <2>2. QED
    BY <1>3, <1>4, <2>1
<1>s. ASSUME req[r] # Null, Db(r) \in stranded PROVE Db(r)' \in stranded'
  <2>1. Db(r)' = Db(r)
    BY <1>1 DEF Db
  <2>2. ASSUME NEW q \in Requests, Publish(q), Db(q) = Db(r) PROVE FALSE
    <3>1. pc[q] \in Creating /\ q # r
      BY <2>2 DEF Publish, Step, Creating, Request
    <3>2. QED
      BY <1>0, <1>s, <2>2, <3>1 DEF QInv, MakersDisturb
  <2>3. QED
    BY <1>0, <1>5, <1>6, <1>s, <2>1, <2>2, StrandedChange
<1>7. ASSUME pc[r] \in {"take", "close"} PROVE pool'[Db(r)'] # Null
  <2>1. req[r] # Null /\ Db(r)' = Db(r)
    BY <1>0, <1>1, <1>7 DEF TInv, RequestsFit, Db
  <2>2. ASSUME NEW q \in Requests, Publish(q) PROVE local[q] # Null
    BY <1>0, <2>2 DEF Publish, Step, TInv, RequestsFit, Holding
  <2>3. QED
    BY <1>0, <1>2, <1>4, <1>5, <1>6, <1>7, <2>1, <2>2, DictionaryChange
<1>8. ASSUME pc[r] \in {"publish_url", "connect"}
      PROVE  pools'[local'[r]].open \/ Db(r)' \in stranded'
  <2> DEFINE p == local[r]
  <2>1. req[r] # Null /\ p \in Pools /\ Alive(p) /\ pools'[p] # Null
    BY <1>0, <1>1, <1>8 DEF TInv, TypeOK, RequestsFit, ReferencedIsAlive, Holding, Alive
  <2>2. Kept(p)
    BY <1>0, <2>1, AliveIsKept
  <2>3. pools[p].db = Db(r)
    BY <2>1, DatabasesAssumption DEF QInv, PoolsFit
  <2>4. ASSUME NEW q \in Requests, Close(q), pool[Db(q)] = p PROVE FALSE
    <3>1. pc[q] = "close" /\ q # r
      BY <2>4 DEF Close, Request
    <3>2. Db(q) \in Databases
      BY <1>0, <3>1 DEF TInv, TypeOK, RequestsFit, Db, Received
    <3>3. Db(q) = Db(r)
      BY <2>1, <2>3, <2>4, <3>2, DatabasesAssumption DEF QInv, PoolsFit
    <3>4. QED
      BY <1>0, <2>1, <3>1, <3>3 DEF QInv, MakersDisturb, Creating
  <2>5. ASSUME CloseCurrent, CanStart, pool[admin.db] = p PROVE FALSE
    <3>1. admin.db \in Databases
      BY <1>0, <2>5 DEF CloseCurrent, AdminAt, TInv, TypeOK, Administration
    <3>2. Db(r) = admin.db
      BY <2>1, <2>3, <2>5, <3>1, DatabasesAssumption DEF QInv, PoolsFit
    <3>3. QED
      BY <1>5, <2>1, <2>5, <3>2
  <2>6. ~Closes(p)
    BY <1>6, <2>1, <2>4, <2>5 DEF Closes
  <2>7. CASE Db(r) \in stranded
    BY <1>s, <2>1, <2>7
  <2>8. CASE Db(r) \notin stranded
    BY <1>1, <1>2, <1>8, <2>2, <2>6, <2>8 DEF Kept
  <2>9. QED
    BY <2>7, <2>8
<1>9. conn'[r] # "broken"
  <2>1. ASSUME Terminate, conn[r] = "live", Db(r) = admin.db PROVE FALSE
    <3>1. req[r] # Null
      BY <1>0, <2>1 DEF QInv, ConnectionsFit, TInv, RequestsFit
    <3>2. disturbed' = disturbed \cup On({admin.db}, {})
      BY <2>1 DEF Terminate
    <3>3. QED
      BY <1>3, <2>1, <3>1, <3>2
  <2>2. QED
    BY <1>1, <1>2, <2>1
<1>10. reply'[r] \notin PoolErrors \/ Db(r)' \in stranded'
  <2>1. CASE req[r] = Null
    <3>1. pc[r] = "idle"
      BY <1>0, <2>1 DEF TInv, RequestsFit
    <3>2. reply[r] = "ok"
      BY <3>1 DEF QInv, IdleIsClean
    <3>3. QED
      BY <1>1, <3>2 DEF PoolErrors
  <2>2. CASE req[r] # Null
    BY <1>1, <1>2, <1>s, <2>2
  <2>3. QED
    BY <2>1, <2>2
<1>11. QED
  BY <1>1, <1>7, <1>8, <1>9, <1>10

\* What it finds when it takes a step itself.
LEMMA QuietMoved ==
  ASSUME QInv, TInv', [Next]_vars, NEW r \in Requests, Request(r), r \notin disturbed'
  PROVE  /\ pc'[r] \in {"take", "close"} => pool'[Db(r)'] # Null
         /\ pc'[r] \in {"publish_url", "connect"} => pools'[local'[r]].open \/ Db(r)' \in stranded'
         /\ conn'[r] # "broken"
         /\ reply'[r] \notin PoolErrors \/ Db(r)' \in stranded'
<1>0. TInv
  BY DEF QInv, PInv
<1> USE DEF TypeOK, dicts, history, Step
<1>1. CASE Leave(r) \/ Answer(r)
  <2>1. pc'[r] = "idle" /\ reply'[r] = "ok"
    BY <1>0, <1>1 DEF TInv, Leave, Answer, Answered
  <2>2. conn'[r] = "none"
    BY <1>0, <1>1 DEF TInv, Leave, Answer, QInv, ConnectionsFit
  <2>3. QED
    BY <2>1, <2>2 DEF PoolErrors
<1>2. ASSUME ~Leave(r), ~Answer(r) PROVE r \notin disturbed
  <2>1. CASE Look(r) \/ Recheck(r) \/ Create(r) \/ Publish(r) \/ PublishUrl(r)
    BY <2>1 DEF Look, Recheck, Create, Publish, PublishUrl
  <2>2. CASE Take(r) \/ Close(r) \/ Connect(r) \/ ConnectTimesOut(r)
    BY <2>2 DEF Take, Close, Connect, ConnectTimesOut, Fail
  <2>3. CASE Work(r) \/ Get(r) \/ Post(r)
    BY <2>3 DEF Work, Get, Post
  <2>4. QED
    BY <1>2, <2>1, <2>2, <2>3 DEF Request
<1>3. ASSUME ~Leave(r), ~Answer(r)
      PROVE  /\ pc[r] \in {"take", "close"} => pool[Db(r)] # Null
             /\ pc[r] \in {"publish_url", "connect"} => pools[local[r]].open \/ Db(r) \in stranded
             /\ conn[r] # "broken"
             /\ reply[r] \notin PoolErrors \/ Db(r) \in stranded
  BY <1>2, <1>3 DEF QInv, QuietHas
<1>s. ASSUME ~Leave(r), ~Answer(r), ~Publish(r) PROVE Db(r)' = Db(r) /\ stranded' = stranded
  <2>1. CASE Look(r) \/ Recheck(r) \/ Create(r) \/ PublishUrl(r)
    BY <2>1 DEF Look, Recheck, Create, PublishUrl, Db
  <2>2. CASE Take(r) \/ Close(r) \/ Connect(r) \/ ConnectTimesOut(r)
    BY <2>2 DEF Take, Close, Connect, ConnectTimesOut, Fail, Db
  <2>3. CASE Work(r) \/ Get(r) \/ Post(r)
    BY <2>3 DEF Work, Get, Post, Db
  <2>4. QED
    BY <1>s, <2>1, <2>2, <2>3 DEF Request
<1>4. CASE Look(r) \/ Recheck(r)
  <2>1. ~Leave(r) /\ ~Answer(r) /\ ~Publish(r)
    BY <1>4 DEF Look, Recheck, Leave, Answer, Publish
  <2>2. conn' = conn /\ reply' = reply /\ pool' = pool /\ req' = req
    BY <1>4 DEF Look, Recheck
  <2>3. /\ pc'[r] \in {"take", "close"} => pool[Db(r)] # Null
        /\ pc'[r] \notin {"publish_url", "connect"}
    BY <1>0, <1>4 DEF TInv, Look, Recheck
  <2>4. QED
    BY <1>3, <1>s, <2>1, <2>2, <2>3
<1>5. CASE Take(r)
  <2>1. pc[r] = "take"
    BY <1>5 DEF Take
  <2>2. ~Leave(r) /\ ~Answer(r) /\ ~Publish(r)
    BY <2>1 DEF Leave, Answer, Publish
  <2>3. /\ pc' = [pc EXCEPT ![r] = "connect"] /\ local' = [local EXCEPT ![r] = pool[Db(r)]]
        /\ pools' = pools /\ conn' = conn /\ reply' = reply
    BY <1>3, <1>5, <2>1, <2>2 DEF Take
  <2>4. Db(r) \in Databases /\ req[r] # Null
    BY <1>0, <2>1 DEF TInv, RequestsFit, Db, Received
  <2>5. pools[pool[Db(r)]].open \/ Db(r) \in stranded
    <3>1. ASSUME NEW q \in Requests, pc[q] \in {"create", "publish"}, Db(q) = Db(r) PROVE FALSE
      BY <1>2, <2>1, <2>2, <2>4, <3>1 DEF QInv, MakersDisturb, Creating
    <3>2. ~Leaving(Db(r))
      BY <1>2, <2>2, <2>4 DEF QInv, LeavingDisturbs
    <3>3. QED
      BY <1>3, <2>1, <2>2, <2>4, <3>1, <3>2 DEF QInv, PInv, RegisteredIsOpen
  <2>6. QED
    BY <1>0, <1>3, <1>s, <2>2, <2>3, <2>5 DEF TInv
<1>6. CASE Close(r)
  <2>1. pc[r] = "close"
    BY <1>6 DEF Close
  <2>2. ~Leave(r) /\ ~Answer(r) /\ ~Publish(r)
    BY <2>1 DEF Leave, Answer, Publish
  <2>3. pc' = [pc EXCEPT ![r] = "create"] /\ conn' = conn /\ reply' = reply
    BY <1>3, <1>6, <2>1, <2>2 DEF Close
  <2>4. QED
    BY <1>0, <1>3, <1>s, <2>2, <2>3 DEF TInv
<1>7. CASE Create(r) \/ Work(r)
  <2>1. ~Leave(r) /\ ~Answer(r) /\ ~Publish(r)
    BY <1>7 DEF Create, Work, Leave, Answer, Publish
  <2>2. pc'[r] \in {"publish", "work"} /\ conn' = conn /\ reply' = reply
    BY <1>0, <1>7 DEF TInv, Create, Work
  <2>3. QED
    BY <1>3, <1>s, <2>1, <2>2
<1>8. CASE Publish(r)
  <2>1. ~Leave(r) /\ ~Answer(r)
    BY <1>8 DEF Publish, Leave, Answer
  <2>2. pc[r] = "publish" /\ pc'[r] = "publish_url" /\ \A p \in Pools : ~Closes(p)
    BY <1>0, <1>8, PublishAlone
  <2>3. conn' = conn /\ reply' = reply /\ local' = local
    BY <1>8 DEF Publish
  <2>4. local[r] \in Pools /\ Alive(local[r]) /\ pools'[local[r]] # Null
    BY <1>0, <2>2, <2>3 DEF TInv, RequestsFit, ReferencedIsAlive, Holding, Alive
  <2>5. Kept(local[r]) /\ pools[local[r]].open
    BY <1>0, <2>2, <2>4, AliveIsKept DEF QInv, PInv, NewIsOpen
  <2>6. pools'[local'[r]].open
    BY <2>2, <2>3, <2>4, <2>5 DEF Kept
  <2>7. reply[r] = "ok"
    BY <2>2 DEF QInv, IdleIsClean, InGetDb
  <2>8. QED
    BY <1>3, <2>1, <2>2, <2>3, <2>6, <2>7 DEF PoolErrors
<1>9. CASE PublishUrl(r)
  <2>1. ~Leave(r) /\ ~Answer(r) /\ ~Publish(r)
    BY <1>9 DEF PublishUrl, Leave, Answer, Publish
  <2>2. /\ pc[r] = "publish_url" /\ pc'[r] = "connect"
        /\ conn' = conn /\ reply' = reply /\ local' = local /\ pools' = pools
    BY <1>0, <1>9 DEF TInv, PublishUrl
  <2>3. QED
    BY <1>3, <1>s, <2>1, <2>2
<1>10. CASE Connect(r)
  <2>1. pc[r] = "connect"
    BY <1>10 DEF Connect
  <2>2. ~Leave(r) /\ ~Answer(r) /\ ~Publish(r)
    BY <2>1 DEF Leave, Answer, Publish
  <2>3. CASE ~pools[local[r]].open
    <3>1. Db(r) \in stranded
      BY <1>3, <2>1, <2>2, <2>3
    <3>2. pc'[r] = "answer" /\ conn' = conn
      BY <1>0, <1>10, <2>3 DEF TInv, Connect, Fail
    <3>3. QED
      BY <1>3, <1>s, <2>2, <3>1, <3>2
  <2>4. CASE pools[local[r]].open
    <3>1. /\ pc' = [pc EXCEPT ![r] = "handler"] /\ reply' = reply
          /\ conn' = [conn EXCEPT ![r] = IF pools[local[r]].idle = "none" THEN "live"
                                         ELSE pools[local[r]].idle]
          /\ disturbed' = IF pools[local[r]].idle = "broken" /\ pools[local[r]].raced
                          THEN disturbed \cup {r} ELSE disturbed
      BY <1>10, <2>4 DEF Connect
    <3>2. local[r] \in Pools /\ Alive(local[r])
      BY <1>0, <2>1 DEF TInv, RequestsFit, ReferencedIsAlive, Holding
    <3>3. pools[local[r]].idle # "broken"
      BY <1>2, <2>2, <3>1, <3>2 DEF QInv, BrokenIsOld
    <3>4. conn'[r] # "broken" /\ pc'[r] = "handler"
      BY <1>0, <3>1, <3>3 DEF TInv
    <3>5. QED
      BY <1>3, <1>s, <2>2, <3>1, <3>4
  <2>5. QED
    BY <2>3, <2>4
<1>11. CASE ConnectTimesOut(r)
  <2>1. ~Leave(r) /\ ~Answer(r)
    BY <1>11 DEF ConnectTimesOut, Leave, Answer
  <2>2. conn' = conn /\ pc'[r] = "answer" /\ reply'[r] = "pool_timeout"
    BY <1>0, <1>11 DEF TInv, ConnectTimesOut, Fail
  <2>3. QED
    BY <1>3, <2>1, <2>2 DEF PoolErrors
<1>12. CASE Get(r) \/ Post(r)
  <2>1. ~Leave(r) /\ ~Answer(r) /\ ~Publish(r)
    BY <1>12 DEF Get, Post, Leave, Answer, Publish
  <2>2. conn' = conn /\ pc'[r] \in {"exit", "leave"}
    BY <1>0, <1>12 DEF TInv, Get, Post
  <2>3. HandlerRaises(r) \/ reply' = reply
    BY <1>12 DEF Get, Post
  <2>4. HandlerRaises(r) => reply'[r] = "no_table"
    BY <1>0, <1>3, <2>1 DEF TInv, HandlerRaises
  <2>5. QED
    BY <1>3, <1>s, <2>1, <2>2, <2>3, <2>4 DEF PoolErrors
<1>13. QED
  BY <1>1, <1>4, <1>5, <1>6, <1>7, <1>8, <1>9, <1>10, <1>11, <1>12 DEF Request

\* So it finds what it needs, whoever takes a step.
LEMMA QuietStep ==
  ASSUME QInv, TInv', [Next]_vars
  PROVE  QuietHas'
<1> SUFFICES ASSUME NEW r \in Requests, r \notin disturbed'
             PROVE  /\ pc'[r] \in {"take", "close"} => pool'[Db(r)'] # Null
                    /\ pc'[r] \in {"publish_url", "connect"} =>
                         pools'[local'[r]].open \/ Db(r)' \in stranded'
                    /\ conn'[r] # "broken"
                    /\ reply'[r] \notin PoolErrors \/ Db(r)' \in stranded'
  BY DEF QuietHas
<1>1. CASE Received1(r)
  <2>1. pc[r] = "idle" /\ pc'[r] = "look" /\ conn' = conn /\ reply' = reply
    BY <1>1 DEF Received1, Receive, Step, QInv, PInv, TInv, TypeOK
  <2>2. conn[r] = "none" /\ reply[r] = "ok"
    BY <2>1 DEF QInv, ConnectionsFit, IdleIsClean
  <2>3. QED
    BY <2>1, <2>2 DEF PoolErrors
<1>2. CASE Restart
  BY <1>2 DEF Restart, PoolErrors
<1>3. QED
  BY <1>1, <1>2, QuietMoved, QuietUnmoved

\* At the start nothing has happened.
LEMMA QuietInit == Init => QInv
<1> SUFFICES ASSUME Init PROVE QInv
  OBVIOUS
<1>1. PInv
  BY PoolInit
<1>2. ConnectionsFit /\ LocalFits /\ IdleIsClean /\ PoolsFit
  BY DEF Init, ConnectionsFit, LocalFits, IdleIsClean, PoolsFit
<1>3. MakersDisturb /\ LeavingDisturbs /\ TerminateDisturbs /\ NewIsFresh /\ BrokenIsOld
  BY DEF Init, MakersDisturb, Creating, LeavingDisturbs, Leaving, TerminateDisturbs, AdminAt, NewIsFresh,
         BrokenIsOld, Alive
<1>4. QuietHas
  BY DEF Init, QuietHas, PoolErrors
<1>5. QED
  BY <1>1, <1>2, <1>3, <1>4 DEF QInv

\* QuietRequestsSucceed: in quiet times no request is given a closed pool, a broken
\* connection or a KeyError (get_db_pool, database.py:71-90, beside admin.py), unless
\* its database has a pool that the RuntimeError of database.py:101 has left closed.
THEOREM QuietStays == Spec => []QuietRequestsSucceed
<1>1. QInv /\ TInv' /\ PInv' /\ [Next]_vars => QInv'
  <2> SUFFICES ASSUME QInv, TInv', PInv', [Next]_vars PROVE QInv'
    OBVIOUS
  <2>1. /\ PInv /\ TInv /\ ConnectionsFit /\ LocalFits /\ IdleIsClean /\ PoolsFit
        /\ MakersDisturb /\ LeavingDisturbs /\ TerminateDisturbs /\ NewIsFresh /\ BrokenIsOld
    BY DEF QInv, PInv
  <2>2. ConnectionsFit' /\ LocalFits' /\ IdleIsClean'
    BY <2>1, ConnectionStep, LocalStep
  <2>3. PoolsFit' /\ MakersDisturb' /\ LeavingDisturbs'
    BY <2>1, <2>2, FitStep, MakersStep, LeavingStep
  <2>4. TerminateDisturbs' /\ NewIsFresh' /\ BrokenIsOld'
    BY <2>1, <2>2, TerminateStep, FreshStep, BrokenStep
  <2>5. QuietHas'
    BY QuietStep
  <2>6. QED
    BY <2>2, <2>3, <2>4, <2>5 DEF QInv
<1>2. TInv /\ [Next]_vars => TInv'
  BY TypeStep
<1>3. PInv /\ TInv' /\ [Next]_vars => PInv'
  BY PoolStep
<1>4. QInv => PInv /\ TInv /\ QuietRequestsSucceed
  BY DEF QInv, PInv, QuietHas, QuietRequestsSucceed
<1>5. Init => QInv
  BY QuietInit
<1>6. QED
  BY <1>1, <1>2, <1>3, <1>4, <1>5, PTL DEF Spec

=============================================================================
