------------------------------ MODULE Databases ------------------------------
(***************************************************************************)
(* The databases behind the server, the connection pools to them and the   *)
(* administration of both: database.py:21-131, :465-492 and                *)
(* routers/admin.py.  A header names the database of a request.            *)
(*                                                                         *)
(* A request enters get_db in a worker thread, where get_db_pool looks,    *)
(* closes, creates and stores without a lock.  An administrative request   *)
(* is an async handler over synchronous calls: it keeps the event loop     *)
(* from its first statement to its answer, while the threads go on.        *)
(***************************************************************************)
EXTENDS Naturals, FiniteSets

CONSTANTS
  Requests,    \* connections of clients
  Databases,   \* names, all of them LIKE 'akeneo%'
  Default,     \* the database of AKENEO_DATABASE_URL
  Pools,       \* ConnectionPool objects
  Workers,     \* threads for handlers (40)
  PoolSize,    \* connections of a pool (20)
  Calls,       \* what clients send: <<database, "get" in a thread or "post" on the loop>>
  Operations,  \* what administrators send: <<operation, database, other database>>
  MaxOperations,  \* bound: operations and restarts in a behaviour
  Null

Ops == {"ensure", "init", "clear", "backup", "restore", "destroy"}
Steps == {"ensure", "init_new", "truncate", "close", "pop", "terminate", "drop", "copy",
          "close_all", "close_next", "forget", "forget_urls", "list", "done"}

\* A ConnectionPool, a request, an administrative request; keys and seen belong to the walk
\* of close_db_pool: what was in _db_pools when it began, and what it has closed of it.
PoolObject == [db : Databases, open : BOOLEAN, idle : {"none", "live", "broken"},
               raced : BOOLEAN]
Received == [db : Databases, verb : {"get", "post"}]
Administration == [op : Ops, db : Databases, other : Databases, step : Steps,
                   code : {0, 200, 400, 404, 500}, keys : SUBSET Databases, seen : SUBSET Databases]

ASSUME DatabasesAssumption ==
  /\ Default \in Databases /\ Null \notin Requests \cup Databases \cup Pools
  /\ Workers \in Nat \ {0} /\ PoolSize \in Nat \ {0} /\ MaxOperations \in Nat /\ IsFiniteSet(Requests)
  /\ Calls \subseteq Databases \X {"get", "post"}
  /\ Operations \subseteq Ops \X Databases \X Databases
  /\ Null \notin PoolObject \cup Received \cup Administration

VARIABLES
  content,   \* per database: none, bare (without tables), or ready
  known,     \* _known_databases
  pool,      \* _db_pools
  url,       \* the keys of _db_pool_urls; the URL of a name never changes
  pools,     \* the ConnectionPool objects: their database, whether open, their idle
             \* connection, and (history) whether their maker was disturbed
  pc,        \* where each request is
  req,       \* its database and verb
  local,     \* the pool get_db_pool works on or has returned
  conn,      \* its connection: none, live, or broken, that is terminated
  reply,     \* what it will be answered
  admin,     \* the administrative request on the loop
  disturbed, \* history: requests during which an operation on their database, or a
             \* request that makes a pool for it, went on
  hurt,      \* history: databases whose creation or restore has not been completed
  touched,   \* history: databases that requests have named since the start
  stranded,  \* history: databases whose pool a close_db_pool that failed half-way has
             \* closed and left in _db_pools
  count      \* operations and restarts so far

vars == <<content, known, pool, url, pools, pc, req, local, conn, reply, admin,
          disturbed, hurt, touched, stranded, count>>
dicts == <<content, known, pool, url>>
history == <<disturbed, hurt, touched, stranded, count>>

----------------------------------------------------------------------------
(* Connections. *)

Exists(d) == content[d] # "none"
Alive(p) == pools[p] # Null
InUse(p) == {r \in Requests : local[r] = p /\ conn[r] # "none"}

\* PostgreSQL copies or drops a database only when nobody is connected to it.
Sessions(d) ==
  \/ \E p \in Pools : Alive(p) /\ pools[p].db = d /\ pools[p].idle = "live"
  \/ \E r \in Requests : conn[r] = "live" /\ req[r].db = d

\* pg_terminate_backend for every session on the databases D.
Terminated(D, ps) ==
  [p \in Pools |-> IF ps[p] # Null /\ ps[p].db \in D /\ ps[p].idle = "live"
                   THEN [ps[p] EXCEPT !.idle = "broken"] ELSE ps[p]]
TerminatedConns(D) ==
  [r \in Requests |-> IF conn[r] = "live" /\ req[r].db \in D THEN "broken" ELSE conn[r]]

Closed(P) ==
  [p \in Pools |-> IF p \in P THEN [pools[p] EXCEPT !.open = FALSE, !.idle = "none"]
                   ELSE pools[p]]

\* A pool that neither a dictionary nor a request refers to any more is collected.
Swept(ps, registered, used) ==
  [p \in Pools |-> IF \/ \E d \in Databases : registered[d] = p
                      \/ \E r \in Requests : used[r] = p
                   THEN ps[p] ELSE Null]

\* A pool keeps one connection when it is not used (min_size), and tries again
\* when it cannot.
Keep(p) ==
  /\ Alive(p) /\ pools[p].open /\ pools[p].idle = "none" /\ InUse(p) = {}
  /\ Exists(pools[p].db)
  /\ pools' = [pools EXCEPT ![p].idle = "live"]
  /\ UNCHANGED <<dicts, pc, req, local, conn, reply, admin, history>>

----------------------------------------------------------------------------
(* A request: threads, get_db_pool, get_db. *)

InGetDb == {"look", "take", "recheck", "close", "create", "publish", "publish_url", "connect"}
Creating == {"recheck", "close", "create", "publish", "publish_url"}
Threads == {r \in Requests : pc[r] \in InGetDb \/ pc[r] = "work"}
LoopFree == admin = Null
Db(r) == req[r].db

On(D, except) == {q \in Requests \ except : req[q] # Null /\ req[q].db \in D}

Step(r, from, to) == pc[r] = from /\ pc' = [pc EXCEPT ![r] = to]

\* r leaves get_db without a connection.
Fail(r, why) ==
  /\ pc' = [pc EXCEPT ![r] = "answer"]
  /\ reply' = [reply EXCEPT ![r] = why]
  /\ local' = [local EXCEPT ![r] = Null]
  /\ pools' = Swept(pools, pool, local')
  /\ UNCHANGED <<dicts, req, conn, admin, history>>

\* A request that waits for its first thread has not arrived yet.
Receive(r, d, verb) ==
  /\ LoopFree /\ Cardinality(Threads) < Workers
  /\ Step(r, "idle", "look")
  /\ req' = [req EXCEPT ![r] = [db |-> d, verb |-> verb]]
  /\ disturbed' = IF \E q \in Requests : pc[q] \in Creating /\ Db(q) = d
                  THEN disturbed \cup {r} ELSE disturbed \ {r}
  /\ touched' = touched \cup {d}
  /\ UNCHANGED <<dicts, pools, local, conn, reply, admin, hurt, stranded, count>>

\* database.py:79: a pool is stored and so is its URL.
Look(r) ==
  /\ Step(r, "look", IF pool[Db(r)] # Null /\ Db(r) \in url THEN "take" ELSE "recheck")
  /\ disturbed' = IF pc'[r] = "recheck" THEN disturbed \cup On({Db(r)}, {r}) ELSE disturbed
  /\ UNCHANGED <<dicts, pools, req, local, conn, reply, admin, hurt, touched, stranded, count>>

\* :80 and :83: the key may have been deleted meanwhile.
Take(r) ==
  /\ pc[r] = "take"
  /\ IF pool[Db(r)] = Null THEN Fail(r, "key_error")
     ELSE /\ pc' = [pc EXCEPT ![r] = "connect"]
          /\ local' = [local EXCEPT ![r] = pool[Db(r)]]
          /\ UNCHANGED <<dicts, pools, req, conn, reply, admin, history>>

Recheck(r) ==
  /\ Step(r, "recheck", IF pool[Db(r)] # Null THEN "close" ELSE "create")
  /\ UNCHANGED <<dicts, pools, req, local, conn, reply, admin, history>>

Close(r) ==
  /\ pc[r] = "close"
  /\ IF pool[Db(r)] = Null THEN Fail(r, "key_error")
     ELSE /\ pc' = [pc EXCEPT ![r] = "create"]
          /\ pools' = Closed({pool[Db(r)]})
          /\ UNCHANGED <<dicts, req, local, conn, reply, admin, history>>

\* A new object, connected to nothing yet; which of the free ones makes no difference.
Create(r) ==
  /\ Step(r, "create", "publish")
  /\ \E p \in Pools : ~Alive(p)
  /\ LET p == CHOOSE q \in Pools : ~Alive(q) IN
       /\ pools' = [pools EXCEPT ![p] = [db |-> Db(r), open |-> TRUE, idle |-> "none",
                                      raced |-> FALSE]]
       /\ local' = [local EXCEPT ![r] = p]
  /\ UNCHANGED <<dicts, req, conn, reply, admin, history>>

Publish(r) ==
  /\ Step(r, "publish", "publish_url")
  /\ pool' = [pool EXCEPT ![Db(r)] = local[r]]
  /\ pools' = Swept([pools EXCEPT ![local[r]].raced = r \in disturbed], pool', local)
  /\ stranded' = stranded \ {Db(r)}
  /\ UNCHANGED <<content, known, url, req, local, conn, reply, admin,
                 disturbed, hurt, touched, count>>

PublishUrl(r) ==
  /\ Step(r, "publish_url", "connect")
  /\ url' = url \cup {Db(r)}
  /\ UNCHANGED <<content, known, pool, pools, req, local, conn, reply, admin, history>>

\* pool.connection(): the idle connection, unchecked, or a new one.
Connect(r) ==
  LET p == local[r] IN
  /\ pc[r] = "connect"
  /\ \/ ~pools[p].open /\ Fail(r, "pool_closed")
     \/ /\ pools[p].open /\ Cardinality(InUse(p)) < PoolSize
        /\ pools[p].idle # "none" \/ Exists(Db(r))
        /\ conn' = [conn EXCEPT ![r] = IF pools[p].idle = "none" THEN "live" ELSE pools[p].idle]
        /\ pools' = [pools EXCEPT ![p].idle = "none"]
        /\ disturbed' = IF pools[p].idle = "broken" /\ pools[p].raced
                        THEN disturbed \cup {r} ELSE disturbed
        /\ pc' = [pc EXCEPT ![r] = "handler"]
        /\ UNCHANGED <<dicts, req, local, reply, admin, hurt, touched, stranded, count>>

\* Variant: a thread waits for a connection as long as it takes.
NoTimeout(r) ==
  /\ pc[r] = "connect" /\ pools[local[r]].open /\ pools[local[r]].idle = "none"
  /\ ~Exists(Db(r))
  /\ Fail(r, "pool_timeout")

\* After 30 seconds without a connection it raises PoolTimeout.
ConnectTimesOut(r) ==
  LET p == local[r] IN
  /\ pc[r] = "connect" /\ pools[p].open
  /\ \/ Cardinality(InUse(p)) >= PoolSize
     \/ pools[p].idle = "none" /\ ~Exists(Db(r))
  /\ Fail(r, "pool_timeout")

\* A plain handler needs a thread again.
Work(r) ==
  /\ Step(r, "handler", "work")
  /\ req[r].verb = "get"
  /\ LoopFree /\ Cardinality(Threads) < Workers
  /\ UNCHANGED <<dicts, pools, req, local, conn, reply, admin, history>>

HandlerRaises(r) ==
  \/ conn[r] = "broken" /\ reply' = [reply EXCEPT ![r] = "terminated"]
  \/ conn[r] = "live" /\ content[Db(r)] = "bare" /\ reply' = [reply EXCEPT ![r] = "no_table"]

\* A GET reads; its transaction, and so its locks on the tables, stay to the exit.
Get(r) ==
  /\ Step(r, "work", "exit")
  /\ HandlerRaises(r) \/ (conn[r] = "live" /\ content[Db(r)] # "bare" /\ UNCHANGED reply)
  /\ UNCHANGED <<dicts, pools, req, local, conn, admin, history>>

\* A POST commits, or is refused and leaves its transaction to the exit as well.
Post(r) ==
  /\ pc[r] = "handler" /\ req[r].verb = "post" /\ LoopFree
  /\ \/ HandlerRaises(r) /\ pc' = [pc EXCEPT ![r] = "exit"]
     \/ /\ conn[r] = "live" /\ content[Db(r)] # "bare"
        /\ \/ pc' = [pc EXCEPT ![r] = "leave"]
           \/ pc' = [pc EXCEPT ![r] = "exit"]
        /\ UNCHANGED reply
  /\ UNCHANGED <<dicts, pools, req, local, conn, admin, history>>

Answered(r) ==
  /\ pc' = [pc EXCEPT ![r] = "idle"]
  /\ req' = [req EXCEPT ![r] = Null]
  /\ reply' = [reply EXCEPT ![r] = "ok"]
  /\ disturbed' = disturbed \ {r}

\* The loop dispatches the exit of get_db; the connection goes back to its pool, or
\* is closed when it is broken or the pool is.
Leave(r) ==
  LET p == local[r] IN
  /\ pc[r] \in {"exit", "leave"} /\ LoopFree
  /\ conn' = [conn EXCEPT ![r] = "none"]
  /\ local' = [local EXCEPT ![r] = Null]
  /\ pools' = Swept(IF pools[p].open /\ conn[r] = "live"
                    THEN [pools EXCEPT ![p].idle = "live"] ELSE pools,
                    pool, local')
  /\ Answered(r)
  /\ UNCHANGED <<dicts, admin, hurt, touched, stranded, count>>

Answer(r) ==
  /\ pc[r] = "answer" /\ LoopFree
  /\ Answered(r)
  /\ UNCHANGED <<dicts, pools, local, conn, admin, hurt, touched, stranded, count>>

----------------------------------------------------------------------------
(* Administration.  admin.other is the target of a backup, the source of a restore. *)

AdminAt(op, step) == admin # Null /\ admin.op \in op /\ admin.step = step
Go(step) == admin' = [admin EXCEPT !.step = step]
Done(code) == admin' = [admin EXCEPT !.step = "done", !.code = code]
Requesting == <<pc, req, local, reply>>

First(op) ==
  CASE op \in {"ensure", "init"} -> "ensure" [] op = "clear" -> "truncate"
    [] op \in {"backup", "restore"} -> "close" [] op = "destroy" -> "close_all"

AdminReceive(op, d, other) ==
  /\ LoopFree /\ count < MaxOperations
  /\ count' = count + 1
  /\ admin' = [op |-> op, db |-> d, other |-> other, step |-> First(op), code |-> 0,
               keys |-> {}, seen |-> {}]
  /\ UNCHANGED <<dicts, pools, Requesting, conn, disturbed, hurt, touched, stranded>>

AdminAnswer ==
  /\ AdminAt(Ops, "done")
  /\ admin' = Null
  /\ UNCHANGED <<dicts, pools, Requesting, conn, history>>

\* What follows ensure_db_exists: /ensure_db answers, /init_db calls init_db.
Ensured(d) ==
  /\ known' = known \cup {d}
  /\ IF admin.op = "init" THEN Go("truncate") ELSE Done(200)

\* Variant: the new database is not initialised.
EnsureWithoutInit ==
  /\ AdminAt({"ensure", "init"}, "ensure")
  /\ content' = IF Exists(admin.db) THEN content ELSE [content EXCEPT ![admin.db] = "bare"]
  /\ Ensured(admin.db)
  /\ UNCHANGED <<pool, url, pools, Requesting, conn, history>>

\* What is known is taken for granted; nobody creates a database after the SELECT.
Ensure ==
  LET d == admin.db IN
  /\ AdminAt({"ensure", "init"}, "ensure")
  /\ IF d \in known \/ Exists(d) THEN Ensured(d) /\ UNCHANGED <<content, hurt>>
     ELSE /\ content' = [content EXCEPT ![d] = "bare"]
          /\ hurt' = hurt \cup {d}
          /\ Go("init_new") /\ UNCHANGED known
  /\ UNCHANGED <<pool, url, pools, Requesting, conn, disturbed, touched, stranded, count>>

\* init_db of the new database, which fails when PostgreSQL cannot be reached.
EnsureInit ==
  /\ AdminAt({"ensure", "init"}, "init_new")
  /\ \/ /\ content' = [content EXCEPT ![admin.db] = "ready"]
        /\ hurt' = hurt \ {admin.db} /\ Ensured(admin.db)
     \/ Done(500) /\ UNCHANGED <<content, known, hurt>>
  /\ UNCHANGED <<pool, url, pools, Requesting, conn, disturbed, touched, stranded, count>>

\* init_db as /clear and /init_db call it: the tables are created if need be and
\* truncated, for which every open transaction on them must end.
HasLocks(r) == pc[r] = "exit" /\ conn[r] = "live"
InitDb ==
  /\ AdminAt({"clear", "init"}, "truncate")
  /\ \/ /\ Exists(admin.db)
        /\ \A r \in Requests : HasLocks(r) => Db(r) # admin.db
        /\ content' = [content EXCEPT ![admin.db] = "ready"]
        /\ hurt' = hurt \ {admin.db} /\ Done(200)
     \/ ~Exists(admin.db) /\ Done(500) /\ UNCHANGED <<content, hurt>>
  /\ UNCHANGED <<known, pool, url, pools, Requesting, conn, disturbed, touched, stranded, count>>

CanStart == IF admin.op = "backup" THEN ~Exists(admin.other) ELSE Exists(admin.other)

\* Variants: the source of a restore is not looked for; the closed pool stays in the
\* dictionary.
CloseUnseen ==
  LET d == admin.db IN
  /\ AdminAt({"backup", "restore"}, "close")
  /\ IF admin.op = "backup" /\ ~CanStart
     THEN Done(400) /\ UNCHANGED <<pools, disturbed>>
     ELSE /\ pools' = Closed({pool[d]})
          /\ disturbed' = disturbed \cup On({d}, {})
          /\ Go(IF pool[d] = Null THEN "terminate" ELSE "pop")
  /\ UNCHANGED <<dicts, Requesting, conn, hurt, touched, stranded, count>>

CloseAndKeep ==
  LET d == admin.db IN
  /\ AdminAt({"backup", "restore"}, "close")
  /\ IF ~CanStart
     THEN Done(IF admin.op = "backup" THEN 400 ELSE 404) /\ UNCHANGED <<pools, disturbed>>
     ELSE /\ pools' = Closed({pool[d]})
          /\ disturbed' = disturbed \cup On({d}, {})
          /\ Go("terminate")
  /\ UNCHANGED <<dicts, Requesting, conn, hurt, touched, stranded, count>>

\* A backup needs a new target, a restore an existing source.  Then the pool of the
\* current database is closed, if it has one, and of no other.
CloseCurrent ==
  LET d == admin.db IN
  /\ AdminAt({"backup", "restore"}, "close")
  /\ IF ~CanStart
     THEN Done(IF admin.op = "backup" THEN 400 ELSE 404) /\ UNCHANGED <<pools, disturbed>>
     ELSE /\ pools' = Closed({pool[d]})
          /\ disturbed' = disturbed \cup On({d}, {})
          /\ Go(IF pool[d] = Null THEN "terminate" ELSE "pop")
  /\ UNCHANGED <<dicts, Requesting, conn, hurt, touched, stranded, count>>

\* The pool that is there now goes, closed or not; its URL stays.
PopCurrent ==
  LET d == admin.db IN
  /\ AdminAt({"backup", "restore"}, "pop")
  /\ pool' = [pool EXCEPT ![d] = Null]
  /\ pools' = Swept(pools, pool', local)
  /\ stranded' = stranded \ {d}
  /\ disturbed' = disturbed \cup On({d}, {})
  /\ Go("terminate")
  /\ UNCHANGED <<content, known, url, Requesting, conn, hurt, touched, count>>

\* Variant: the sessions on all databases are terminated.
TerminateAll ==
  /\ AdminAt({"backup", "restore"}, "terminate")
  /\ pools' = Terminated(Databases, pools)
  /\ conn' = TerminatedConns(Databases)
  /\ disturbed' = disturbed \cup On({admin.db}, {})
  /\ Go(IF admin.op = "backup" THEN "copy" ELSE "drop")
  /\ UNCHANGED <<dicts, Requesting, hurt, touched, stranded, count>>

Terminate ==
  /\ AdminAt({"backup", "restore"}, "terminate")
  /\ pools' = Terminated({admin.db}, pools)
  /\ conn' = TerminatedConns({admin.db})
  /\ disturbed' = disturbed \cup On({admin.db}, {})
  /\ Go(IF admin.op = "backup" THEN "copy" ELSE "drop")
  /\ UNCHANGED <<dicts, Requesting, hurt, touched, stranded, count>>

\* A copy is as whole as its template.
Copied(d, from) == IF from \in hurt THEN hurt \cup {d} ELSE hurt \ {d}

\* CREATE DATABASE target WITH TEMPLATE current.
BackupCopy ==
  LET d == admin.db IN
  /\ AdminAt({"backup"}, "copy")
  /\ IF Exists(d) /\ ~Sessions(d)
     THEN /\ content' = [content EXCEPT ![admin.other] = content[d]]
          /\ hurt' = Copied(admin.other, d) /\ Done(200)
     ELSE Done(500) /\ UNCHANGED <<content, hurt>>
  /\ UNCHANGED <<known, pool, url, pools, Requesting, conn, disturbed, touched, stranded, count>>

RestoreDrop ==
  LET d == admin.db IN
  /\ AdminAt({"restore"}, "drop")
  /\ IF Exists(d) /\ ~Sessions(d)
     THEN content' = [content EXCEPT ![d] = "none"] /\ hurt' = hurt \cup {d} /\ Go("copy")
     ELSE Done(500) /\ UNCHANGED <<content, hurt>>
  /\ UNCHANGED <<known, pool, url, pools, Requesting, conn, disturbed, touched, stranded, count>>

\* CREATE DATABASE current WITH TEMPLATE source.
RestoreCopy ==
  LET s == admin.other IN
  /\ AdminAt({"restore"}, "copy")
  /\ IF Exists(s) /\ ~Sessions(s)
     THEN /\ content' = [content EXCEPT ![admin.db] = content[s]]
          /\ hurt' = Copied(admin.db, s) /\ Done(200)
     ELSE Done(500) /\ UNCHANGED <<content, hurt>>
  /\ UNCHANGED <<known, pool, url, pools, Requesting, conn, disturbed, touched, stranded, count>>

\* close_db_pool walks _db_pools and closes one pool after the other, visited in any
\* order.  A thread may go on while a pool is being closed.
Registered == {d \in Databases : pool[d] # Null}
Visit(keys, seen) ==
  /\ disturbed' = disturbed \cup On(Databases, {})
  /\ \/ /\ keys \subseteq seen
        /\ Go("forget") /\ UNCHANGED pools
     \/ \E d \in keys \ seen :
          /\ pools' = Closed({pool[d]})
          /\ admin' = [admin EXCEPT !.step = "close_next", !.keys = keys, !.seen = seen \cup {d}]

DestroyCloseAll ==
  /\ AdminAt({"destroy"}, "close_all")
  /\ Visit(Registered, {})
  /\ UNCHANGED <<dicts, Requesting, conn, hurt, touched, stranded, count>>

\* When a thread has stored the first pool of a database since, the dictionary has
\* changed its size, which next() looks at also after the last pool: RuntimeError, and
\* what has been closed stays where it is.  Only this request takes keys out, so that
\* the sizes differ when the keys do.
DestroyCloseNext ==
  /\ AdminAt({"destroy"}, "close_next")
  /\ \/ /\ Registered # admin.keys
        /\ stranded' = stranded \cup {d \in admin.seen : ~pools[pool[d]].open}
        /\ Done(500) /\ UNCHANGED <<pools, disturbed>>
     \/ /\ Registered = admin.keys
        /\ Visit(admin.keys, admin.seen) /\ UNCHANGED stranded
  /\ UNCHANGED <<dicts, Requesting, conn, hurt, touched, count>>

DestroyForget ==
  /\ AdminAt({"destroy"}, "forget")
  /\ pool' = [d \in Databases |-> Null]
  /\ pools' = Swept(pools, pool', local)
  /\ stranded' = {}
  /\ disturbed' = disturbed \cup On(Databases, {})
  /\ Go("forget_urls")
  /\ UNCHANGED <<content, known, url, Requesting, conn, hurt, touched, count>>

DestroyForgetUrls ==
  /\ AdminAt({"destroy"}, "forget_urls")
  /\ url' = {}
  /\ Go("list")
  /\ UNCHANGED <<content, known, pool, pools, Requesting, conn, history>>

\* The rows of pg_database come as tuples, and row["datname"] raises TypeError, so
\* no database is dropped, unless there is none.
DestroyList ==
  /\ AdminAt({"destroy"}, "list")
  /\ IF \E d \in Databases : Exists(d) THEN Done(500) /\ UNCHANGED known
     ELSE known' = {} /\ Done(200)
  /\ UNCHANGED <<content, pool, url, pools, Requesting, conn, history>>

\* The process dies and __main__ starts it again: init_db of the default database,
\* without which it does not start.
Restart ==
  /\ Exists(Default) /\ count < MaxOperations
  /\ count' = count + 1
  /\ content' = [content EXCEPT ![Default] = "ready"]
  /\ known' = {} /\ url' = {}
  /\ pool' = [d \in Databases |-> Null]
  /\ pools' = [p \in Pools |-> Null]
  /\ pc' = [r \in Requests |-> "idle"]
  /\ req' = [r \in Requests |-> Null]
  /\ local' = [r \in Requests |-> Null]
  /\ conn' = [r \in Requests |-> "none"]
  /\ reply' = [r \in Requests |-> "ok"]
  /\ hurt' = hurt \ {Default}
  /\ admin' = Null /\ disturbed' = {} /\ touched' = {} /\ stranded' = {}

----------------------------------------------------------------------------

Request(r) ==
  \/ Look(r) \/ Take(r) \/ Recheck(r) \/ Close(r) \/ Create(r) \/ Publish(r)
  \/ PublishUrl(r) \/ Connect(r) \/ ConnectTimesOut(r) \/ Work(r) \/ Get(r) \/ Post(r)
  \/ Leave(r) \/ Answer(r)

Admin ==
  \/ AdminAnswer \/ Ensure \/ EnsureInit \/ InitDb
  \/ CloseCurrent \/ PopCurrent \/ Terminate
  \/ BackupCopy \/ RestoreDrop \/ RestoreCopy
  \/ DestroyCloseAll \/ DestroyCloseNext \/ DestroyForget \/ DestroyForgetUrls \/ DestroyList

Next ==
  \/ \E r \in Requests : Request(r) \/ \E c \in Calls : Receive(r, c[1], c[2])
  \/ Admin
  \/ \E o \in Operations : AdminReceive(o[1], o[2], o[3])
  \/ \E p \in Pools : Keep(p)
  \/ Restart

\* At the start the default database has been initialised.
Init ==
  /\ content = [d \in Databases |-> IF d = Default THEN "ready" ELSE "none"]
  /\ known = {} /\ url = {}
  /\ pool = [d \in Databases |-> Null]
  /\ pools = [p \in Pools |-> Null]
  /\ pc = [r \in Requests |-> "idle"]
  /\ req = [r \in Requests |-> Null]
  /\ local = [r \in Requests |-> Null]
  /\ conn = [r \in Requests |-> "none"]
  /\ reply = [r \in Requests |-> "ok"]
  /\ admin = Null /\ disturbed = {} /\ hurt = {} /\ touched = {} /\ stranded = {}
  /\ count = 0

\* Threads and the loop go on; a wait for a connection ends after 30 seconds.
Fairness == SF_vars(Admin) /\ \A r \in Requests : SF_vars(Request(r))
Spec == Init /\ [][Next]_vars /\ Fairness

----------------------------------------------------------------------------
(* Properties. *)

Stages == {"idle", "handler", "work", "exit", "leave", "answer"} \cup InGetDb
PoolErrors == {"key_error", "pool_closed", "terminated"}
Replies == {"ok", "pool_timeout", "no_table"} \cup PoolErrors

\* The types of the variables.
TypeOK ==
  /\ content \in [Databases -> {"none", "bare", "ready"}]
  /\ known \subseteq Databases /\ url \subseteq Databases
  /\ pool \in [Databases -> Pools \cup {Null}]
  /\ pools \in [Pools -> PoolObject \cup {Null}]
  /\ pc \in [Requests -> Stages]
  /\ req \in [Requests -> Received \cup {Null}]
  /\ local \in [Requests -> Pools \cup {Null}]
  /\ conn \in [Requests -> {"none", "live", "broken"}]
  /\ reply \in [Requests -> Replies]
  /\ admin \in Administration \cup {Null}
  /\ disturbed \subseteq Requests /\ hurt \subseteq Databases /\ touched \subseteq Databases
  /\ stranded \subseteq Databases
  /\ count \in 0..MaxOperations

\* An operation has closed the pool of d and is about to take it out.
Leaving(d) ==
  \/ AdminAt({"backup", "restore"}, "pop") /\ admin.db = d
  \/ AdminAt({"destroy"}, "close_next") /\ d \in admin.seen
  \/ AdminAt({"destroy"}, "forget")

\* The pool in _db_pools is open, except while a request is about to replace it or
\* an operation is about to take it out, or when a close_db_pool has failed after it
\* had closed it: whoever finds one later can use it.
RegisteredIsOpen ==
  \A d \in Databases : pool[d] # Null /\ ~pools[pool[d]].open =>
    \/ \E r \in Requests : pc[r] \in {"create", "publish"} /\ Db(r) = d
    \/ Leaving(d) \/ d \in stranded

\* A request fails for want of a good connection only when, during its life, an
\* operation on its database or another request that made a pool for it went on, or
\* when it gets the terminated connection of a pool made under such circumstances:
\* in quiet times no request pays for what was before, but for the pools that a
\* close_db_pool has closed and then failed to take out.
QuietRequestsSucceed ==
  \A r \in Requests : reply[r] \in PoolErrors => r \in disturbed \/ Db(r) \in stranded

\* A database in _known_databases exists and has its tables, unless its creation or a
\* restore of it, or of what it is a copy of, was cut short by an error or a crash.
KnownIsReady ==
  \A d \in known : content[d] \in {"none", "bare"} => d \in hurt

\* A restore that answers with an error has left the database as it was, unless the
\* backup is the database itself or requests have named it since the server started:
\* its pool is never closed, and PostgreSQL copies no database in use.
RestoreKeepsData ==
  [][AdminAt({"restore"}, "copy") /\ admin' # Null /\ admin'.code = 500
       => admin.other = admin.db \/ admin.other \in touched]_vars

\* The loop runs TRUNCATE, and waits for a transaction whose exit it should dispatch.
LoopStuck ==
  AdminAt({"clear", "init"}, "truncate")
  /\ \E r \in Requests : HasLocks(r) /\ Db(r) = admin.db

\* Every request is answered, though threads wait for connections and connections for
\* threads, unless the loop is stuck.
AnsweredUnlessStuck ==
  \A r \in Requests : pc[r] # "idle" ~> (pc[r] = "idle" \/ LoopStuck)

=============================================================================
