-------------------------- MODULE EndpointRegistry --------------------------
(***************************************************************************)
(* Routes that users define (endpoint_route_handler): records, the table   *)
(* endpoint_route that a sync copies them to, and the routing map that     *)
(* every process of the server keeps in a cache.                           *)
(*                                                                         *)
(* A sync sets the flag registry_sync and commits; a hook that runs after  *)
(* the commit copies the records to the table in a transaction of its own. *)
(* The cache of a process is keyed by a version that triggers raise on     *)
(* every INSERT and UPDATE; besides, Odoo clears caches: in the process    *)
(* that calls clear_cache at once, in the others when they begin a request *)
(* after the signal that follows the commit.                               *)
(*                                                                         *)
(* Each action is a commit, a write that others can see before the commit  *)
(* (the version, the cleared cache), or one step of a request.             *)
(***************************************************************************)
EXTENDS Integers, FiniteSets, Functions

CONSTANTS
  Records,     \* ids of endpoints; the key of the row of r is r
  Routes,      \* a path with the method and authentication it takes
  PathOf,      \* [route |-> its path]
  Threads,     \* threads that serve requests ...
  Procs,       \* ... in processes, each with a cache of its own:
  ProcessOf,   \* [t |-> the process of t]
  NoRow,       \* no row in the table
  NoMap,       \* nothing in the cache
  MaxEvents    \* bound: changes of records, syncs, deaths and restarts

ASSUME RegistryAssumption ==
  /\ ProcessOf \in [Threads -> Procs]
  /\ DOMAIN PathOf = Routes
  /\ NoRow \notin [route : Routes, run : Nat]
  /\ MaxEvents \in Nat

VARIABLES
  record,    \* the endpoints as committed
  rows,      \* endpoint_route: the row registered for each record
  version,   \* last_value of the sequence endpoint_route_version
  cache,     \* per process: the routing map and the version it is for
  outdated,  \* processes that will clear their cache when they check signals
  work,      \* per thread: the request or sync it is busy with
  serverRun, \* the salt of hash(): changes when the server restarts
  troubled,  \* history: records whose last sync failed or met another one
  lost,      \* history: a process died before it signalled its commit
  events     \* events so far

vars == <<record, rows, version, cache, outdated, work, serverRun, troubled,
          lost, events>>

RecordStates == [life : {"none", "live", "deleted"}, active : BOOLEAN,
                 route : Routes, synced : BOOLEAN]
Row == [route : Routes, run : Nat]
Tables == [Records -> Row \cup {NoRow}]

Live(r) == record[r].life = "live"

\* The row of r; its endpoint_hash is hash() of the path, method and
\* authentication, and salted.
Registered(r) == [route |-> record[r].route, run |-> serverRun]
RoutesIn(table) == {table[r].route : r \in {s \in Records : table[s] # NoRow}}

Idle == [step |-> "idle"]

Init ==
  /\ \E live \in SUBSET Records, route \in [Records -> Routes] :
       /\ IsInjective([r \in Records |-> PathOf[route[r]]])
       /\ record = [r \in Records |->
            [life |-> IF r \in live THEN "live" ELSE "none", active |-> TRUE,
             route |-> route[r], synced |-> r \in live]]
  /\ serverRun = 0
  /\ rows = [r \in Records |-> IF Live(r) THEN Registered(r) ELSE NoRow]
  /\ version = 0
  /\ cache = [p \in Procs |-> NoMap]
  /\ outdated = {}
  /\ work = [t \in Threads |-> Idle]
  /\ troubled = {} /\ lost = FALSE
  /\ events = 0

Event == events < MaxEvents /\ events' = events + 1

Busy(steps) == {t \in Threads : work[t].step \in steps}

\* Records whose sync is between the commit of the flag and the end of the hook.
UnderSync == UNION {work[t].ids : t \in Busy({"hook", "read", "written"})}

\* Another thread has written rows of rs, or a row with the route of one, and
\* not committed yet: PostgreSQL lets the writer wait.
Waits(rs, routes) ==
  \E t \in Busy({"written"}) :
    \/ DOMAIN work[t].out \cap rs # {}
    \/ \E s \in DOMAIN work[t].out :
         \E row \in {work[t].out[s], rows[s]} \ {NoRow} : row.route \in routes

-----------------------------------------------------------------------------
(* Records (endpoint_route_sync_mixin.py, endpoint_route_handler.py)       *)

Change(r, new) ==
  /\ Event
  /\ record' = [record EXCEPT ![r] = new]
  /\ UNCHANGED <<rows, version, cache, outdated, work, serverRun, troubled, lost>>

\* The constraint unique(route) of the model, about paths, archived records
\* included
FreeRoutes(r) ==
  {route \in Routes : \A s \in Records \ {r} :
     Live(s) => PathOf[record[s].route] # PathOf[route]}

\* Nothing is registered on create.  A deleted id is not used again.
Create(r, route) ==
  /\ record[r].life = "none"
  /\ route \in FreeRoutes(r)
  /\ Change(r, [life |-> "live", active |-> TRUE, route |-> route, synced |-> FALSE])

\* MUTANT: only a change of "active" marks the record as out of sync.
EditRouteSilently(r, route) ==
  /\ Live(r)
  /\ route \in FreeRoutes(r)
  /\ Change(r, [record[r] EXCEPT !.route = route])

\* write(): a field of _routing_impacting_fields
EditRoute(r, route) ==
  /\ Live(r)
  /\ route \in FreeRoutes(r)
  /\ Change(r, [record[r] EXCEPT !.route = route, !.synced = FALSE])

\* write(): "active"
Archive(r) ==
  /\ Live(r)
  /\ Change(r, [record[r] EXCEPT !.active = ~@, !.synced = FALSE])

-----------------------------------------------------------------------------
(* Sync                                                                    *)

\* The button "Sync registry": write({"registry_sync": True}) is committed and
\* the hook is about to run.  "alone" are the records that no other sync or
\* deletion touches meanwhile.
Sync(t, rs) ==
  /\ Event
  /\ work[t] = Idle
  /\ rs # {} /\ \A r \in rs : Live(r)
  /\ record' = [r \in Records |-> IF r \in rs THEN [record[r] EXCEPT !.synced = TRUE]
                                              ELSE record[r]]
  /\ work' = [u \in Threads |->
       CASE u = t -> [step |-> "hook", ids |-> rs, alone |-> rs \ UnderSync]
         [] u \in Busy({"hook", "read", "written"}) -> [work[u] EXCEPT !.alone = @ \ rs]
         [] OTHER -> work[u]]
  /\ UNCHANGED <<rows, version, cache, outdated, serverRun, troubled, lost>>

\* _handle_registry_sync: the first query takes the snapshot of the records and
\* of the table.
ReadRecords(t) ==
  /\ work[t].step = "hook"
  /\ work' = [work EXCEPT ![t] =
       [step |-> "read", ids |-> work[t].ids, alone |-> work[t].alone,
        wanted |-> [r \in {s \in work[t].ids : Live(s)} |->
                      IF record[r].active THEN Registered(r) ELSE NoRow],
        known |-> {r \in Records : rows[r] # NoRow},
        missed |-> {}]]
  /\ UNCHANGED <<record, rows, version, cache, outdated, serverRun, troubled, lost, events>>

\* What update_rules inserts and updates, and drop_rules deletes.
Created(w) == {r \in DOMAIN w.wanted \ w.known : w.wanted[r] # NoRow}
Updated(w) == {r \in DOMAIN w.wanted \cap w.known : w.wanted[r] # NoRow}
Dropped(w) == {r \in DOMAIN w.wanted \cap w.known : w.wanted[r] = NoRow}
Written(w) == Created(w) \cup Updated(w) \cup Dropped(w)

\* Triggers raise the version before an INSERT and an UPDATE, not before a DELETE.
RaisedBy(w) == IF Created(w) \cup Updated(w) = {} THEN version ELSE version + 1

\* A row in the way: written since the snapshot, or with the same key or hash.
Clashes(w) ==
  \/ w.missed \cap Written(w) # {}
  \/ \E r \in Created(w) :
       \/ rows[r] # NoRow
       \/ \E s \in Records \ {r} : rows[s] = w.wanted[r]

\* UPDATE checks the unique hash row by row, in some order: a row that takes
\* the hash another one gives up must come later.
OrderMatters(w) ==
  \E r \in Updated(w) : \E s \in Records \ {r} : rows[s] = w.wanted[r]
InSomeOrder(w) ==
  \E place \in [Updated(w) -> 1 .. Cardinality(Updated(w))] :
    /\ IsInjective(place)
    /\ \A r \in Updated(w) : \A s \in Records \ {r} :
         rows[s] = w.wanted[r] => s \in Updated(w) /\ place[s] < place[r]

\* MUTANT: the process that syncs does not clear its own cache.
WriteRowsUncleared(t) ==
  LET w == work[t] IN
  /\ w.step = "read"
  /\ ~Waits(Written(w), {w.wanted[r].route : r \in Created(w) \cup Updated(w)})
  /\ ~Clashes(w) /\ InSomeOrder(w)
  /\ work' = [work EXCEPT ![t] = [step |-> "written", ids |-> w.ids, alone |-> w.alone,
                                   out |-> Restrict(w.wanted, Written(w))]]
  /\ version' = RaisedBy(w)
  /\ UNCHANGED <<record, rows, cache, outdated, serverRun, troubled, lost, events>>

\* The rows are written and the cache of this process is cleared, all before
\* the commit; the sequence does not wait for it either.
WriteRows(t) ==
  LET w == work[t] IN
  /\ w.step = "read"
  /\ ~Waits(Written(w), {w.wanted[r].route : r \in Created(w) \cup Updated(w)})
  /\ ~Clashes(w) /\ InSomeOrder(w)
  /\ work' = [work EXCEPT ![t] = [step |-> "written", ids |-> w.ids, alone |-> w.alone,
                                   out |-> Restrict(w.wanted, Written(w))]]
  /\ version' = RaisedBy(w)
  /\ cache' = [cache EXCEPT ![ProcessOf[t]] = NoMap]
  /\ UNCHANGED <<record, rows, outdated, serverRun, troubled, lost, events>>

\* The hook raises: the user sees an error, the flag stays as it was
\* committed.  Rows written before the error have raised the version.
FailSync(t) ==
  LET w == work[t] IN
  /\ w.step = "read"
  /\ ~Waits(Written(w), {w.wanted[r].route : r \in Created(w) \cup Updated(w)})
  /\ Clashes(w) \/ OrderMatters(w)
  /\ work' = [work EXCEPT ![t] = Idle]
  /\ version' \in {version, version + 1}
  /\ troubled' = troubled \cup w.ids
  /\ UNCHANGED <<record, rows, cache, outdated, serverRun, lost, events>>

\* Rows js have been written by a commit: open syncs miss it.
Missed(js) ==
  [t \in Threads |-> IF work[t].step = "read" THEN [work[t] EXCEPT !.missed = @ \cup js]
                                              ELSE work[t]]

\* The commit of _handle_registry_sync_post_commit
CommitSync(t) ==
  LET w == work[t] IN
  /\ w.step = "written"
  /\ rows' = [r \in Records |-> IF r \in DOMAIN w.out THEN w.out[r] ELSE rows[r]]
  /\ work' = [Missed(DOMAIN w.out) EXCEPT
                ![t] = [step |-> "signal"]]
  /\ troubled' = (troubled \ w.alone) \cup (w.ids \ w.alone)
  /\ UNCHANGED <<record, version, cache, outdated, serverRun, lost, events>>

\* Odoo, after the commit: the other processes clear their caches when they
\* next look; what others have told this one is forgotten.
Signal(t) ==
  /\ work[t].step = "signal"
  /\ work' = [work EXCEPT ![t] = Idle]
  /\ outdated' = Procs \ {ProcessOf[t]}
  /\ UNCHANGED <<record, rows, version, cache, serverRun, troubled, lost, events>>

\* unlink(): the rule is dropped in the transaction of the deletion.
Unlink(t, r) ==
  /\ Event
  /\ work[t] = Idle /\ Live(r)
  /\ ~Waits({r}, {})
  /\ record' = [record EXCEPT ![r].life = "deleted"]
  /\ rows' = [rows EXCEPT ![r] = NoRow]
  /\ cache' = [cache EXCEPT ![ProcessOf[t]] = NoMap]
  /\ work' = [u \in Threads |->
       LET w == Missed({r})[u] IN
       CASE u = t -> [step |-> "signal"]
         [] u \in Busy({"hook", "read", "written"}) -> [w EXCEPT !.alone = @ \ {r}]
         [] OTHER -> w]
  /\ UNCHANGED <<version, outdated, serverRun, troubled, lost>>

-----------------------------------------------------------------------------
(* Requests, and the end of processes                                      *)

\* No change of the table is about to be committed or signalled.
Quiet == Busy({"written", "signal"}) = {} /\ ~lost

\* Odoo looks for signals, then the transaction of the request begins.
BeginRequest(t) ==
  LET p == ProcessOf[t] IN
  /\ work[t] = Idle
  /\ cache' = IF p \in outdated THEN [cache EXCEPT ![p] = NoMap] ELSE cache
  /\ outdated' = outdated \ {p}
  /\ work' = [work EXCEPT ![t] =
       [step |-> "request", known |-> RoutesIn(rows), quiet |-> Quiet]]
  /\ UNCHANGED <<record, rows, version, serverRun, troubled, lost, events>>

\* ir_http.py routing_map: the map cached for the current version; for another
\* version what super() returns, which Odoo may have cached without the version
\* or makes of the rows in the snapshot
MapFor(t) ==
  LET cached == cache[ProcessOf[t]] IN
  CASE cached = NoMap -> {work[t].known}
    [] cached # NoMap /\ cached.version = version -> {cached.routes}
    [] OTHER -> {cached.routes, work[t].known}

Serve(t) ==
  /\ work[t].step = "request"
  /\ \E routes \in MapFor(t) :
       cache' = [cache EXCEPT ![ProcessOf[t]] = [version |-> version, routes |-> routes]]
  /\ work' = [work EXCEPT ![t] = Idle]
  /\ UNCHANGED <<record, rows, version, outdated, serverRun, troubled, lost, events>>

\* A process is killed; Odoo starts another one.
Die(p) ==
  LET mine == {t \in Threads : ProcessOf[t] = p} IN
  /\ Event
  /\ work' = [t \in Threads |-> IF t \in mine THEN Idle ELSE work[t]]
  /\ cache' = [cache EXCEPT ![p] = NoMap]
  /\ outdated' = outdated \ {p}
  /\ troubled' = troubled \cup
       UNION {work[t].ids : t \in mine \cap Busy({"hook", "read", "written"})}
  /\ lost' = (lost \/ mine \cap Busy({"signal"}) # {})
  /\ UNCHANGED <<record, rows, version, serverRun>>

\* The server is restarted, and with it the salt of hash() changes.
Restart ==
  /\ Event
  /\ work' = [t \in Threads |-> Idle]
  /\ cache' = [p \in Procs |-> NoMap]
  /\ outdated' = {}
  /\ troubled' = troubled \cup UnderSync
  /\ lost' = FALSE
  /\ serverRun' = serverRun + 1
  /\ UNCHANGED <<record, rows, version>>

-----------------------------------------------------------------------------

Next ==
  \/ \E r \in Records :
       \/ \E route \in Routes : Create(r, route) \/ EditRoute(r, route)
       \/ Archive(r)
  \/ \E t \in Threads :
       \/ \E rs \in SUBSET Records : Sync(t, rs)
       \/ \E r \in Records : Unlink(t, r)
       \/ ReadRecords(t) \/ WriteRows(t) \/ FailSync(t) \/ CommitSync(t) \/ Signal(t)
       \/ BeginRequest(t) \/ Serve(t)
  \/ \E p \in Procs : Die(p)
  \/ Restart

Spec == Init /\ [][Next]_vars

-----------------------------------------------------------------------------
(* Properties                                                              *)

\* endpoint_route_sync_mixin.py:34-40, with ON and OFF as the code has them: a
\* record with the flag is in line with the registry, whatever was edited,
\* archived or synced before, by whomever, and the route of a deleted record is not
\* served for ever; unless its last sync raised an error, was cut off, or ran beside
\* another one.
SyncedInLine ==
  \A r \in Records \ (UnderSync \cup troubled) :
    IF Live(r) /\ record[r].synced /\ record[r].active
    THEN rows[r] # NoRow /\ rows[r].route = record[r].route
    ELSE rows[r] # NoRow => Live(r) /\ ~record[r].synced

\* readme/DESCRIPTION.md:1-2: "adding and removing controller routes on the
\* fly": a request that begins when all changes have been signalled is served
\* by the routes in the table, in whatever order processes loaded and cleared
\* their maps, and although a route that is dropped raises no version.
NoStaleRoutes ==
  [][\A t \in Threads : LET p == ProcessOf[t] IN
       work[t].step = "request" /\ work'[t] = Idle /\ cache'[p] # NoMap /\ work[t].quiet
         => cache'[p].routes = work[t].known]_vars
=============================================================================
