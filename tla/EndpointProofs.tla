------------------------ MODULE EndpointProofs ------------------------
(***************************************************************************)
(* Proofs about EndpointRegistry, for any number of endpoints, routes,     *)
(* threads and processes, and about Endpoints, for any texts of the        *)
(* endpoint.                                                               *)
(***************************************************************************)
EXTENDS EndpointRegistry, Endpoints, SequenceTheorems, WellFoundedInduction, TLAPS

-----------------------------------------------------------------------------
\* Types

Wishes == UNION {[S -> Row \cup {NoRow}] : S \in SUBSET Records}
Hooks == [step : {"hook"}, ids : SUBSET Records, alone : SUBSET Records]
Reads == [step : {"read"}, ids : SUBSET Records, alone : SUBSET Records,
          wanted : Wishes, known : SUBSET Records, missed : SUBSET Records]
Writes == [step : {"written"}, ids : SUBSET Records, alone : SUBSET Records, out : Wishes]
Signals == [step : {"signal"}]
RequestWorks == [step : {"request"}, known : SUBSET Routes, quiet : BOOLEAN]
Works == {Idle} \cup Hooks \cup Reads \cup Writes \cup Signals \cup RequestWorks

Types ==
  /\ record \in [Records -> RecordStates]
  /\ rows \in Tables
  /\ serverRun \in Nat
  /\ work \in [Threads -> Works]
  /\ outdated \subseteq Procs
  /\ lost \in BOOLEAN

(***************************************************************************)
(* The first invariant: what a sync that nobody disturbs knows and writes  *)
(* is what the records ask for, as long as their flag is set.              *)
(***************************************************************************)

Syncs(t) == work[t].step \in {"hook", "read", "written"}

\* What the registry should have for a record.
Wish(r) == IF record[r].active THEN Registered(r) ELSE NoRow

\* No other sync has a record that a sync is alone with, and nobody deleted it.
AloneInv ==
  \A t \in Threads : Syncs(t) =>
    /\ work[t].alone \subseteq work[t].ids
    /\ \A r \in work[t].alone :
         Live(r) /\ \A u \in Threads : Syncs(u) /\ r \in work[u].ids => u = t

ReadInv ==
  \A t \in Threads : work[t].step = "read" =>
    /\ DOMAIN work[t].wanted \subseteq work[t].ids
    /\ \A r \in work[t].alone :
         /\ r \in DOMAIN work[t].wanted
         /\ r \in work[t].known <=> rows[r] # NoRow
         /\ record[r].synced => work[t].wanted[r] = Wish(r)

WrittenInv ==
  \A t \in Threads : work[t].step = "written" =>
    /\ DOMAIN work[t].out \subseteq work[t].ids
    /\ \A r \in work[t].alone : record[r].synced =>
         IF r \in DOMAIN work[t].out THEN work[t].out[r] = Wish(r)
         ELSE Wish(r) = NoRow /\ rows[r] = NoRow

LineInv == Types /\ AloneInv /\ ReadInv /\ WrittenInv /\ SyncedInLine

-----------------------------------------------------------------------------
(***************************************************************************)
(* The second invariant, for processes that serve one request at a time: a *)
(* process whose map is not of the rows in the table has been told, or     *)
(* will be.                                                                *)
(***************************************************************************)

OneThreadEach == \A t, u \in Threads : ProcessOf[t] = ProcessOf[u] => t = u

\* A commit that was not signalled, or never will be.
Unsignalled == lost \/ \E t \in Threads : work[t].step = "signal"

CacheInv ==
  \A p \in Procs \ outdated :
    cache[p] # NoMap => cache[p].routes = RoutesIn(rows) \/ Unsignalled

RequestInv ==
  \A t \in Threads : work[t].step = "request" =>
    /\ work[t].known = RoutesIn(rows) \/ ProcessOf[t] \in outdated \/ Unsignalled
    /\ work[t].quiet /\ cache[ProcessOf[t]] # NoMap =>
         cache[ProcessOf[t]].routes = work[t].known

\* Who writes the table has cleared its map.
ClearedInv ==
  \A t \in Threads : work[t].step \in {"written", "signal"} => cache[ProcessOf[t]] = NoMap

MapInv == DOMAIN cache = Procs /\ CacheInv /\ RequestInv /\ ClearedInv
IInv == LineInv /\ MapInv

-----------------------------------------------------------------------------
\* Lemmas about types and sets

\* What a thread has at hand in each step of a sync.
LEMMA SyncTypes ==
  ASSUME Types, NEW t \in Threads
  PROVE  /\ Syncs(t) <=> work[t] \in Hooks \cup Reads \cup Writes
         /\ Syncs(t) => work[t].ids \in SUBSET Records /\ work[t].alone \in SUBSET Records
         /\ work[t].step = "read" => work[t] \in Reads
         /\ work[t].step = "written" => work[t] \in Writes
         /\ work[t].step = "request" => work[t] \in RequestWorks
BY DEF Types, Works, Syncs, Hooks, Reads, Writes, Signals, RequestWorks, Idle

\* The records that some thread syncs.
LEMMA UnderSyncIs ==
  \A r : r \in UnderSync <=> \E t \in Threads : Syncs(t) /\ r \in work[t].ids
BY DEF UnderSync, Busy, Syncs

\* Records are taken from those a sync is alone with; it goes on as before.
LEMMA LessAlone ==
  ASSUME NEW w \in Hooks \cup Reads \cup Writes, NEW rs \in SUBSET Records,
         NEW v, v = [w EXCEPT !.alone = @ \ rs]
  PROVE  /\ v \in Works
         /\ v.step = w.step /\ v.ids = w.ids /\ v.alone = w.alone \ rs
         /\ w.step = "read" => v.wanted = w.wanted /\ v.known = w.known
         /\ w.step = "written" => v.out = w.out
<1>1. w.alone \ rs \in SUBSET Records
  BY DEF Hooks, Reads, Writes
<1>2. CASE w \in Hooks
  BY <1>1, <1>2 DEF Hooks, Works
<1>3. CASE w \in Reads
  BY <1>1, <1>3 DEF Reads, Works
<1>4. CASE w \in Writes
  BY <1>1, <1>4 DEF Writes, Works
<1> QED
  BY <1>2, <1>3, <1>4

\* Commits are noted in open syncs.
LEMMA MissedKeeps ==
  ASSUME Types, NEW js \in SUBSET Records, NEW t \in Threads
  PROVE  LET v == Missed(js)[t]
             w == work[t] IN
         /\ v \in Works /\ v.step = w.step
         /\ w.step # "read" => v = w
         /\ w.step = "read" => /\ v \in Reads
                               /\ v.ids = w.ids /\ v.alone = w.alone
                               /\ v.wanted = w.wanted /\ v.known = w.known
<1>1. work[t] \in Works
  BY DEF Types
<1>2. CASE work[t].step = "read"
  <2>1. work[t] \in Reads
    BY <1>2, SyncTypes
  <2>2. Missed(js)[t] = [work[t] EXCEPT !.missed = @ \cup js]
    BY <1>2 DEF Missed
  <2>3. Missed(js)[t] \in Reads
    BY <2>1, <2>2 DEF Reads
  <2> QED
    BY <1>2, <2>1, <2>2, <2>3 DEF Reads, Works
<1>3. CASE work[t].step # "read"
  BY <1>1, <1>3 DEF Missed
<1> QED
  BY <1>2, <1>3

\* At the start all records are in line, and nobody works.
LEMMA InitIInv == Init => IInv
<1> SUFFICES ASSUME Init PROVE IInv
  OBVIOUS
<1>1. PICK live \in SUBSET Records, route \in [Records -> Routes] :
        record = [r \in Records |->
                   [life |-> IF r \in live THEN "live" ELSE "none", active |-> TRUE,
                    route |-> route[r], synced |-> r \in live]]
  BY DEF Init
<1>2. record \in [Records -> RecordStates]
  BY <1>1 DEF RecordStates
<1>3. serverRun = 0 /\ rows = [r \in Records |-> IF Live(r) THEN Registered(r) ELSE NoRow]
  BY DEF Init
<1>4. rows \in Tables
  <2>1. \A r \in Records : Registered(r) \in Row
    BY <1>2, <1>3 DEF RecordStates, Registered, Row
  <2> QED
    BY <1>3, <2>1 DEF Tables
<1>5. /\ work = [t \in Threads |-> Idle] /\ cache = [p \in Procs |-> NoMap]
      /\ outdated = {} /\ lost = FALSE
  BY DEF Init
<1>6. \A t \in Threads : work[t].step = "idle"
  BY <1>5 DEF Idle
<1>7. Types
  BY <1>2, <1>3, <1>4, <1>5 DEF Types, Works
<1>8. AloneInv /\ ReadInv /\ WrittenInv
  BY <1>6 DEF AloneInv, ReadInv, WrittenInv, Syncs
<1>9. SyncedInLine
  <2>1. \A r \in Records : Live(r) => Registered(r) # NoRow
                                     /\ Registered(r).route = record[r].route
    BY <1>2, <1>3, RegistryAssumption DEF RecordStates, Registered
  <2>2. \A r \in Records : record[r].synced <=> Live(r)
    BY <1>1 DEF Live
  <2>3. \A r \in Records : record[r].active
    BY <1>1
  <2> QED
    BY <1>3, <2>1, <2>2, <2>3 DEF SyncedInLine
<1>10. MapInv
  BY <1>5, <1>6 DEF MapInv, CacheInv, RequestInv, ClearedInv
<1> QED
  BY <1>7, <1>8, <1>9, <1>10 DEF IInv, LineInv

-----------------------------------------------------------------------------
\* The registry is in line.

\* A record that is created, edited or archived loses its flag.
LEMMA ChangeStep ==
  ASSUME LineInv, NEW r \in Records, NEW new \in RecordStates, Change(r, new),
         new.life = "live", ~new.synced
  PROVE  LineInv'
<1> USE DEF LineInv
<1>1. /\ record' = [record EXCEPT ![r] = new]
      /\ rows' = rows /\ work' = work /\ serverRun' = serverRun /\ troubled' = troubled
      /\ outdated' = outdated /\ lost' = lost
  BY DEF Change
<1>2. /\ record'[r] = new
      /\ \A s \in Records : s # r => record'[s] = record[s]
  BY <1>1 DEF Types
<1>3. Types'
  BY <1>1 DEF Types
<1>4. \A s \in Records : s # r => Wish(s)' = Wish(s)
  BY <1>1, <1>2 DEF Wish, Registered
<1>5. \A t \in Threads : Syncs(t) => work[t].alone \subseteq Records
  BY SyncTypes
<1>6. AloneInv'
  BY <1>1, <1>2, <1>5 DEF AloneInv, Syncs, Live
<1>7. ReadInv'
  BY <1>1, <1>2, <1>4, <1>5 DEF ReadInv, Syncs
<1>8. WrittenInv'
  BY <1>1, <1>2, <1>4, <1>5 DEF WrittenInv, Syncs
<1>9. SyncedInLine'
  BY <1>1, <1>2 DEF SyncedInLine, Live, UnderSync, Busy
<1> QED
  BY <1>3, <1>6, <1>7, <1>8, <1>9

\* A record that is created, edited or archived is out of line until it is synced.
LEMMA RecordStep ==
  ASSUME LineInv, NEW r \in Records,
         \/ \E route \in Routes : Create(r, route) \/ EditRoute(r, route)
         \/ Archive(r)
  PROVE  LineInv'
<1>1. record[r] \in RecordStates
  BY DEF LineInv, Types
<1>2. ASSUME NEW route \in Routes, Create(r, route) PROVE LineInv'
  <2>1. [life |-> "live", active |-> TRUE, route |-> route, synced |-> FALSE] \in RecordStates
    BY DEF RecordStates
  <2> QED
    BY <1>2, <2>1, ChangeStep DEF Create
<1>3. ASSUME NEW route \in Routes, EditRoute(r, route) PROVE LineInv'
  <2> DEFINE new == [record[r] EXCEPT !.route = route, !.synced = FALSE]
  <2>1. new \in RecordStates /\ new.life = record[r].life /\ ~new.synced
    BY <1>1 DEF RecordStates
  <2>2. Change(r, new) /\ record[r].life = "live"
    BY <1>3 DEF EditRoute, Live
  <2> HIDE DEF new
  <2> QED
    BY <2>1, <2>2, ChangeStep
<1>4. CASE Archive(r)
  <2> DEFINE new == [record[r] EXCEPT !.active = ~@, !.synced = FALSE]
  <2>1. new \in RecordStates /\ new.life = record[r].life /\ ~new.synced
    BY <1>1 DEF RecordStates
  <2>2. Change(r, new) /\ record[r].life = "live"
    BY <1>4 DEF Archive, Live
  <2> HIDE DEF new
  <2> QED
    BY <2>1, <2>2, ChangeStep
<1> QED
  BY <1>2, <1>3, <1>4

\* A sync that begins is alone with the records that no other one has, and takes from the
\* others those it has.
LEMMA SyncStep ==
  ASSUME LineInv, NEW t \in Threads, NEW rs \in SUBSET Records, Sync(t, rs)
  PROVE  LineInv'
<1> USE DEF LineInv
<1>1. /\ rows' = rows /\ serverRun' = serverRun /\ troubled' = troubled
      /\ outdated' = outdated /\ lost' = lost
      /\ work[t] = Idle /\ \A r \in rs : Live(r)
      /\ record' = [r \in Records |-> IF r \in rs THEN [record[r] EXCEPT !.synced = TRUE]
                                                  ELSE record[r]]
  BY DEF Sync
<1>2. work' = [u \in Threads |->
        CASE u = t -> [step |-> "hook", ids |-> rs, alone |-> rs \ UnderSync]
          [] u \in Busy({"hook", "read", "written"}) -> [work[u] EXCEPT !.alone = @ \ rs]
          [] OTHER -> work[u]]
  BY DEF Sync
<1>3. work'[t] = [step |-> "hook", ids |-> rs, alone |-> rs \ UnderSync] /\ work'[t] \in Works
  <2>1. rs \ UnderSync \in SUBSET Records
    OBVIOUS
  <2>2. work'[t] = [step |-> "hook", ids |-> rs, alone |-> rs \ UnderSync]
    BY <1>1, <1>2 DEF Busy, Idle
  <2>3. work'[t] \in Hooks
    BY <2>1, <2>2 DEF Hooks
  <2> QED
    BY <2>2, <2>3 DEF Works
<1>4. ~Syncs(t) /\ Syncs(t)'
  BY <1>1, <1>3 DEF Syncs, Idle
<1>5. \A u \in Threads : u # t =>
        /\ ~Syncs(u) => work'[u] = work[u]
        /\ Syncs(u) => work'[u] = [work[u] EXCEPT !.alone = @ \ rs]
  BY <1>2 DEF Busy, Syncs
<1>6. \A u \in Threads : u # t =>
        /\ work'[u] \in Works /\ work'[u].step = work[u].step
        /\ Syncs(u) =>
             /\ work'[u].ids = work[u].ids /\ work'[u].alone = work[u].alone \ rs
             /\ work[u].step = "read" => /\ work'[u].wanted = work[u].wanted
                                         /\ work'[u].known = work[u].known
             /\ work[u].step = "written" => work'[u].out = work[u].out
  <2> SUFFICES ASSUME NEW u \in Threads, u # t
               PROVE  /\ work'[u] \in Works /\ work'[u].step = work[u].step
                      /\ Syncs(u) =>
                           /\ work'[u].ids = work[u].ids
                           /\ work'[u].alone = work[u].alone \ rs
                           /\ work[u].step = "read" => /\ work'[u].wanted = work[u].wanted
                                                       /\ work'[u].known = work[u].known
                           /\ work[u].step = "written" => work'[u].out = work[u].out
    OBVIOUS
  <2>1. CASE Syncs(u)
    <3>1. work[u] \in Hooks \cup Reads \cup Writes
      BY <2>1, SyncTypes
    <3>2. work'[u] = [work[u] EXCEPT !.alone = @ \ rs]
      BY <1>5, <2>1
    <3> QED
      BY <3>1, <3>2, LessAlone
  <2>2. CASE ~Syncs(u)
    BY <1>5, <2>2 DEF Types
  <2> QED
    BY <2>1, <2>2
<1>7. \A u \in Threads : u # t => (Syncs(u)' <=> Syncs(u))
  BY <1>6 DEF Syncs
<1>8. Types'
  <2>1. \A r \in Records : [record[r] EXCEPT !.synced = TRUE] \in RecordStates
    BY DEF Types, RecordStates
  <2>2. record' \in [Records -> RecordStates]
    BY <1>1, <2>1 DEF Types
  <2>3. work' \in [Threads -> Works]
    BY <1>2, <1>3, <1>6
  <2> QED
    BY <1>1, <2>2, <2>3 DEF Types
<1>9. /\ \A r \in Records \ rs : record'[r] = record[r]
      /\ \A r \in Records : Live(r)' <=> Live(r)
  BY <1>1 DEF Types, Live, RecordStates
<1>10. \A r \in Records \ rs : Wish(r)' = Wish(r)
  BY <1>1, <1>9 DEF Wish, Registered
<1>11. \A u \in Threads : Syncs(u) => work[u].alone \subseteq Records
  BY SyncTypes
<1>12. AloneInv'
  <2>1. work'[t].ids = rs /\ work'[t].alone = rs \ UnderSync
    BY <1>3
  <2>2. \A r \in rs \ UnderSync : \A u \in Threads : Syncs(u) => r \notin work[u].ids
    BY UnderSyncIs
  <2> SUFFICES ASSUME NEW u \in Threads, Syncs(u)'
               PROVE  /\ work'[u].alone \subseteq work'[u].ids
                      /\ \A r \in work'[u].alone :
                           /\ Live(r)'
                           /\ \A v \in Threads : Syncs(v)' /\ r \in work'[v].ids => v = u
    BY DEF AloneInv
  <2>3. CASE u = t
    BY <1>1, <1>6, <1>7, <1>9, <2>1, <2>2, <2>3
  <2>4. CASE u # t
    <3>1. Syncs(u) /\ work'[u].alone = work[u].alone \ rs /\ work'[u].ids = work[u].ids
      BY <1>6, <1>7, <2>4
    <3> QED
      BY <1>6, <1>7, <1>9, <1>11, <2>1, <2>4, <3>1 DEF AloneInv
  <2> QED
    BY <2>3, <2>4
<1>13. ReadInv'
  BY <1>1, <1>3, <1>6, <1>9, <1>10, <1>11 DEF ReadInv, Syncs
<1>14. WrittenInv'
  BY <1>1, <1>3, <1>6, <1>9, <1>10, <1>11 DEF WrittenInv, Syncs
<1>15. SyncedInLine'
  <2>1. \A r : r \in UnderSync' <=> r \in UnderSync \/ r \in rs
    <3>1. \A r : r \in UnderSync' <=> \E u \in Threads : Syncs(u)' /\ r \in work'[u].ids
      BY DEF UnderSync, Busy, Syncs
    <3> QED
      BY <1>3, <1>4, <1>6, <1>7, <3>1, UnderSyncIs
  <2> QED
    BY <1>1, <1>9, <2>1 DEF SyncedInLine
<1> QED
  BY <1>8, <1>12, <1>13, <1>14, <1>15

\* A sync reads what the records ask for and which rows there are.
LEMMA ReadStep ==
  ASSUME LineInv, NEW t \in Threads, ReadRecords(t)
  PROVE  LineInv'
<1> USE DEF LineInv
<1> DEFINE ids == work[t].ids
           wanted == [r \in {s \in ids : Live(s)} |->
                        IF record[r].active THEN Registered(r) ELSE NoRow]
           known == {r \in Records : rows[r] # NoRow}
           w == [step |-> "read", ids |-> ids, alone |-> work[t].alone,
                 wanted |-> wanted, known |-> known, missed |-> {}]
<1>1. /\ UNCHANGED <<record, rows, outdated, serverRun, troubled, lost>>
      /\ work' = [work EXCEPT ![t] = w] /\ work[t].step = "hook"
  BY DEF ReadRecords
<1>2. Syncs(t) /\ ids \in SUBSET Records /\ work[t].alone \in SUBSET Records
  BY <1>1, SyncTypes DEF Syncs
<1>3. w \in Reads
  <2>1. \A r \in Records : Registered(r) \in Row
    BY DEF Types, RecordStates, Registered, Row
  <2>2. {s \in ids : Live(s)} \in SUBSET Records
    BY <1>2
  <2>3. wanted \in [{s \in ids : Live(s)} -> Row \cup {NoRow}]
    BY <2>1, <2>2
  <2>4. wanted \in Wishes
    BY <2>2, <2>3 DEF Wishes
  <2>5. known \in SUBSET Records /\ {} \in SUBSET Records
    OBVIOUS
  <2> HIDE DEF wanted, known
  <2> QED
    BY <1>2, <2>4, <2>5 DEF Reads
<1>4. /\ work'[t] = w /\ \A u \in Threads : u # t => work'[u] = work[u]
      /\ w.step = "read" /\ w.ids = ids /\ w.alone = work[t].alone
      /\ w.wanted = wanted /\ w.known = known
  BY <1>1 DEF Types
<1>5. Types'
  BY <1>1, <1>3 DEF Types, Works
<1>6. \A u \in Threads : /\ Syncs(u)' <=> Syncs(u)
                         /\ Syncs(u) => /\ work'[u].ids = work[u].ids
                                        /\ work'[u].alone = work[u].alone
  BY <1>2, <1>4 DEF Syncs
<1>7. AloneInv'
  BY <1>1, <1>6 DEF AloneInv, Live
<1>8. \A r : Wish(r)' = Wish(r)
  BY <1>1 DEF Wish, Registered
<1>9. /\ DOMAIN wanted \subseteq ids
      /\ \A r \in work[t].alone : /\ r \in DOMAIN wanted
                                  /\ r \in known <=> rows[r] # NoRow
                                  /\ wanted[r] = Wish(r)
  BY <1>2 DEF AloneInv, Wish
<1> HIDE DEF wanted, known, w
<1>10. ReadInv'
  BY <1>1, <1>4, <1>8, <1>9 DEF ReadInv
<1>11. WrittenInv'
  BY <1>1, <1>4, <1>8 DEF WrittenInv
<1>12. SyncedInLine'
  <2>1. UnderSync' = UnderSync
    BY <1>6, UnderSyncIs DEF UnderSync, Busy, Syncs
  <2> QED
    BY <1>1, <2>1 DEF SyncedInLine, Live
<1> QED
  BY <1>5, <1>7, <1>10, <1>11, <1>12

\* It writes them, if nothing is in the way.
LEMMA WriteStep ==
  ASSUME LineInv, NEW t \in Threads, WriteRows(t)
  PROVE  LineInv'
<1> USE DEF LineInv
<1> DEFINE w == work[t]
           out == Restrict(w.wanted, Written(w))
           v == [step |-> "written", ids |-> w.ids, alone |-> w.alone, out |-> out]
<1>1. /\ UNCHANGED <<record, rows, outdated, serverRun, troubled, lost>>
      /\ work' = [work EXCEPT ![t] = v] /\ w.step = "read"
  BY DEF WriteRows
<1>2. Syncs(t) /\ w.ids \in SUBSET Records /\ w.alone \in SUBSET Records /\ w \in Reads
  BY <1>1, SyncTypes DEF Syncs
<1>3. PICK S \in SUBSET Records : w.wanted \in [S -> Row \cup {NoRow}]
  BY <1>2 DEF Reads, Wishes
<1>4. /\ Written(w) = {r \in S : w.wanted[r] # NoRow \/ r \in w.known}
      /\ DOMAIN out = Written(w) /\ \A r \in Written(w) : out[r] = w.wanted[r]
      /\ out \in Wishes
  <2>1. Written(w) = {r \in S : w.wanted[r] # NoRow \/ r \in w.known}
    BY <1>3 DEF Written, Created, Updated, Dropped
  <2>2. out = [r \in Written(w) |-> w.wanted[r]]
    BY DEF Restrict
  <2>3. out \in [Written(w) -> Row \cup {NoRow}]
    BY <1>3, <2>1, <2>2
  <2>4. Written(w) \in SUBSET Records
    BY <2>1
  <2> QED
    BY <2>1, <2>2, <2>3, <2>4 DEF Wishes
<1> HIDE DEF out
<1>5. v \in Writes
  BY <1>2, <1>4 DEF Writes
<1>6. /\ work'[t] = v /\ \A u \in Threads : u # t => work'[u] = work[u]
      /\ v.step = "written" /\ v.ids = w.ids /\ v.alone = w.alone /\ v.out = out
  BY <1>1 DEF Types
<1>7. Types'
  BY <1>1, <1>5 DEF Types, Works
<1>8. \A u \in Threads : /\ Syncs(u)' <=> Syncs(u)
                         /\ Syncs(u) => /\ work'[u].ids = work[u].ids
                                        /\ work'[u].alone = work[u].alone
  BY <1>2, <1>6 DEF Syncs
<1>9. AloneInv'
  BY <1>1, <1>8 DEF AloneInv, Live
<1>10. \A r : Wish(r)' = Wish(r)
  BY <1>1 DEF Wish, Registered
<1>11. DOMAIN out \subseteq w.ids
  BY <1>1, <1>3, <1>4 DEF ReadInv
<1>12. \A r \in w.alone : record[r].synced =>
         IF r \in DOMAIN out THEN out[r] = Wish(r) ELSE Wish(r) = NoRow /\ rows[r] = NoRow
  BY <1>1, <1>3, <1>4 DEF ReadInv
<1>13. ReadInv'
  BY <1>1, <1>6, <1>10 DEF ReadInv
<1>14. WrittenInv'
  BY <1>1, <1>6, <1>10, <1>11, <1>12 DEF WrittenInv
<1>15. SyncedInLine'
  <2>1. UnderSync' = UnderSync
    BY <1>8, UnderSyncIs DEF UnderSync, Busy, Syncs
  <2> QED
    BY <1>1, <2>1 DEF SyncedInLine, Live
<1> QED
  BY <1>7, <1>9, <1>13, <1>14, <1>15

\* Threads stop or go on with something that is no sync; what they had to sync is marked.
LEMMA LeaveStep ==
  ASSUME LineInv, Types',
         UNCHANGED <<record, rows>>,
         \A u \in Threads :
           \/ ~Syncs(u)' /\ (Syncs(u) => work[u].ids \subseteq troubled')
           \/ work'[u] = work[u],
         serverRun' = serverRun \/ \A u \in Threads : ~Syncs(u)',
         troubled \subseteq troubled'
  PROVE  LineInv'
<1> USE DEF LineInv
<1>1. \A u \in Threads : Syncs(u)' => work'[u] = work[u] /\ Syncs(u)
  BY DEF Syncs
<1>2. AloneInv'
  BY <1>1 DEF AloneInv, Live
<1>3. \A u \in Threads : Syncs(u)' => \A r : Wish(r)' = Wish(r)
  BY DEF Wish, Registered
<1>4. \A u \in Threads : work'[u].step \in {"read", "written"} => Syncs(u)'
  BY DEF Syncs
<1>5. ReadInv'
  BY <1>1, <1>3, <1>4 DEF ReadInv
<1>6. WrittenInv'
  BY <1>1, <1>3, <1>4 DEF WrittenInv
<1>7. SyncedInLine'
  <2>1. \A r : r \in UnderSync => r \in UnderSync' \/ r \in troubled'
    <3> SUFFICES ASSUME NEW r, NEW u \in Threads, Syncs(u), r \in work[u].ids
                 PROVE  r \in UnderSync' \/ r \in troubled'
      BY UnderSyncIs
    <3>1. CASE work'[u] = work[u]
      BY <3>1 DEF UnderSync, Busy, Syncs
    <3> QED
      BY <3>1
  <2> QED
    BY <2>1 DEF SyncedInLine, Live
<1> QED
  BY <1>2, <1>5, <1>6, <1>7

\* A sync that fails leaves its records in trouble; signals and requests change none.
LEMMA OffSyncStep ==
  ASSUME LineInv, NEW t \in Threads,
         FailSync(t) \/ Signal(t) \/ BeginRequest(t) \/ Serve(t)
  PROVE  LineInv'
<1> USE DEF LineInv
<1>1. PICK w \in Works :
        /\ work' = [work EXCEPT ![t] = w] /\ w.step \in {"idle", "request"}
        /\ Syncs(t) => work[t].ids \subseteq troubled'
  <2>1. Idle \in Works /\ Idle.step = "idle"
    BY DEF Works, Idle
  <2>2. CASE BeginRequest(t)
    <3> DEFINE w == [step |-> "request", known |-> RoutesIn(rows), quiet |-> Quiet]
    <3>1. RoutesIn(rows) \in SUBSET Routes
      BY DEF RoutesIn, Types, Tables, Row
    <3>2. Quiet \in BOOLEAN
      BY DEF Quiet, Types
    <3>3. w \in RequestWorks /\ w.step = "request"
      BY <3>1, <3>2 DEF RequestWorks
    <3>4. work' = [work EXCEPT ![t] = w] /\ ~Syncs(t)
      BY <2>2 DEF BeginRequest, Syncs, Idle
    <3> HIDE DEF w
    <3> QED
      BY <3>3, <3>4 DEF Works
  <2>3. CASE FailSync(t) \/ Signal(t) \/ Serve(t)
    BY <2>1, <2>3 DEF FailSync, Signal, Serve, Syncs
  <2> QED
    BY <2>2, <2>3
<1>2. /\ record' = record /\ rows' = rows /\ serverRun' = serverRun /\ lost' = lost
      /\ outdated' \subseteq Procs /\ troubled \subseteq troubled'
  BY DEF FailSync, Signal, BeginRequest, Serve, Types
<1>3. Types'
  BY <1>1, <1>2 DEF Types
<1>4. \A u \in Threads : \/ ~Syncs(u)' /\ (Syncs(u) => work[u].ids \subseteq troubled')
                         \/ work'[u] = work[u]
  BY <1>1 DEF Types, Syncs
<1> QED
  BY <1>2, <1>3, <1>4, LeaveStep

\* What a process was syncing when it dies is in trouble.
LEMMA EndStep ==
  ASSUME LineInv, (\E p \in Procs : Die(p)) \/ Restart
  PROVE  LineInv'
<1> USE DEF LineInv
<1>1. Idle \in Works /\ Idle.step = "idle"
  BY DEF Works, Idle
<1>2. ASSUME NEW p \in Procs, Die(p) PROVE LineInv'
  <2> DEFINE mine == {t \in Threads : ProcessOf[t] = p}
  <2>1. /\ record' = record /\ rows' = rows /\ serverRun' = serverRun
        /\ outdated' = outdated \ {p}
        /\ work' = [t \in Threads |-> IF t \in mine THEN Idle ELSE work[t]]
        /\ lost' = (lost \/ mine \cap Busy({"signal"}) # {})
        /\ troubled' = troubled \cup
             UNION {work[t].ids : t \in mine \cap Busy({"hook", "read", "written"})}
    BY <1>2 DEF Die
  <2>2. Types'
    <3>1. work' \in [Threads -> Works]
      BY <1>1, <2>1 DEF Types
    <3>2. lost' \in BOOLEAN
      BY <2>1
    <3>3. outdated' \subseteq Procs
      BY <2>1 DEF Types
    <3>4. record' = record /\ rows' = rows /\ serverRun' = serverRun
      BY <2>1
    <3> QED
      BY <3>1, <3>2, <3>3, <3>4 DEF Types
  <2>3. \A u \in Threads : \/ ~Syncs(u)' /\ (Syncs(u) => work[u].ids \subseteq troubled')
                           \/ work'[u] = work[u]
    BY <1>1, <2>1 DEF Busy, Syncs
  <2> QED
    BY <2>1, <2>2, <2>3, LeaveStep
<1>3. CASE Restart
  <2>1. /\ record' = record /\ rows' = rows /\ serverRun' = serverRun + 1
        /\ outdated' = {} /\ lost' = FALSE
        /\ work' = [t \in Threads |-> Idle] /\ troubled' = troubled \cup UnderSync
    BY <1>3 DEF Restart
  <2>2. Types'
    <3>1. work' \in [Threads -> Works]
      BY <1>1, <2>1
    <3>2. serverRun' \in Nat
      BY <2>1 DEF Types
    <3> QED
      BY <2>1, <3>1, <3>2 DEF Types
  <2>3. \A u \in Threads : ~Syncs(u)' /\ (Syncs(u) => work[u].ids \subseteq troubled')
    BY <1>1, <2>1, UnderSyncIs DEF Syncs
  <2> QED
    BY <2>1, <2>2, <2>3, LeaveStep
<1> QED
  BY <1>2, <1>3

\* A commit brings the records in line that the sync was alone with.
LEMMA CommitStep ==
  ASSUME LineInv, NEW t \in Threads, CommitSync(t)
  PROVE  LineInv'
<1> USE DEF LineInv
<1> DEFINE w == work[t]
           js == DOMAIN w.out
<1>1. /\ UNCHANGED <<record, outdated, serverRun, lost>>
      /\ rows' = [r \in Records |-> IF r \in js THEN w.out[r] ELSE rows[r]]
      /\ work' = [Missed(js) EXCEPT ![t] = [step |-> "signal"]]
      /\ troubled' = (troubled \ w.alone) \cup (w.ids \ w.alone)
      /\ w.step = "written"
  BY DEF CommitSync
<1>2. /\ Syncs(t) /\ w \in Writes
      /\ w.ids \in SUBSET Records /\ w.alone \in SUBSET Records
  BY <1>1, SyncTypes DEF Syncs
<1>3. js \in SUBSET Records /\ \A r \in js : w.out[r] \in Row \cup {NoRow}
  BY <1>2 DEF Writes, Wishes
<1>4. js \subseteq w.ids
  BY <1>1 DEF WrittenInv
<1>5. DOMAIN Missed(js) = Threads
  BY DEF Missed
<1> HIDE DEF js
<1>6. /\ work'[t] = [step |-> "signal"]
      /\ \A u \in Threads : u # t => work'[u] = Missed(js)[u]
  BY <1>1, <1>5
<1>7. \A u \in Threads : u # t =>
        /\ work'[u] \in Works /\ work'[u].step = work[u].step
        /\ work[u].step # "read" => work'[u] = work[u]
        /\ work[u].step = "read" => /\ work'[u].ids = work[u].ids
                                    /\ work'[u].alone = work[u].alone
                                    /\ work'[u].wanted = work[u].wanted
                                    /\ work'[u].known = work[u].known
  BY <1>3, <1>6, MissedKeeps
<1>8. Types'
  <2>1. rows' \in Tables
    BY <1>1, <1>3 DEF Types, Tables
  <2>2. work' \in [Threads -> Works]
    <3>1. [step |-> "signal"] \in Works
      BY DEF Works, Signals
    <3> QED
      BY <1>1, <1>5, <1>6, <1>7, <3>1
  <2> QED
    BY <1>1, <2>1, <2>2 DEF Types
<1>9. /\ ~Syncs(t)'
      /\ \A u \in Threads : u # t => (Syncs(u)' <=> Syncs(u))
      /\ \A u \in Threads : Syncs(u)' => /\ work'[u].ids = work[u].ids
                                         /\ work'[u].alone = work[u].alone
  BY <1>6, <1>7 DEF Syncs
<1>10. AloneInv'
  BY <1>1, <1>9 DEF AloneInv, Live
<1>11. \A r : Wish(r)' = Wish(r)
  BY <1>1 DEF Wish, Registered
<1>12. \A u \in Threads : Syncs(u)' => \A r \in work[u].alone : rows'[r] = rows[r]
  <2> SUFFICES ASSUME NEW u \in Threads, Syncs(u)', NEW r \in work[u].alone
               PROVE  rows'[r] = rows[r]
    OBVIOUS
  <2>1. u # t /\ Syncs(u)
    BY <1>9
  <2>2. r \in Records /\ r \notin w.ids
    BY <1>2, <2>1, SyncTypes DEF AloneInv
  <2> QED
    BY <1>1, <1>4, <2>2
<1>13. \A u \in Threads : work'[u].step \in {"read", "written"} => Syncs(u)' /\ u # t
  BY <1>9 DEF Syncs
<1>14. ReadInv'
  <2> SUFFICES ASSUME NEW u \in Threads, work'[u].step = "read"
               PROVE  /\ DOMAIN work'[u].wanted \subseteq work'[u].ids
                      /\ \A r \in work'[u].alone :
                           /\ r \in DOMAIN work'[u].wanted
                           /\ r \in work'[u].known <=> rows'[r] # NoRow
                           /\ record'[r].synced => work'[u].wanted[r] = Wish(r)'
    BY DEF ReadInv
  <2>1. u # t /\ work[u].step = "read" /\ Syncs(u)'
    BY <1>7, <1>13
  <2>2. /\ work'[u].ids = work[u].ids /\ work'[u].alone = work[u].alone
        /\ work'[u].wanted = work[u].wanted /\ work'[u].known = work[u].known
    BY <1>7, <2>1
  <2>3. \A r \in work[u].alone : rows'[r] = rows[r]
    BY <1>12, <2>1
  <2>4. DOMAIN work[u].wanted \subseteq work[u].ids
    BY <2>1 DEF ReadInv
  <2>5. \A r \in work[u].alone :
          /\ r \in DOMAIN work[u].wanted
          /\ r \in work[u].known <=> rows[r] # NoRow
          /\ record[r].synced => work[u].wanted[r] = Wish(r)
    BY <2>1 DEF ReadInv
  <2> QED
    BY <1>1, <1>11, <2>2, <2>3, <2>4, <2>5
<1>15. WrittenInv'
  <2> SUFFICES ASSUME NEW u \in Threads, work'[u].step = "written"
               PROVE  /\ DOMAIN work'[u].out \subseteq work'[u].ids
                      /\ \A r \in work'[u].alone : record'[r].synced =>
                           IF r \in DOMAIN work'[u].out THEN work'[u].out[r] = Wish(r)'
                           ELSE Wish(r)' = NoRow /\ rows'[r] = NoRow
    BY DEF WrittenInv
  <2>1. u # t /\ work[u].step = "written" /\ Syncs(u)' /\ work'[u] = work[u]
    BY <1>7, <1>13
  <2> QED
    BY <1>1, <1>11, <1>12, <2>1 DEF WrittenInv
<1>16. SyncedInLine'
  <2>1. \A r : r \in UnderSync => r \in UnderSync' \/ r \in w.ids
    <3>1. \A r : r \in UnderSync' <=> \E u \in Threads : Syncs(u)' /\ r \in work'[u].ids
      BY DEF UnderSync, Busy, Syncs
    <3> QED
      BY <1>9, <3>1, UnderSyncIs
  <2> SUFFICES ASSUME NEW r \in Records, r \notin UnderSync', r \notin troubled'
               PROVE  IF Live(r) /\ record[r].synced /\ record[r].active
                      THEN rows'[r] # NoRow /\ rows'[r].route = record[r].route
                      ELSE rows'[r] # NoRow => Live(r) /\ ~record[r].synced
    BY <1>1 DEF SyncedInLine, Live
  <2>2. CASE r \in w.alone
    <3>1. Live(r)
      BY <1>2, <2>2 DEF AloneInv
    <3>2. record[r].synced => rows'[r] = Wish(r)
      BY <1>1, <2>2 DEF WrittenInv, js
    <3>3. Registered(r) # NoRow /\ Registered(r).route = record[r].route
      BY RegistryAssumption DEF Types, RecordStates, Registered
    <3> QED
      BY <3>1, <3>2, <3>3 DEF Wish
  <2>3. CASE r \notin w.alone
    <3>1. r \notin w.ids /\ r \notin troubled /\ r \notin UnderSync
      BY <1>1, <2>1, <2>3
    <3>2. rows'[r] = rows[r]
      BY <1>1, <1>4, <3>1
    <3> QED
      BY <3>1, <3>2 DEF SyncedInLine
  <2> QED
    BY <2>2, <2>3
<1> QED
  BY <1>8, <1>10, <1>14, <1>15, <1>16

\* A deletion takes its row from the table and the record from the syncs.
LEMMA UnlinkStep ==
  ASSUME LineInv, NEW t \in Threads, NEW r \in Records, Unlink(t, r)
  PROVE  LineInv'
<1> USE DEF LineInv
<1>1. /\ UNCHANGED <<outdated, serverRun, troubled, lost>>
      /\ record' = [record EXCEPT ![r].life = "deleted"]
      /\ rows' = [rows EXCEPT ![r] = NoRow]
      /\ work[t] = Idle /\ Live(r)
  BY DEF Unlink
<1>2. /\ record'[r].life = "deleted"
      /\ \A s \in Records : s # r => record'[s] = record[s] /\ rows'[s] = rows[s]
      /\ rows'[r] = NoRow
  BY <1>1 DEF Types, Tables, RecordStates
<1>3. DOMAIN work' = Threads /\ work'[t] = [step |-> "signal"]
  BY <1>1 DEF Unlink, Busy, Idle
<1>4. \A u \in Threads : u # t =>
        work'[u] = IF Syncs(u) THEN [Missed({r})[u] EXCEPT !.alone = @ \ {r}] ELSE work[u]
  <2> SUFFICES ASSUME NEW u \in Threads, u # t
               PROVE  work'[u] = IF Syncs(u) THEN [Missed({r})[u] EXCEPT !.alone = @ \ {r}]
                                 ELSE work[u]
    OBVIOUS
  <2>1. work'[u] = IF Syncs(u) THEN [Missed({r})[u] EXCEPT !.alone = @ \ {r}]
                   ELSE Missed({r})[u]
    BY DEF Unlink, Busy, Syncs
  <2>2. ~Syncs(u) => Missed({r})[u] = work[u]
    BY MissedKeeps DEF Syncs
  <2> QED
    BY <2>1, <2>2
<1>5. \A u \in Threads : u # t =>
        /\ work'[u] \in Works /\ work'[u].step = work[u].step
        /\ Syncs(u) =>
             /\ work'[u].ids = work[u].ids /\ work'[u].alone = work[u].alone \ {r}
             /\ work[u].step = "read" => /\ work'[u].wanted = work[u].wanted
                                         /\ work'[u].known = work[u].known
             /\ work[u].step = "written" => work'[u].out = work[u].out
  <2> SUFFICES ASSUME NEW u \in Threads, u # t
               PROVE  /\ work'[u] \in Works /\ work'[u].step = work[u].step
                      /\ Syncs(u) =>
                           /\ work'[u].ids = work[u].ids
                           /\ work'[u].alone = work[u].alone \ {r}
                           /\ work[u].step = "read" => /\ work'[u].wanted = work[u].wanted
                                                       /\ work'[u].known = work[u].known
                           /\ work[u].step = "written" => work'[u].out = work[u].out
    OBVIOUS
  <2>1. CASE Syncs(u)
    <3> DEFINE v == Missed({r})[u]
               gone == {r}
    <3>1. work[u] \in Hooks \cup Reads \cup Writes
      BY <2>1, SyncTypes
    <3>2. /\ v.step = work[u].step /\ v.ids = work[u].ids /\ v.alone = work[u].alone
          /\ work[u].step = "read" => v.wanted = work[u].wanted /\ v.known = work[u].known
          /\ work[u].step = "written" => v.out = work[u].out
          /\ v \in Hooks \cup Reads \cup Writes
      BY <3>1, MissedKeeps
    <3>3. work'[u] = [v EXCEPT !.alone = @ \ gone] /\ gone \in SUBSET Records
      BY <1>4, <2>1
    <3> HIDE DEF v, gone
    <3>4. /\ work'[u] \in Works /\ work'[u].step = v.step
          /\ work'[u].ids = v.ids /\ work'[u].alone = v.alone \ gone
          /\ v.step = "read" => work'[u].wanted = v.wanted /\ work'[u].known = v.known
          /\ v.step = "written" => work'[u].out = v.out
      <4>1. v \in Hooks \cup Reads \cup Writes
        BY <3>2
      <4> QED
        BY <3>3, <4>1, LessAlone
    <3> QED
      BY <3>2, <3>4 DEF gone
  <2>2. CASE ~Syncs(u)
    BY <1>4, <2>2 DEF Types
  <2> QED
    BY <2>1, <2>2
<1>6. Types'
  <2>1. record' \in [Records -> RecordStates]
    BY <1>1 DEF Types, RecordStates
  <2>2. rows' \in Tables
    BY <1>1 DEF Types, Tables
  <2>3. work' \in [Threads -> Works]
    <3>1. [step |-> "signal"] \in Works
      BY DEF Works, Signals
    <3>2. work' = [u \in Threads |-> work'[u]]
      BY DEF Unlink
    <3> QED
      BY <1>3, <1>5, <3>1, <3>2
  <2> QED
    BY <1>1, <2>1, <2>2, <2>3 DEF Types
<1>7. /\ ~Syncs(t) /\ ~Syncs(t)'
      /\ \A u \in Threads : u # t => (Syncs(u)' <=> Syncs(u))
  BY <1>1, <1>3, <1>5 DEF Syncs, Idle
<1>8. \A u \in Threads : Syncs(u)' =>
        /\ work'[u].ids = work[u].ids /\ work'[u].alone = work[u].alone \ {r}
        /\ work[u].alone \subseteq Records
  BY <1>5, <1>7, SyncTypes
<1>9. AloneInv'
  BY <1>2, <1>7, <1>8 DEF AloneInv, Live
<1>10. \A s \in Records : s # r => Wish(s)' = Wish(s)
  BY <1>1, <1>2 DEF Wish, Registered
<1>11. \A u \in Threads : work'[u].step \in {"read", "written"} => Syncs(u)' /\ u # t
  BY <1>7 DEF Syncs
<1>12. ReadInv'
  BY <1>2, <1>5, <1>7, <1>8, <1>10, <1>11 DEF ReadInv
<1>13. WrittenInv'
  BY <1>2, <1>5, <1>7, <1>8, <1>10, <1>11 DEF WrittenInv
<1>14. SyncedInLine'
  <2>1. UnderSync' = UnderSync
    <3>1. \A s : s \in UnderSync' <=> \E u \in Threads : Syncs(u)' /\ s \in work'[u].ids
      BY DEF UnderSync, Busy, Syncs
    <3> QED
      BY <1>7, <1>8, <3>1, UnderSyncIs
  <2> QED
    BY <1>1, <1>2, <2>1 DEF SyncedInLine, Live
<1> QED
  BY <1>6, <1>9, <1>12, <1>13, <1>14

-----------------------------------------------------------------------------
\* The maps of the processes.

\* What changes neither the table nor a map, and no thread that writes, signals or answers.
LEMMA AsideStep ==
  ASSUME MapInv, UNCHANGED <<rows, cache, outdated, lost>>,
         \A u \in Threads :
           /\ work'[u].step = "signal" <=> work[u].step = "signal"
           /\ work'[u].step = "written" <=> work[u].step = "written"
           /\ work'[u].step = "request" => work'[u] = work[u]
  PROVE  MapInv'
<1> USE DEF MapInv
<1>1. Unsignalled' <=> Unsignalled
  BY DEF Unsignalled
<1>2. RoutesIn(rows)' = RoutesIn(rows)
  BY DEF RoutesIn
<1> QED
  BY <1>1, <1>2 DEF CacheInv, RequestInv, ClearedInv

\* Changes of records, and syncs until they write.
LEMMA BeforeWriteStep ==
  ASSUME Types, MapInv,
         \/ \E r \in Records :
              (\E route \in Routes : Create(r, route) \/ EditRoute(r, route)) \/ Archive(r)
         \/ \E t \in Threads :
              (\E rs \in SUBSET Records : Sync(t, rs)) \/ ReadRecords(t) \/ FailSync(t)
  PROVE  MapInv'
<1>1. UNCHANGED <<rows, cache, outdated, lost>>
  BY DEF Sync, ReadRecords, FailSync, Create, EditRoute, Archive, Change
<1>2. CASE \E r \in Records :
             (\E route \in Routes : Create(r, route) \/ EditRoute(r, route)) \/ Archive(r)
  BY <1>1, <1>2, AsideStep DEF Create, EditRoute, Archive, Change
<1>3. ASSUME NEW t \in Threads, NEW rs \in SUBSET Records, Sync(t, rs) PROVE MapInv'
  <2>1. work[t].step = "idle" /\ work'[t].step = "hook"
    BY <1>3 DEF Sync, Busy, Idle
  <2>2. ASSUME NEW u \in Threads, u # t
        PROVE  work'[u].step = work[u].step /\ (work[u].step = "request" => work'[u] = work[u])
    <3>1. CASE Syncs(u)
      <4>1. work'[u] = [work[u] EXCEPT !.alone = @ \ rs]
        BY <1>3, <2>2, <3>1 DEF Sync, Busy, Syncs
      <4>2. work[u] \in Hooks \cup Reads \cup Writes
        BY <3>1, SyncTypes
      <4>3. work'[u].step = work[u].step
        BY <4>1, <4>2, LessAlone
      <4> QED
        BY <3>1, <4>3 DEF Syncs
    <3>2. CASE ~Syncs(u)
      BY <1>3, <2>2, <3>2 DEF Sync, Busy, Syncs
    <3> QED
      BY <3>1, <3>2
  <2>3. \A u \in Threads : /\ work'[u].step = "signal" <=> work[u].step = "signal"
                           /\ work'[u].step = "written" <=> work[u].step = "written"
                           /\ work'[u].step = "request" => work'[u] = work[u]
    BY <2>1, <2>2
  <2> QED
    BY <1>1, <2>3, AsideStep
<1>4. ASSUME NEW t \in Threads, ReadRecords(t) \/ FailSync(t) PROVE MapInv'
  <2>1. /\ work[t].step \in {"hook", "read"} /\ work'[t].step \in {"read", "idle"}
        /\ \A u \in Threads : u # t => work'[u] = work[u]
    BY <1>4 DEF ReadRecords, FailSync, Types, Idle
  <2>2. \A u \in Threads : /\ work'[u].step = "signal" <=> work[u].step = "signal"
                           /\ work'[u].step = "written" <=> work[u].step = "written"
                           /\ work'[u].step = "request" => work'[u] = work[u]
    BY <2>1
  <2> QED
    BY <1>1, <2>2, AsideStep
<1> QED
  BY <1>2, <1>3, <1>4

\* Who writes the table clears its map, and tells the others after the commit.
LEMMA WriteMapStep ==
  ASSUME OneThreadEach, Types, MapInv, NEW t \in Threads,
         \/ WriteRows(t) \/ CommitSync(t) \/ Signal(t)
         \/ \E r \in Records : Unlink(t, r)
  PROVE  MapInv'
<1> USE DEF MapInv
<1> DEFINE p == ProcessOf[t]
<1>1. p \in Procs /\ \A u \in Threads : u # t => ProcessOf[u] # p
  BY RegistryAssumption DEF OneThreadEach
<1>2. \A u \in Threads : ProcessOf[u] \in Procs
  BY RegistryAssumption
<1>3. CASE WriteRows(t)
  <2>1. /\ rows' = rows /\ outdated' = outdated /\ lost' = lost
        /\ cache' = [cache EXCEPT ![p] = NoMap]
        /\ work[t].step = "read" /\ work'[t].step = "written"
        /\ \A u \in Threads : u # t => work'[u] = work[u]
    BY <1>3 DEF WriteRows, Types
  <2>2. Unsignalled' <=> Unsignalled
    BY <2>1 DEF Unsignalled
  <2>3. RoutesIn(rows)' = RoutesIn(rows)
    BY <2>1 DEF RoutesIn
  <2> QED
    BY <1>1, <2>1, <2>2, <2>3 DEF CacheInv, RequestInv, ClearedInv
<1>4. CASE CommitSync(t)
  <2>1. /\ outdated' = outdated /\ lost' = lost /\ cache' = cache
        /\ work[t].step = "written" /\ work'[t].step = "signal"
        /\ \A u \in Threads : u # t => work'[u] = Missed(DOMAIN work[t].out)[u]
    BY <1>4 DEF CommitSync, Missed
  <2>2. DOMAIN work[t].out \in SUBSET Records
    BY <2>1, SyncTypes DEF Writes, Wishes
  <2>3. \A u \in Threads : u # t =>
          work'[u].step = work[u].step /\ (work[u].step # "read" => work'[u] = work[u])
    BY <2>1, <2>2, MissedKeeps
  <2>4. Unsignalled'
    BY <2>1 DEF Unsignalled
  <2> QED
    BY <1>1, <2>1, <2>3, <2>4 DEF CacheInv, RequestInv, ClearedInv
<1>5. CASE Signal(t)
  <2>1. /\ rows' = rows /\ cache' = cache /\ lost' = lost
        /\ outdated' = Procs \ {p}
        /\ work[t].step = "signal" /\ work'[t].step = "idle"
        /\ \A u \in Threads : u # t => work'[u] = work[u]
    BY <1>5 DEF Signal, Types, Idle
  <2> QED
    BY <1>1, <1>2, <2>1 DEF CacheInv, RequestInv, ClearedInv
<1>6. ASSUME NEW r \in Records, Unlink(t, r) PROVE MapInv'
  <2>1. /\ outdated' = outdated /\ lost' = lost
        /\ cache' = [cache EXCEPT ![p] = NoMap] /\ work[t].step = "idle"
    BY <1>6 DEF Unlink, Idle
  <2>2. work'[t].step = "signal"
    BY <1>6 DEF Unlink, Busy, Idle
  <2>3. ASSUME NEW u \in Threads, u # t
        PROVE  work'[u].step = work[u].step /\ (work[u].step = "request" => work'[u] = work[u])
    <3> DEFINE v == Missed({r})[u]
               gone == {r}
    <3>1. /\ v.step = work[u].step /\ v \in Works
          /\ work[u].step # "read" => v = work[u]
          /\ Syncs(u) => v \in Hooks \cup Reads \cup Writes
      BY MissedKeeps, SyncTypes
    <3>2. work'[u] = IF Syncs(u) THEN [v EXCEPT !.alone = @ \ gone] ELSE v
      BY <1>6, <2>3 DEF Unlink, Busy, Syncs
    <3>3. gone \in SUBSET Records
      OBVIOUS
    <3> HIDE DEF v, gone
    <3>4. CASE Syncs(u)
      BY <3>1, <3>2, <3>3, <3>4, LessAlone DEF Syncs
    <3>5. CASE ~Syncs(u)
      BY <3>1, <3>2, <3>5
    <3> QED
      BY <3>4, <3>5
  <2>4. Unsignalled'
    BY <2>2 DEF Unsignalled
  <2> QED
    BY <1>1, <2>1, <2>2, <2>3, <2>4 DEF CacheInv, RequestInv, ClearedInv
<1> QED
  BY <1>3, <1>4, <1>5, <1>6

\* A request begins with the rows as they are, and a map that was cleared if its process
\* was told.
LEMMA BeginMapStep ==
  ASSUME OneThreadEach, Types, MapInv, NEW t \in Threads, BeginRequest(t)
  PROVE  MapInv'
<1> USE DEF MapInv
<1> DEFINE p == ProcessOf[t]
<1>1. p \in Procs /\ \A u \in Threads : u # t => ProcessOf[u] # p
  BY RegistryAssumption DEF OneThreadEach
<1>2. /\ rows' = rows /\ lost' = lost /\ outdated' = outdated \ {p}
      /\ cache' = IF p \in outdated THEN [cache EXCEPT ![p] = NoMap] ELSE cache
      /\ work[t].step = "idle" /\ work'[t].step = "request"
      /\ work'[t].known = RoutesIn(rows) /\ work'[t].quiet = Quiet
      /\ \A u \in Threads : u # t => work'[u] = work[u]
  BY DEF BeginRequest, Types, Idle
<1>3. Unsignalled' <=> Unsignalled
  BY <1>2 DEF Unsignalled
<1>4. RoutesIn(rows)' = RoutesIn(rows)
  BY <1>2 DEF RoutesIn
<1>5. Quiet => ~Unsignalled
  BY DEF Quiet, Busy, Unsignalled
<1>6. CacheInv'
  BY <1>1, <1>2, <1>3, <1>4 DEF CacheInv
<1>7. RequestInv'
  BY <1>1, <1>2, <1>3, <1>4, <1>5 DEF CacheInv, RequestInv
<1>8. ClearedInv'
  BY <1>1, <1>2 DEF ClearedInv
<1> QED
  BY <1>2, <1>6, <1>7, <1>8

\* It is served by the map of its process, or by one that it makes.
LEMMA ServeMapStep ==
  ASSUME OneThreadEach, Types, MapInv, NEW t \in Threads, Serve(t)
  PROVE  /\ MapInv'
         /\ work[t].quiet /\ cache'[ProcessOf[t]] # NoMap =>
              cache'[ProcessOf[t]].routes = work[t].known
<1> USE DEF MapInv
<1> DEFINE p == ProcessOf[t]
<1>1. p \in Procs /\ \A u \in Threads : u # t => ProcessOf[u] # p
  BY RegistryAssumption DEF OneThreadEach
<1>2. PICK routes \in MapFor(t) :
        cache' = [cache EXCEPT ![p] = [version |-> version, routes |-> routes]]
  BY DEF Serve
<1>3. /\ rows' = rows /\ lost' = lost /\ outdated' = outdated
      /\ work[t].step = "request" /\ work'[t].step = "idle"
      /\ \A u \in Threads : u # t => work'[u] = work[u]
  BY DEF Serve, Types, Idle
<1>4. routes = work[t].known \/ (cache[p] # NoMap /\ routes = cache[p].routes)
  BY <1>2 DEF MapFor
<1>5. cache'[p].routes = routes
  BY <1>1, <1>2
<1>6. Unsignalled' <=> Unsignalled
  BY <1>3 DEF Unsignalled
<1>7. RoutesIn(rows)' = RoutesIn(rows)
  BY <1>3 DEF RoutesIn
<1>8. p \notin outdated => routes = RoutesIn(rows) \/ Unsignalled
  BY <1>1, <1>3, <1>4 DEF CacheInv, RequestInv
<1>9. CacheInv'
  BY <1>1, <1>2, <1>3, <1>5, <1>6, <1>7, <1>8 DEF CacheInv
<1>10. RequestInv' /\ ClearedInv'
  BY <1>1, <1>2, <1>3, <1>6, <1>7 DEF RequestInv, ClearedInv
<1>11. work[t].quiet => routes = work[t].known
  BY <1>3, <1>4 DEF RequestInv
<1> QED
  BY <1>2, <1>5, <1>9, <1>10, <1>11

\* A process that is started has no map.
LEMMA EndMapStep ==
  ASSUME OneThreadEach, Types, MapInv, (\E p \in Procs : Die(p)) \/ Restart
  PROVE  MapInv'
<1> USE DEF MapInv
<1>1. \A u \in Threads : ProcessOf[u] \in Procs
  BY RegistryAssumption
<1>2. ASSUME NEW p \in Procs, Die(p) PROVE MapInv'
  <2> DEFINE mine == {t \in Threads : ProcessOf[t] = p}
  <2>1. /\ rows' = rows /\ outdated' = outdated \ {p}
        /\ cache' = [cache EXCEPT ![p] = NoMap]
        /\ work' = [t \in Threads |-> IF t \in mine THEN Idle ELSE work[t]]
        /\ lost' = (lost \/ mine \cap Busy({"signal"}) # {})
    BY <1>2 DEF Die
  <2>2. \A t \in Threads : (work'[t] = work[t] /\ ProcessOf[t] # p) \/ work'[t].step = "idle"
    BY <2>1 DEF Idle
  <2>3. Unsignalled => Unsignalled'
    <3>1. \A t \in mine : work[t].step = "signal" => lost'
      BY <2>1 DEF Busy
    <3>2. lost => lost'
      BY <2>1
    <3> QED
      BY <2>1, <3>1, <3>2 DEF Unsignalled
  <2>4. RoutesIn(rows)' = RoutesIn(rows)
    BY <2>1 DEF RoutesIn
  <2> QED
    BY <1>1, <2>1, <2>2, <2>3, <2>4 DEF CacheInv, RequestInv, ClearedInv
<1>3. CASE Restart
  <2>1. /\ cache' = [p \in Procs |-> NoMap]
        /\ \A t \in Threads : work'[t].step = "idle"
    BY <1>3 DEF Restart, Idle
  <2> QED
    BY <2>1 DEF CacheInv, RequestInv, ClearedInv
<1> QED
  BY <1>2, <1>3

-----------------------------------------------------------------------------
\* Every step keeps the first invariant ...
LEMMA NextLineInv == LineInv /\ [Next]_vars => LineInv'
<1> SUFFICES ASSUME LineInv, [Next]_vars PROVE LineInv'
  OBVIOUS
<1>1. CASE Next
  BY <1>1, RecordStep, SyncStep, UnlinkStep, ReadStep, WriteStep, OffSyncStep, CommitStep,
     EndStep DEF Next
<1>2. CASE UNCHANGED vars
  BY <1>2 DEF vars, LineInv, Types, AloneInv, ReadInv, WrittenInv, SyncedInLine, Syncs, Live,
         Wish, Registered, UnderSync, Busy
<1> QED
  BY <1>1, <1>2

\* ... and the second one, if processes have one thread.
LEMMA NextMapInv ==
  ASSUME OneThreadEach, Types, MapInv, [Next]_vars
  PROVE  MapInv'
<1>1. CASE Next
  BY <1>1, BeforeWriteStep, WriteMapStep, BeginMapStep, ServeMapStep, EndMapStep DEF Next
<1>2. CASE UNCHANGED vars
  BY <1>2 DEF vars, MapInv, CacheInv, RequestInv, ClearedInv, Unsignalled, RoutesIn
<1> QED
  BY <1>1, <1>2

\* The inductive invariant of the registry: what is synced is in line, is being synced, or is
\* in trouble.
THEOREM Invariance == Spec => []LineInv
<1>1. Init => LineInv
  BY InitIInv DEF IInv
<1>2. LineInv /\ [Next]_vars => LineInv'
  BY NextLineInv
<1> QED
  BY <1>1, <1>2, PTL DEF Spec

\* A record with the flag registry_sync is in line with the registry, for any number of
\* endpoints and any interleaving of edits, syncs and deletions, unless its last sync
\* failed or ran beside another one (endpoint_route_sync_mixin.py).
THEOREM InLine == Spec => []SyncedInLine
<1>1. LineInv => SyncedInLine
  BY DEF LineInv
<1> QED
  BY <1>1, Invariance, PTL

\* A request ends by being served, or with its process, that then has no map.
LEMMA RequestEnds ==
  ASSUME Types, MapInv, Next, NEW t \in Threads, work[t].step = "request", work'[t] = Idle
  PROVE  Serve(t) \/ cache'[ProcessOf[t]] = NoMap
<1>1. work'[t] # work[t] /\ ~Syncs(t) /\ work[t] # Idle
  BY DEF Idle, Syncs
<1>2. ProcessOf[t] \in Procs /\ DOMAIN cache = Procs
  BY RegistryAssumption DEF MapInv
<1>3. CASE \E r \in Records : (\E route \in Routes : Create(r, route) \/ EditRoute(r, route))
                              \/ Archive(r)
  BY <1>1, <1>3 DEF Create, EditRoute, Archive, Change
<1>4. ASSUME NEW u \in Threads, NEW rs \in SUBSET Records, Sync(u, rs) PROVE FALSE
  BY <1>1, <1>4 DEF Sync, Busy, Syncs
<1>5. ASSUME NEW u \in Threads, NEW r \in Records, Unlink(u, r) PROVE FALSE
  <2>1. u # t
    BY <1>1, <1>5 DEF Unlink
  <2>2. work'[t] = Missed({r})[t]
    BY <1>1, <1>5, <2>1 DEF Unlink, Busy, Syncs
  <2> QED
    BY <1>1, <2>2 DEF Missed
<1>6. ASSUME NEW u \in Threads, CommitSync(u) PROVE FALSE
  <2>1. u # t
    BY <1>6 DEF CommitSync
  <2>2. work'[t] = Missed(DOMAIN work[u].out)[t]
    BY <1>6, <2>1 DEF CommitSync, Missed
  <2> QED
    BY <1>1, <2>2 DEF Missed
<1>7. ASSUME NEW u \in Threads, ReadRecords(u) \/ WriteRows(u) \/ FailSync(u) \/ Signal(u)
                                \/ BeginRequest(u)
      PROVE  FALSE
  <2>1. u # t
    BY <1>1, <1>7 DEF ReadRecords, WriteRows, FailSync, Signal, BeginRequest
  <2> QED
    BY <1>1, <1>7, <2>1 DEF ReadRecords, WriteRows, FailSync, Signal, BeginRequest, Types
<1>8. ASSUME NEW u \in Threads, Serve(u) PROVE u = t
  BY <1>1, <1>8 DEF Serve, Types
<1>9. ASSUME NEW p \in Procs, Die(p) PROVE cache'[ProcessOf[t]] = NoMap
  <2>1. ProcessOf[t] = p
    BY <1>1, <1>9 DEF Die
  <2> QED
    BY <1>2, <1>9, <2>1 DEF Die
<1>10. CASE Restart
  BY <1>2, <1>10 DEF Restart
<1> QED
  BY <1>3, <1>4, <1>5, <1>6, <1>7, <1>8, <1>9, <1>10 DEF Next

\* Where processes have one thread each, a request that begins when all changes have been
\* signalled is served by the routes in the table, in whatever order processes load,
\* clear and lose their maps (ir_http.py, routing_map; endpoint_route_sync_mixin.py).
THEOREM RoutesAreFresh ==
  ASSUME OneThreadEach
  PROVE  Spec => NoStaleRoutes
<1> DEFINE Fresh ==
      \A t \in Threads : LET p == ProcessOf[t] IN
        work[t].step = "request" /\ work'[t] = Idle /\ cache'[p] # NoMap /\ work[t].quiet
          => cache'[p].routes = work[t].known
<1>1. Init => IInv
  BY InitIInv
<1>2. IInv /\ [Next]_vars => IInv'
  BY NextLineInv, NextMapInv DEF IInv, LineInv
<1>3. IInv /\ [Next]_vars => [Fresh]_vars
  BY RequestEnds, ServeMapStep DEF IInv, LineInv
<1>4. Spec => [][Fresh]_vars
  BY <1>1, <1>2, <1>3, PTL DEF Spec
<1> QED
  BY <1>4 DEF NoStaleRoutes

-----------------------------------------------------------------------------
(***************************************************************************)
(* What endpoints can be set to.  A write is checked only for the fields   *)
(* it changes; the invariant is that it is enough, because each check      *)
(* reads none but fields that make it run.                                 *)
(***************************************************************************)

Answerable(e) ==
  /\ DOMAIN e = Setting /\ e.mode \in {"code", "json2"} /\ e.layout \in Layouts
  /\ FormAllows(e)
  /\ e.mode = "json2" =>
       (e.method = "") # (e.snippet = "") /\ e.verb = "POST" /\ e.ctype = "json"
  /\ e.schema # "" /\ e.ctype = "json" => e.schema = "json"
  /\ e.model # "" => \A f \in Dotted(e) : ValidField(e.model, f)

\* What all checks allow is answerable.
LEMMA AllowedAnswers ==
  ASSUME NEW e \in FirstEndpoints, FormAllows(e), Allowed(e, Setting)
  PROVE  Answerable(e)
<1>1. {"mode", "verb", "ctype", "schema", "model", "method", "snippet", "layout"} \subseteq Setting
  BY DEF Setting, Settings
<1>2. DOMAIN e = Setting /\ e.mode \in {"code", "json2"} /\ e.layout \in Layouts
  <2>1. Settings["mode"] = {"code", "json2"} /\ Settings["layout"] = Layouts
    BY DEF Settings
  <2> QED
    BY <1>1, <2>1, EndpointsAssumption
<1> QED
  BY <1>1, <1>2 DEF Answerable, Allowed, MixinAllows, LayoutAllows, Json2Allows, Dotted

\* Typing keeps the mode one of the two, and the layout one there is.
LEMMA TypedMode ==
  ASSUME NEW e, DOMAIN e = Setting, e.mode \in {"code", "json2"}, e.layout \in Layouts,
         NEW d \in TypedOnce(e)
  PROVE  DOMAIN d = Setting /\ d.mode \in {"code", "json2"} /\ d.layout \in Layouts
<1>1. /\ "mode" \in Setting /\ Settings["mode"] = {"code", "json2"}
      /\ "layout" \in Setting /\ Settings["layout"] = Layouts
  BY DEF Setting, Settings
<1>2. PICK k \in Shown(e) : \E v \in Settings[k] : d = Typed(e, k, v)
  BY DEF TypedOnce
<1>3. PICK v \in Settings[k] : d = Typed(e, k, v)
  BY <1>2
<1> DEFINE set == [e EXCEPT ![k] = v]
<1>4. DOMAIN set = Setting /\ set.mode \in {"code", "json2"} /\ set.layout \in Layouts
  BY <1>1
<1> HIDE DEF set
<1>5. CASE k = "mode" /\ v = "json2"
  BY <1>1, <1>3, <1>4, <1>5 DEF Typed, set
<1>6. CASE k = "ctype"
  BY <1>1, <1>3, <1>4, <1>6 DEF Typed, set
<1>7. CASE ~(k = "mode" /\ v = "json2") /\ k # "ctype"
  BY <1>1, <1>3, <1>4, <1>7 DEF Typed, set
<1> QED
  BY <1>5, <1>6, <1>7

\* So is what an edit makes of it.
LEMMA EditAnswers ==
  ASSUME Answerable(endpoint), EditEndpoint
  PROVE  Answerable(endpoint)'
<1>1. PICK e \in TypedOnce(endpoint) \cup TypedTwice(endpoint) :
               /\ FormAllows(e)
               /\ Allowed(e, {k \in Setting : e[k] # endpoint[k]})
               /\ endpoint' = e
  BY DEF EditEndpoint
<1> DEFINE written == {k \in Setting : e[k] # endpoint[k]}
<1>2. {"mode", "verb", "ctype", "schema", "model", "method", "snippet", "layout"} \subseteq Setting
  BY DEF Setting, Settings
<1>3. /\ "mode" \in written \/ e.mode = endpoint.mode
      /\ "verb" \in written \/ e.verb = endpoint.verb
      /\ "ctype" \in written \/ e.ctype = endpoint.ctype
      /\ "schema" \in written \/ e.schema = endpoint.schema
      /\ "model" \in written \/ e.model = endpoint.model
      /\ "method" \in written \/ e.method = endpoint.method
      /\ "snippet" \in written \/ e.snippet = endpoint.snippet
      /\ "layout" \in written \/ e.layout = endpoint.layout
  BY <1>2
<1> HIDE DEF written
<1>4. Allowed(e, written)
  BY <1>1 DEF written
<1>5. e.mode = "json2" =>
        (e.method = "") # (e.snippet = "") /\ e.verb = "POST" /\ e.ctype = "json"
  BY <1>3, <1>4 DEF Answerable, Allowed, Json2Allows
<1>6. e.schema # "" /\ e.ctype = "json" => e.schema = "json"
  BY <1>3, <1>4 DEF Answerable, Allowed, MixinAllows
<1>7. e.model # "" => \A f \in Dotted(e) : ValidField(e.model, f)
  <2>1. CASE written \cap {"layout", "model", "method"} = {}
    <3>1. e.layout = endpoint.layout /\ e.model = endpoint.model
      <4>1. "layout" \notin written /\ "model" \notin written
        BY <2>1
      <4> QED
        BY <1>3, <4>1
    <3>2. Dotted(e) = Dotted(endpoint)
      BY <3>1 DEF Dotted
    <3> QED
      BY <3>1, <3>2 DEF Answerable
  <2>2. CASE written \cap {"layout", "model", "method"} # {}
    BY <1>4, <2>2 DEF Allowed, LayoutAllows, Dotted
  <2> QED
    BY <2>1, <2>2
<1>8. DOMAIN e = Setting /\ e.mode \in {"code", "json2"} /\ e.layout \in Layouts
  <2>1. DOMAIN endpoint = Setting /\ endpoint.mode \in {"code", "json2"} /\ endpoint.layout \in Layouts
    BY DEF Answerable
  <2>2. \A d \in TypedOnce(endpoint) : DOMAIN d = Setting /\ d.mode \in {"code", "json2"} /\ d.layout \in Layouts
    BY <2>1, TypedMode
  <2>3. CASE e \in TypedOnce(endpoint)
    BY <2>2, <2>3
  <2>4. CASE e \in TypedTwice(endpoint)
    <3>1. PICK d \in TypedOnce(endpoint) : e \in TypedOnce(d)
      BY <2>4 DEF TypedTwice
    <3> QED
      BY <2>2, <3>1, TypedMode
  <2> QED
    BY <1>1, <2>3, <2>4
<1> QED
  BY <1>1, <1>5, <1>6, <1>7, <1>8 DEF Answerable

\* No request meets an exception, but for what the method cannot be called with.
LEMMA AnswerableAnswers ==
  ASSUME Answerable(endpoint)
  PROVE  SavedEndpointsAnswer
<1> SUFFICES ASSUME NEW r \in Requests
             PROVE  /\ endpoint.mode = "code" \/ Callable(endpoint, r) =>
                         Answer(endpoint, r).status # "broken"
                    /\ endpoint.mode = "json2" /\ r.verb = "POST" /\ r.ctype = "json" /\ r.conforms =>
                         Documented(endpoint, r.member) = (Answer(endpoint, r).status # "forbidden")
  BY DEF SavedEndpointsAnswer
<1>1. \A status : Refusal(status).status = status
  BY DEF Refusal
<1>2. \A p : [status |-> "ok", payload |-> p].status = "ok"
  OBVIOUS
<1>3. /\ ~(endpoint.schema = "xml" /\ endpoint.verb = "POST" /\ endpoint.ctype = "json")
      /\ endpoint.mode # "code" =>
           /\ endpoint.model # "" /\ ~(endpoint.method = "" /\ endpoint.snippet = "")
           /\ \A f \in Dotted(endpoint) : ValidField(endpoint.model, f)
  BY DEF Answerable, FormAllows
<1>4. endpoint.mode = "code" \/ Callable(endpoint, r) => Answer(endpoint, r).status # "broken"
  BY <1>1, <1>2, <1>3 DEF Answer
<1>5. ASSUME endpoint.mode = "json2", r.verb = "POST", r.ctype = "json", r.conforms
      PROVE  r.member <=> Answer(endpoint, r).status # "forbidden"
  <2>1. /\ endpoint.verb = r.verb /\ endpoint.ctype = r.ctype
        /\ endpoint.mode # "code" /\ endpoint.schema # "xml"
    BY <1>5 DEF Answerable
  <2>2. CASE r.member
    BY <1>1, <1>2, <1>5, <2>1, <2>2 DEF Answer
  <2>3. CASE ~r.member
    BY <1>1, <1>5, <2>1, <2>3 DEF Answer
  <2> QED
    BY <2>2, <2>3
<1>6. ASSUME endpoint.mode = "json2"
      PROVE  Documented(endpoint, r.member) <=> r.member
  BY <1>6 DEF Answerable, Documented, FormAllows
<1> QED
  BY <1>4, <1>5, <1>6, Zenon DEF Documented

\* Every edit and every stutter keeps the endpoint answerable.
LEMMA AnswerableKept ==
  Answerable(endpoint) /\ [EditEndpoint]_<<endpoint, edits>> => Answerable(endpoint)'
<1>1. Answerable(endpoint) /\ UNCHANGED <<endpoint, edits>> => Answerable(endpoint)'
  BY DEF Answerable, FormAllows, Dotted
<1> QED
  BY <1>1, EditAnswers

\* However an endpoint was edited, one that could be saved is able to answer every request
\* that its method can be called with (_handle_endpoint, _handle_exec__json2).
THEOREM SavedAnswer == SpecEndpoints => []SavedEndpointsAnswer
<1>1. InitEndpoint => Answerable(endpoint)
  BY AllowedAnswers DEF InitEndpoint
<1>2. Answerable(endpoint) /\ [EditEndpoint]_<<endpoint, edits>> => Answerable(endpoint)'
  BY AnswerableKept
<1> QED
  BY <1>1, <1>2, AnswerableAnswers, PTL DEF SpecEndpoints

-----------------------------------------------------------------------------
\* A set of numbers that is not empty has a least one.
LEMMA NatLeast ==
  ASSUME NEW T \in SUBSET Nat, T # {}
  PROVE  \E n \in T : \A m \in T : n <= m
<1>1. \A x, y \in Nat : y < x => <<y, x>> \in OpToRel(<, Nat)
  BY DEF OpToRel
<1>2. PICK n \in T : \A m \in T : ~(<<m, n>> \in OpToRel(<, Nat))
  BY NatLessThanWellFounded, WFMin
<1>3. \A m \in T : m \in Nat /\ n \in Nat
  OBVIOUS
<1>4. \A m \in T : ~(m < n)
  BY <1>1, <1>2, <1>3, Zenon
<1> QED
  BY <1>3, <1>4

\* A set that has 0 and, with each number, the next one has them all.
LEMMA NatInduct ==
  ASSUME NEW T, 0 \in T, \A n \in Nat : n \in T => n + 1 \in T
  PROVE  \A n \in Nat : n \in T
<1> SUFFICES ASSUME \E n \in Nat : n \notin T PROVE FALSE
  OBVIOUS
<1> DEFINE U == {n \in Nat : n \notin T}
<1>1. PICK n \in U : \A m \in U : n <= m
  BY NatLeast
<1>2. n # 0 /\ n - 1 \in Nat /\ n - 1 \notin U
  BY <1>1
<1> QED
  BY <1>1, <1>2

\* The first value of the function is x and the others follow, each by its own
\* step, from the one before.
IsRecursive(g, k, x, F) ==
  g = [n \in 0..k |-> IF n = 0 THEN x ELSE F[<<n, g[n - 1]>>]]

\* What is defined by such a recursion exists.
LEMMA RecursionExists ==
  ASSUME NEW S, NEW x \in S, NEW k \in Nat, NEW F \in [(1..k) \X S -> S]
  PROVE  \E g \in [0..k -> S] : IsRecursive(g, k, x, F)
<1> DEFINE Steps(g, m) == [n \in 0..m |-> IF n = 0 THEN x ELSE F[<<n, g[n - 1]>>]]
           T == {m \in Nat : m <= k => \E g \in [0..m -> S] : g = Steps(g, m)}
<1>1. 0 \in T
  <2> DEFINE g == [n \in 0..0 |-> x]
  <2>1. g \in [0..0 -> S] /\ g = Steps(g, 0)
    OBVIOUS
  <2> QED
    BY <2>1
<1>2. ASSUME NEW m \in Nat, m \in T PROVE m + 1 \in T
  <2> SUFFICES ASSUME m + 1 <= k PROVE \E h \in [0..(m + 1) -> S] : h = Steps(h, m + 1)
    OBVIOUS
  <2>1. PICK g \in [0..m -> S] : g = Steps(g, m)
    BY <1>2
  <2> DEFINE h == Steps(g, m + 1)
  <2>2. ASSUME NEW n \in 0..(m + 1), n # 0 PROVE n - 1 \in 0..m /\ F[<<n, g[n - 1]>>] \in S
    <3>1. n - 1 \in 0..m /\ n \in 1..k
      BY <2>2
    <3>2. <<n, g[n - 1]>> \in (1..k) \X S
      BY <3>1
    <3> QED
      BY <3>1, <3>2
  <2>3. h \in [0..(m + 1) -> S]
    BY <2>2
  <2>4. \A n \in 0..m : h[n] = g[n]
    BY <2>1
  <2>5. h = Steps(h, m + 1)
    BY <2>2, <2>4
  <2> HIDE DEF h
  <2> QED
    BY <2>3, <2>5
<1>3. k \in T
  <2> HIDE DEF T
  <2> QED
    BY <1>1, <1>2, NatInduct
<1> QED
  BY <1>3 DEF IsRecursive

-----------------------------------------------------------------------------
(* Parts of a sequence *)

IsSelected(g, seq, ns) ==
  g = [n \in 0..Len(seq) |->
         IF n = 0 THEN <<>>
         ELSE IF n \in ns THEN Append(g[n - 1], seq[n]) ELSE g[n - 1]]

\* SelectAt is the last value of such a function, if there is one.
LEMMA SelectAtIs ==
  ASSUME NEW seq, NEW ns
  PROVE  SelectAt(seq, ns) = (CHOOSE g : IsSelected(g, seq, ns))[Len(seq)]
BY DEF SelectAt, IsSelected

\* The function exists.
LEMMA SelectedExists ==
  ASSUME NEW S, NEW seq \in Seq(S), NEW ns
  PROVE  \E g : IsSelected(g, seq, ns) /\ SelectAt(seq, ns) = g[Len(seq)]
<1> DEFINE k == Len(seq)
           Parts == Seq(S)
           F == [u \in (1..k) \X Parts |-> IF u[1] \in ns THEN Append(u[2], seq[u[1]]) ELSE u[2]]
<1>1. k \in Nat /\ \A n \in 1..k : seq[n] \in S
  BY LenProperties, ElementOfSeq
<1>2. \A n \in 1..k, u \in Parts : (IF n \in ns THEN Append(u, seq[n]) ELSE u) \in Parts
  BY <1>1, AppendProperties
<1>3. <<>> \in Parts
  BY EmptySeq
<1> HIDE DEF Parts
<1>4. F \in [(1..k) \X Parts -> Parts]
  BY <1>2
<1>5. \A n \in 1..k, u \in Parts : F[<<n, u>>] = IF n \in ns THEN Append(u, seq[n]) ELSE u
  OBVIOUS
<1> HIDE DEF F, k
<1>6. PICK h \in [0..k -> Parts] : IsRecursive(h, k, <<>>, F)
  BY <1>1, <1>3, <1>4, RecursionExists
<1>7. ASSUME NEW n \in 0..k
      PROVE  h[n] = IF n = 0 THEN <<>>
                    ELSE IF n \in ns THEN Append(h[n - 1], seq[n]) ELSE h[n - 1]
  <2>1. n # 0 => n \in 1..k /\ h[n - 1] \in Parts
    BY <1>1
  <2>2. h[n] = IF n = 0 THEN <<>> ELSE F[<<n, h[n - 1]>>]
    BY <1>6 DEF IsRecursive
  <2> QED
    BY <2>1, <2>2, <1>5
<1>8. IsSelected(h, seq, ns)
  <2>1. h = [n \in 0..k |-> h[n]]
    OBVIOUS
  <2> QED
    BY <1>7, <2>1 DEF IsSelected, k
<1>9. IsSelected(CHOOSE g : IsSelected(g, seq, ns), seq, ns)
  BY <1>8
<1> QED
  BY <1>9, SelectAtIs

\* Its values, one after another
LEMMA SelectedSteps ==
  ASSUME NEW S, NEW seq \in Seq(S), NEW ns, NEW g, IsSelected(g, seq, ns)
  PROVE  /\ g[0] = <<>>
         /\ \A n \in 1..Len(seq) :
              g[n] = IF n \in ns THEN Append(g[n - 1], seq[n]) ELSE g[n - 1]
<1> DEFINE k == Len(seq)
<1>1. k \in Nat
  BY LenProperties
<1>2. g = [n \in 0..k |-> IF n = 0 THEN <<>>
                          ELSE IF n \in ns THEN Append(g[n - 1], seq[n]) ELSE g[n - 1]]
  BY DEF IsSelected
<1> HIDE DEF k
<1>3. \A n \in 0..k : g[n] = IF n = 0 THEN <<>>
                             ELSE IF n \in ns THEN Append(g[n - 1], seq[n]) ELSE g[n - 1]
  BY <1>2, Zenon
<1>4. 0 \in 0..k /\ \A n \in 1..k : n \in 0..k /\ n # 0
  BY <1>1
<1> QED
  BY <1>3, <1>4 DEF k

\* What is selected has elements of the sequence only.
LEMMA SelectAtElements ==
  ASSUME NEW S, NEW seq \in Seq(S), NEW ns
  PROVE  SelectAt(seq, ns) \in Seq({seq[n] : n \in DOMAIN seq})
<1> DEFINE R == {seq[n] : n \in DOMAIN seq}
<1>1. PICK g : IsSelected(g, seq, ns) /\ SelectAt(seq, ns) = g[Len(seq)]
  BY SelectedExists
<1>2. /\ g[0] = <<>>
      /\ \A n \in 1..Len(seq) : g[n] = IF n \in ns THEN Append(g[n - 1], seq[n]) ELSE g[n - 1]
  BY <1>1, SelectedSteps
<1>3. Len(seq) \in Nat /\ \A n \in 1..Len(seq) : seq[n] \in R
  BY LenProperties
<1> HIDE DEF R
<1> DEFINE T == {n \in Nat : n <= Len(seq) => g[n] \in Seq(R)}
<1>4. 0 \in T
  BY <1>2, EmptySeq
<1>5. ASSUME NEW n \in Nat, n \in T PROVE n + 1 \in T
  <2> SUFFICES ASSUME n + 1 <= Len(seq) PROVE g[n + 1] \in Seq(R)
    OBVIOUS
  <2>1. n + 1 \in 1..Len(seq) /\ (n + 1) - 1 = n /\ g[n] \in Seq(R)
    BY <1>3, <1>5
  <2>2. g[n + 1] = IF n + 1 \in ns THEN Append(g[n], seq[n + 1]) ELSE g[n]
    BY <1>2, <2>1
  <2> QED
    BY <1>3, <2>1, <2>2, AppendProperties
<1>6. \A n \in Nat : n \in T
  <2> HIDE DEF T
  <2> QED
    BY <1>4, <1>5, NatInduct
<1>7. g[Len(seq)] \in Seq(R)
  BY <1>3, <1>6
<1> QED
  BY <1>1, <1>7 DEF R

\* All places give the sequence.
LEMMA SelectAtAll ==
  ASSUME NEW S, NEW seq \in Seq(S)
  PROVE  SelectAt(seq, DOMAIN seq) = seq
<1> DEFINE ns == DOMAIN seq
<1>1. PICK g : IsSelected(g, seq, ns) /\ SelectAt(seq, ns) = g[Len(seq)]
  BY SelectedExists
<1>2. /\ g[0] = <<>>
      /\ \A n \in 1..Len(seq) : g[n] = IF n \in ns THEN Append(g[n - 1], seq[n]) ELSE g[n - 1]
  BY <1>1, SelectedSteps
<1>3. Len(seq) \in Nat /\ ns = 1..Len(seq) /\ \A n \in 1..Len(seq) : seq[n] \in S
  BY LenProperties, ElementOfSeq
<1> HIDE DEF ns
<1> DEFINE T == {n \in Nat : n <= Len(seq) =>
                    g[n] \in Seq(S) /\ Len(g[n]) = n /\ \A i \in 1..n : g[n][i] = seq[i]}
<1>4. 0 \in T
  <2>1. g[0] \in Seq(S) /\ Len(g[0]) = 0
    BY <1>2, EmptySeq
  <2>2. \A i \in 1..0 : g[0][i] = seq[i]
    OBVIOUS
  <2> QED
    BY <2>1, <2>2
<1>5. ASSUME NEW n \in Nat, n \in T PROVE n + 1 \in T
  <2> SUFFICES ASSUME n + 1 <= Len(seq)
               PROVE  /\ g[n + 1] \in Seq(S) /\ Len(g[n + 1]) = n + 1
                      /\ \A i \in 1..(n + 1) : g[n + 1][i] = seq[i]
    OBVIOUS
  <2>1. /\ n + 1 \in 1..Len(seq) /\ (n + 1) - 1 = n
        /\ g[n] \in Seq(S) /\ Len(g[n]) = n /\ \A i \in 1..n : g[n][i] = seq[i]
    BY <1>3, <1>5
  <2>2. g[n + 1] = Append(g[n], seq[n + 1])
    BY <1>2, <1>3, <2>1
  <2>3. seq[n + 1] \in S
    BY <1>3, <2>1
  <2> HIDE DEF T
  <2> QED
    BY <2>1, <2>2, <2>3, AppendProperties
<1>6. \A n \in Nat : n \in T
  <2> HIDE DEF T
  <2> QED
    BY <1>4, <1>5, NatInduct
<1>7. /\ g[Len(seq)] \in Seq(S) /\ Len(g[Len(seq)]) = Len(seq)
      /\ \A i \in 1..Len(seq) : g[Len(seq)][i] = seq[i]
  BY <1>3, <1>6
<1>8. g[Len(seq)] = seq
  BY <1>7, SeqEqual
<1> QED
  BY <1>1, <1>8 DEF ns

-----------------------------------------------------------------------------
(* The rows of an answer *)

PartnerType == [{<<k>> : k \in PlainFields.partner} -> Seq(STRING)]

\* Names of the related records are all there if none is archived.
LEMMA NamesOfAll ==
  ASSUME Archived = {}, NEW ids \in Seq(Places)
  PROVE  NamesOf(ids) = ids
<1>1. \A n \in DOMAIN ids : ids[n] \in Places \ Archived
  BY LenProperties, ElementOfSeq
<1>2. {n \in DOMAIN ids : ids[n] \in Places \ Archived} = DOMAIN ids
  BY <1>1
<1> QED
  BY <1>2, SelectAtAll DEF NamesOf

\* Fields of the model, and those behind dotted names
LEMMA FieldsAre ==
  /\ PlainFields.partner = {"id", "name", "country", "tags"}
  /\ Relational.partner = {"country", "tags"}
BY DEF PlainFields, Relational

\* The fields that were asked for, and what a row of the answer has
Asked(e, r) ==
  IF FieldsOf(e, r) = "absent" THEN {<<k>> : k \in PlainFields[e.model]}
  ELSE {<<"id">>, <<"name">>}
Behind(e) == {<<f[1]>> : f \in Dotted(e)}
ShownOf(e, r) ==
  IF e.layout = <<>> THEN Asked(e, r)
  ELSE {f \in LayoutFields(e.layout) : Len(f) = 2 \/ f \in Asked(e, r) \cup Behind(e)}

\* Read are the fields asked for and those behind dotted names.
LEMMA ReadIs ==
  ASSUME NEW e, NEW r, e.model = "partner", \A f \in Dotted(e) : ValidField("partner", f)
  PROVE  /\ FieldsRead(e, r) = Asked(e, r) \cup Behind(e)
         /\ FieldsRead(e, r) \subseteq {<<k>> : k \in PlainFields.partner}
         /\ \A f \in Dotted(e) : f[1] \in Relational.partner
<1>1. \A f \in Dotted(e) : f[1] \in Relational.partner
  BY DEF Dotted, ValidField
<1>2. Behind(e) \subseteq {<<k>> : k \in PlainFields.partner}
  BY <1>1, FieldsAre DEF Behind
<1>3. {<<"id">>, <<"name">>} \subseteq {<<k>> : k \in PlainFields.partner}
  BY FieldsAre
<1>4. CASE FieldsOf(e, r) = "absent"
  <2>1. FieldsRead(e, r) = {<<k>> : k \in PlainFields[e.model]}
    BY <1>4 DEF FieldsRead
  <2>2. Asked(e, r) = {<<k>> : k \in PlainFields[e.model]}
    BY <1>4 DEF Asked
  <2> QED
    BY <1>1, <1>2, <2>1, <2>2
<1>5. CASE FieldsOf(e, r) # "absent"
  <2>1. FieldsRead(e, r) = {<<"id">>, <<"name">>} \cup Behind(e)
    BY <1>5 DEF FieldsRead, Behind
  <2>2. Asked(e, r) = {<<"id">>, <<"name">>}
    BY <1>5 DEF Asked
  <2> QED
    BY <1>1, <1>2, <1>3, <2>1, <2>2
<1> QED
  BY <1>4, <1>5

\* The row before its keys are renamed
LEMMA RowBefore ==
  ASSUME Archived = {}, NEW e, NEW r, e.model = "partner",
         \A f \in Dotted(e) : ValidField("partner", f), NEW p \in PartnerType,
         \A k \in Relational.partner : p[<<k>>] \in Seq(Places)
  PROVE  LET row == Filtered(Injected(Restrict(p, FieldsRead(e, r)), Dotted(e)), e.layout) IN
         DOMAIN row = ShownOf(e, r) /\ \A f \in ShownOf(e, r) : row[f] = Shows(p, f)
<1> DEFINE q == Restrict(p, FieldsRead(e, r))
           i == Injected(q, Dotted(e))
           row == Filtered(i, e.layout)
<1>1. /\ FieldsRead(e, r) = Asked(e, r) \cup Behind(e)
      /\ FieldsRead(e, r) \subseteq {<<k>> : k \in PlainFields.partner}
      /\ \A f \in Dotted(e) : f[1] \in Relational.partner
  BY ReadIs
<1>2. DOMAIN q = FieldsRead(e, r) /\ \A f \in FieldsRead(e, r) : q[f] = p[f]
  BY DEF Restrict
<1> HIDE DEF q
<1>3. ASSUME NEW f \in Dotted(e)
      PROVE  NamesOf(Get(q, <<f[1]>>)) = Shows(p, f)
  <2>1. <<f[1]>> \in FieldsRead(e, r)
    BY <1>1 DEF Behind
  <2>2. Get(q, <<f[1]>>) = p[<<f[1]>>]
    BY <1>2, <2>1 DEF Get
  <2>3. p[<<f[1]>>] \in Seq(Places)
    BY <1>1
  <2> QED
    BY <2>2, <2>3, NamesOfAll DEF Shows
<1>4. /\ DOMAIN i = FieldsRead(e, r) \cup Dotted(e)
      /\ \A f \in DOMAIN i : i[f] = IF f \in Dotted(e) THEN NamesOf(Get(q, <<f[1]>>)) ELSE q[f]
  BY <1>2 DEF Injected
<1> HIDE DEF i
<1>5. ASSUME NEW f \in FieldsRead(e, r) PROVE Shows(p, f) = p[f] /\ Len(f) = 1
  <2>1. PICK k \in PlainFields.partner : f = <<k>>
    BY <1>1
  <2> QED
    BY <2>1 DEF Shows
<1>6. \A f \in DOMAIN i : i[f] = Shows(p, f)
  BY <1>2, <1>3, <1>4, <1>5
<1>7. ASSUME e.layout = <<>>
      PROVE  DOMAIN row = ShownOf(e, r) /\ \A f \in ShownOf(e, r) : row[f] = Shows(p, f)
  <2>1. LayoutFields(e.layout) = {}
    BY <1>7 DEF LayoutFields
  <2>2. Dotted(e) = {} /\ Behind(e) = {}
    BY <2>1 DEF Dotted, Behind
  <2>3. row = i
    BY <1>7 DEF Filtered
  <2>4. ShownOf(e, r) = DOMAIN i
    BY <1>1, <1>4, <1>7, <2>2 DEF ShownOf
  <2> HIDE DEF row
  <2> QED
    BY <1>6, <2>3, <2>4
<1>8. ASSUME e.layout # <<>>
      PROVE  DOMAIN row = ShownOf(e, r) /\ \A f \in ShownOf(e, r) : row[f] = Shows(p, f)
  <2> DEFINE kept == DOMAIN i \cap LayoutFields(e.layout)
  <2>1. row = Restrict(i, kept)
    BY <1>8 DEF Filtered
  <2>2. DOMAIN row = kept /\ \A f \in kept : row[f] = i[f]
    BY <2>1 DEF Restrict
  <2>3. ShownOf(e, r) = {f \in LayoutFields(e.layout) : Len(f) = 2 \/ f \in FieldsRead(e, r)}
    BY <1>1, <1>8 DEF ShownOf
  <2>4. Dotted(e) = {f \in LayoutFields(e.layout) : Len(f) = 2}
    BY DEF Dotted
  <2>5. kept = ShownOf(e, r)
    BY <1>4, <2>3, <2>4
  <2>6. \A f \in kept : i[f] = Shows(p, f)
    BY <1>6
  <2> HIDE DEF row, kept
  <2> QED
    BY <2>2, <2>5, <2>6
<1>9. DOMAIN row = ShownOf(e, r) /\ \A f \in ShownOf(e, r) : row[f] = Shows(p, f)
  <2> HIDE DEF row
  <2> QED
    BY <1>7, <1>8
<1> QED
  BY <1>9 DEF i, q

\* Labels tell what is shown apart.
LEMMA LabelsDiffer ==
  ASSUME NEW e, NEW r, e.layout \in Layouts, NEW f \in ShownOf(e, r), NEW g \in ShownOf(e, r),
         AliasOf(e.layout, f) = AliasOf(e.layout, g)
  PROVE  f = g
<1>1. CASE e.layout = <<>>
  <2>1. \A h : AliasOf(<<>>, h) = h
    BY DEF AliasOf
  <2> QED
    BY <1>1, <2>1
<1>2. CASE e.layout # <<>>
  <2>1. f \in LayoutFields(e.layout) /\ g \in LayoutFields(e.layout)
    BY <1>2 DEF ShownOf
  <2> QED
    BY <2>1, RecordsAssumption
<1> QED
  BY <1>1, <1>2

\* A row of the answer
RowOf(e, r, p) ==
  Renamed(Filtered(Injected(Restrict(p, FieldsRead(e, r)), Dotted(e)), e.layout), e.layout)

Labels(e, r) == {AliasOf(e.layout, f) : f \in ShownOf(e, r)}

\* It has what is shown, under its labels.
LEMMA RowShows ==
  ASSUME Archived = {}, NEW e, NEW r, e.model = "partner", e.layout \in Layouts,
         \A f \in Dotted(e) : ValidField("partner", f), NEW p \in PartnerType,
         \A k \in Relational.partner : p[<<k>>] \in Seq(Places)
  PROVE  /\ DOMAIN RowOf(e, r, p) = Labels(e, r)
         /\ \A f \in ShownOf(e, r) : RowOf(e, r, p)[AliasOf(e.layout, f)] = Shows(p, f)
<1> DEFINE before == Filtered(Injected(Restrict(p, FieldsRead(e, r)), Dotted(e)), e.layout)
           shown == ShownOf(e, r)
           alias(f) == AliasOf(e.layout, f)
<1>1. DOMAIN before = shown /\ \A f \in shown : before[f] = Shows(p, f)
  BY RowBefore
<1>2. \A f, g \in shown : AliasOf(e.layout, f) = AliasOf(e.layout, g) => f = g
  BY LabelsDiffer
<1> HIDE DEF before, shown
<1>3. ASSUME NEW f \in shown
      PROVE  (CHOOSE g \in shown : AliasOf(e.layout, g) = AliasOf(e.layout, f)) = f
  BY <1>2
<1>4. Renamed(before, e.layout)
        = [k \in {AliasOf(e.layout, f) : f \in shown} |->
             before[CHOOSE g \in shown : AliasOf(e.layout, g) = k]]
  BY <1>1 DEF Renamed
<1>5. ASSUME NEW f \in shown
      PROVE  Renamed(before, e.layout)[AliasOf(e.layout, f)] = before[f]
  <2>1. AliasOf(e.layout, f) \in {AliasOf(e.layout, g) : g \in shown}
    OBVIOUS
  <2>2. Renamed(before, e.layout)[AliasOf(e.layout, f)]
          = before[CHOOSE g \in shown : AliasOf(e.layout, g) = AliasOf(e.layout, f)]
    BY <1>4, <2>1
  <2> QED
    BY <1>3, <2>2
<1>6. DOMAIN Renamed(before, e.layout) = {AliasOf(e.layout, f) : f \in shown}
  BY <1>4
<1> QED
  BY <1>1, <1>5, <1>6 DEF before, shown, RowOf, Labels

\* The records found are those the request asks for.
LEMMA SearchedIs ==
  ASSUME NEW e, NEW r, e.model = "partner"
  PROVE  /\ Searched(e, r)
              = SelectAt(Partners, {n \in DOMAIN Partners :
                   /\ e.domain = "named" => Partners[n][<<"name">>] # <<>>
                   /\ e.domainParam # "none" /\ r.domain = "placed"
                        => Partners[n][<<"country">>] # <<>>})
         /\ Searched(e, r) \in Seq({Partners[n] : n \in DOMAIN Partners})
<1>1. DomainOf(e, r) = "placed" <=> e.domainParam # "none" /\ r.domain = "placed"
  BY DEF DomainOf, Extracted
<1>2. {n \in DOMAIN Partners :
         /\ e.domain = "named" => Partners[n][<<"name">>] # <<>>
         /\ DomainOf(e, r) = "placed" => Partners[n][<<"country">>] # <<>>}
      = {n \in DOMAIN Partners :
           /\ e.domain = "named" => Partners[n][<<"name">>] # <<>>
           /\ e.domainParam # "none" /\ r.domain = "placed"
                => Partners[n][<<"country">>] # <<>>}
  BY <1>1
<1>3. Searched(e, r)
        = SelectAt(Partners, {n \in DOMAIN Partners :
             /\ e.domain = "named" => Partners[n][<<"name">>] # <<>>
             /\ DomainOf(e, r) = "placed" => Partners[n][<<"country">>] # <<>>})
  BY DEF Searched
<1>4. Partners \in Seq(PartnerType)
  BY RecordsAssumption DEF PartnerType
<1> QED
  BY <1>2, <1>3, <1>4, SelectAtElements

\* The rows of an answer are right.
LEMMA AnswersAsAsked ==
  ASSUME Archived = {}, Answerable(endpoint)
  PROVE  RowsAreAsAsked
<1> SUFFICES ASSUME NEW r \in Requests,
                    Answer(endpoint, r).status = "ok", endpoint.model = "partner"
             PROVE  LET found == SelectAt(Partners, {n \in DOMAIN Partners :
                          /\ endpoint.domain = "named" => Partners[n][<<"name">>] # <<>>
                          /\ endpoint.domainParam # "none" /\ r.domain = "placed"
                               => Partners[n][<<"country">>] # <<>>})
                        payload == Answer(endpoint, r).payload IN
                    /\ Len(payload) = Len(found)
                    /\ \A n \in DOMAIN found :
                         /\ DOMAIN payload[n] = Labels(endpoint, r)
                         /\ \A f \in ShownOf(endpoint, r) :
                              payload[n][AliasOf(endpoint.layout, f)] = Shows(found[n], f)
  BY DEF RowsAreAsAsked, Labels, ShownOf, Asked, Behind
<1>1. \A f \in Dotted(endpoint) : ValidField("partner", f)
  BY DEF Answerable
<1>2. Answer(endpoint, r).payload = Payload(endpoint, r)
  BY DEF Answer, Refusal
<1>3. Searched(endpoint, r) \in Seq({Partners[n] : n \in DOMAIN Partners})
  BY SearchedIs
<1>4. ASSUME NEW n \in DOMAIN Searched(endpoint, r)
      PROVE  /\ DOMAIN RowOf(endpoint, r, Searched(endpoint, r)[n]) = Labels(endpoint, r)
             /\ \A f \in ShownOf(endpoint, r) :
                  RowOf(endpoint, r, Searched(endpoint, r)[n])[AliasOf(endpoint.layout, f)]
                    = Shows(Searched(endpoint, r)[n], f)
  <2>1. PICK m \in DOMAIN Partners : Searched(endpoint, r)[n] = Partners[m]
    BY <1>3, LenProperties, ElementOfSeq
  <2>2. Searched(endpoint, r)[n] \in PartnerType
    <3>1. Partners \in Seq(PartnerType)
      BY RecordsAssumption DEF PartnerType
    <3>2. m \in 1..Len(Partners)
      BY <3>1, LenProperties
    <3> QED
      BY <2>1, <3>1, <3>2, ElementOfSeq
  <2>3. \A k \in Relational.partner : Searched(endpoint, r)[n][<<k>>] \in Seq(Places)
    BY <2>1, RecordsAssumption
  <2>4. endpoint.layout \in Layouts
    BY DEF Answerable
  <2> QED
    BY <1>1, <2>2, <2>3, <2>4, RowShows
<1>5. Payload(endpoint, r)
        = [n \in DOMAIN Searched(endpoint, r) |-> RowOf(endpoint, r, Searched(endpoint, r)[n])]
  BY DEF Payload, RowOf
<1>6. Len(Searched(endpoint, r)) \in Nat
      /\ DOMAIN Searched(endpoint, r) = 1..Len(Searched(endpoint, r))
  BY <1>3, LenProperties
<1>7. Len(Payload(endpoint, r)) = Len(Searched(endpoint, r))
  BY <1>5, <1>6
<1>8. \A n \in DOMAIN Searched(endpoint, r) : Payload(endpoint, r)[n] = RowOf(endpoint, r, Searched(endpoint, r)[n])
  BY <1>5
<1> DEFINE found == SelectAt(Partners, {n \in DOMAIN Partners :
                      /\ endpoint.domain = "named" => Partners[n][<<"name">>] # <<>>
                      /\ endpoint.domainParam # "none" /\ r.domain = "placed"
                           => Partners[n][<<"country">>] # <<>>})
<1>9. found = Searched(endpoint, r)
  BY SearchedIs
<1> HIDE DEF found
<1>10. /\ Len(Answer(endpoint, r).payload) = Len(found)
       /\ \A n \in DOMAIN found :
            /\ DOMAIN Answer(endpoint, r).payload[n] = Labels(endpoint, r)
            /\ \A f \in ShownOf(endpoint, r) :
                 Answer(endpoint, r).payload[n][AliasOf(endpoint.layout, f)]
                   = Shows(found[n], f)
  BY <1>2, <1>4, <1>7, <1>8, <1>9
<1> QED
  BY <1>10 DEF found

\* An answer has the records in both domains, each with what was asked for under its label,
\* as long as no related record is archived.
THEOREM AnswersShowWhatIsAsked ==
  ASSUME Archived = {}
  PROVE  SpecEndpoints => []RowsAreAsAsked
<1>1. InitEndpoint => Answerable(endpoint)
  BY AllowedAnswers DEF InitEndpoint
<1>2. Answerable(endpoint) /\ [EditEndpoint]_<<endpoint, edits>> => Answerable(endpoint)'
  BY AnswerableKept
<1>3. Answerable(endpoint) => RowsAreAsAsked
  BY AnswersAsAsked
<1> QED
  BY <1>1, <1>2, <1>3, PTL DEF SpecEndpoints

=============================================================================
