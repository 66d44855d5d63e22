----------------------------- MODULE AuditTrail -----------------------------
(***************************************************************************)
(* The audit log of one model (auditlog): the rule that says which methods *)
(* are logged, the methods that each process of the server patches in its  *)
(* registry, and the logs that patched methods write while they call each  *)
(* other.                                                                  *)
(*                                                                         *)
(* A record has one logged field.  "cache" is its value as the program     *)
(* sees it, "db" the row as the transaction sees it: a write reaches the   *)
(* row when it is flushed.  One transaction runs at a time: a transaction  *)
(* reads its own snapshot and two that write one record conflict.  A       *)
(* process serves one request at a time and looks for signals before it.   *)
(***************************************************************************)
EXTENDS Integers, SequencesExt

CONSTANTS
  Procs,       \* processes of the server
  Recs,        \* records of the model
  Vals,        \* values of the field
  Falsy,       \* the one of them that Python takes for False: False, 0 or ""
  None,        \* no process
  Rules,       \* choices of the administrator: sets of methods and log types
  Rewrites,    \* may overrides write some of the records of a call, or others twice?
  MaxDepth,    \* bound: calls within calls
  MaxCalls,    \* bound: calls of a transaction
  MaxRequests, \* bound: requests that are served
  MaxRetries,  \* bound: conflicts, after which the request is run again
  MaxEvents,   \* bound: changes of the rule and restarts of processes
  MaxBefore    \* bound: those of them that come before a request

Methods == {"create", "read", "write", "unlink", "export_data"}
Absent == "absent"   \* a record that is not created yet
Gone == "gone"       \* one that was deleted
Unknown == "unknown" \* a value that is not in the log; the new value of a read

ASSUME AuditAssumption ==
  /\ None \notin Procs
  /\ Falsy \in Vals
  /\ Vals \cap {Absent, Gone, Unknown} = {}
  /\ Rules \subseteq [logs : SUBSET Methods, type : {"full", "fast"}]
  /\ Rewrites \in BOOLEAN
  /\ MaxDepth \in Nat /\ MaxCalls \in Nat
  /\ MaxRequests \in Nat /\ MaxRetries \in Nat
  /\ MaxEvents \in Nat /\ MaxBefore \in Nat

VARIABLES
  state,    \* of the rule: none, draft, confirmed
  rule,     \* its ticked methods and its type
  patched,  \* [p |-> [m |-> how process p logs method m: no, full, fast]]
  outdated, \* processes that load their registry before the next request
  signal,   \* a process that has yet to signal a change of its registry
  astray,   \* history: processes that were left behind, see Committed and RolledBack
  events,   \* changes and restarts so far
  proc,     \* the process whose request runs
  excluded, \* is its user one of those the rule excludes?
  stack,    \* calls under way, the innermost last
  guard,    \* sets of records in the context of the innermost call
  base,     \* value of each record before the transaction
  db, cache,
  trail,    \* [r |-> logs of r in this transaction]
  served, calls, retries,
  request,  \* auditlog_http_request_id, kept by the HTTP request over retries
  rows,     \* rows of auditlog.http.request
  refs      \* requests that logs refer to

ruleVars == <<state, rule, patched, outdated, signal, astray, events>>
txVars == <<proc, excluded, stack, guard, base, db, cache, trail, served, calls,
            retries, request, rows, refs>>
vars == <<ruleVars, txVars>>

Unpatched == [m \in Methods |-> "no"]
Values == Vals \cup {Absent, Gone}

Init ==
  /\ state = "none"
  /\ rule \in Rules
  /\ patched = [p \in Procs |-> Unpatched]
  /\ outdated = {} /\ signal = None /\ astray = {} /\ events = 0
  /\ proc = None /\ excluded = FALSE
  /\ stack = <<>> /\ guard = {}
  /\ base \in [Recs -> {Absent, Falsy}]
  /\ db = base /\ cache = base
  /\ trail = [r \in Recs |-> <<>>]
  /\ served = 0 /\ calls = 0 /\ retries = 0
  /\ request = 0 /\ rows = {} /\ refs = {}

-----------------------------------------------------------------------------
\* The rule.  Its buttons and its form are used in a process that is up to date.

CanAdminister(p) ==
  /\ proc = None /\ signal = None /\ p \notin outdated
  /\ events < MaxEvents
  /\ events' = events + 1
  /\ UNCHANGED <<txVars, outdated>>

\* What _patch_methods makes of the methods of a process: ticked methods of a
\* confirmed rule are patched unless they are already.
PatchMethods(methods, s, r) ==
  [m \in Methods |->
    IF s = "confirmed" /\ m \in r.logs /\ methods[m] = "no" THEN r.type ELSE methods[m]]

\* What _revert_methods leaves: only methods that are still ticked are restored.
RevertMethods(methods) ==
  [m \in Methods |-> IF m \in rule.logs THEN "no" ELSE methods[m]]

\* MUTANT: the other processes are not told when methods are restored.
UpdateOwn(p, methods, imported) ==
  signal' = IF \E m \in Methods : methods[m] # "no" THEN p ELSE None

\* _update_registry: what p has patched or restored the other processes are to be told,
\* unless it is an import.  (Nor are they while a module is loaded, but Odoo tells them
\* of that itself.)
Update(p, methods, imported) ==
  signal' = IF methods # patched[p] /\ ~imported THEN p ELSE None

\* A change of the rule is committed.  An import leaves the others behind; and so may
\* everybody be by a process that has itself been left behind, since it does not see
\* what it changes, and by a rule that is edited when it is confirmed, since what it
\* ticked stays patched.
Committed(p, s, r, methods, imported) ==
  /\ state' = s /\ rule' = r
  /\ Update(p, methods, imported)
  /\ astray' = IF p \in astray \/ (state = "confirmed" /\ s = "confirmed") THEN Procs
               ELSE IF imported /\ methods # patched[p] THEN astray \cup (Procs \ {p})
               ELSE astray

\* It is rolled back, by an error, a conflict or the test of an import: the methods stay
\* as they are, and what was to be told is forgotten.
RolledBack(p) ==
  /\ UNCHANGED <<state, rule, signal>>
  /\ astray' = astray \cup {p}

Change(p, s, r, methods, imported) ==
  /\ CanAdminister(p)
  /\ patched' = [patched EXCEPT ![p] = methods]
  /\ Committed(p, s, r, methods, imported) \/ RolledBack(p)

\* create; an import, or a program, may create a rule that is confirmed.
CreateRule(p, s, r, imported) ==
  /\ state = "none"
  /\ Change(p, s, r, PatchMethods(patched[p], s, r), imported)

\* write, of ticks and type.  They are readonly in the form of a confirmed rule, not in an
\* import, nor in a form that was opened before.
EditRule(p, r, imported) ==
  /\ state # "none" /\ r # rule
  /\ Change(p, state, r, PatchMethods(patched[p], state, r), imported)

\* set_to_confirmed, or an import that writes the state
SetToConfirmed(p, imported) ==
  /\ state = "draft"
  /\ Change(p, "confirmed", rule, PatchMethods(patched[p], "confirmed", rule), imported)

SetToDraft(p) ==
  /\ state = "confirmed"
  /\ Change(p, "draft", rule, RevertMethods(patched[p]), FALSE)

UnlinkRule(p) ==
  /\ state # "none"
  /\ Change(p, "none", rule, RevertMethods(patched[p]), FALSE)

Administer(p) ==
  \/ \E r \in Rules, imported \in BOOLEAN :
       EditRule(p, r, imported) \/ \E s \in {"draft", "confirmed"} : CreateRule(p, s, r, imported)
  \/ \E imported \in BOOLEAN : SetToConfirmed(p, imported)
  \/ SetToDraft(p) \/ UnlinkRule(p)

\* Odoo, after the commit: the other workers load their registry again.
Signal ==
  /\ signal # None
  /\ outdated' = outdated \cup (Procs \ {signal})
  /\ signal' = None
  /\ UNCHANGED <<txVars, state, rule, patched, astray, events>>

\* A new registry calls _register_hook, which patches what confirmed rules tick.
RegisterHook(p) ==
  /\ patched' = [patched EXCEPT ![p] = PatchMethods(Unpatched, state, rule)]
  /\ outdated' = outdated \ {p} /\ astray' = astray \ {p}
  /\ UNCHANGED <<txVars, state, rule, signal>>

Reload(p) == p \in outdated /\ proc # p /\ RegisterHook(p) /\ UNCHANGED events

Restart(p) ==
  /\ proc # p /\ signal # p
  /\ events < MaxEvents
  /\ events' = events + 1
  /\ RegisterHook(p)

-----------------------------------------------------------------------------
\* Calls.

How(m) == patched[proc][m]
Live(ids) == \A r \in ids : cache[r] \in Vals
Top == stack[Len(stack)]
Busy(ids) == \E i \in DOMAIN stack : stack[i].ids = ids
Writing(ids) == \E i \in DOMAIN stack : stack[i].op = "write" /\ stack[i].ids = ids

\* Part of the records that are being written, or records that were written in the
\* same context and no longer are: see ChangesTold.
IsRewrite(ids) ==
  \/ ids \in guard /\ ~Writing(ids)
  \/ \E i \in DOMAIN stack :
       stack[i].op = "write" /\ stack[i].ids # ids /\ stack[i].ids \cap ids # {}

\* MUTANT: the attribute of the request is trusted.
CurrentHttpRequestTrusted ==
  /\ request' = IF request # 0 THEN request ELSE request + 1
  /\ rows' = IF request # 0 THEN rows ELSE rows \cup {request'}

\* current_http_request: the row is made anew if a retry has rolled it back.
CurrentHttpRequest ==
  /\ request' = IF request \in rows THEN request ELSE request + 1
  /\ rows' = rows \cup {request'}

\* create_logs with the lines found for each record; none for an excluded user.
CreateLogs(mode, lines) ==
  IF mode = "no" \/ excluded
  THEN UNCHANGED <<trail, request, rows, refs>>
  ELSE /\ trail' = [r \in Recs |->
                      IF r \in DOMAIN lines THEN trail[r] \o lines[r] ELSE trail[r]]
       /\ CurrentHttpRequest
       /\ refs' = IF trail' = trail THEN refs ELSE refs \cup {request'}

Begin(p, ex) ==
  /\ proc = None /\ p \notin outdated
  /\ served < MaxRequests /\ events <= MaxBefore
  /\ served' = served + 1
  /\ proc' = p /\ excluded' = ex
  /\ UNCHANGED <<ruleVars, stack, guard, base, db, cache, trail, calls, retries,
                 request, rows, refs>>

\* ThrowAwayCache: values are read from the rows, whatever is pending.
Rows(ids) == [r \in ids |-> db[r]]

Push(op, ids, val, mode) ==
  /\ proc # None
  /\ Len(stack) < MaxDepth /\ calls < MaxCalls
  /\ calls' = calls + 1
  /\ stack' = Append(stack, [op |-> op, ids |-> ids, val |-> val, mode |-> mode,
                             after |-> FALSE, first |-> guard = {},
                             old |-> Rows(ids)])
  /\ UNCHANGED <<ruleVars, proc, excluded, base, db, cache, served, retries>>

\* The method of the model itself has run; overrides may make more calls.
Passed == stack' = [stack EXCEPT ![Len(stack)].after = TRUE]

Pop ==
  /\ stack' = Front(stack)
  /\ guard' = IF Top.first THEN {} ELSE guard
  /\ UNCHANGED <<ruleVars, proc, excluded, base, served, calls, retries>>

\* MUTANT: any write within a logged write is left to its log.
GuardedModeAny(ids) == IF How("write") = "full" /\ guard # {} THEN "no" ELSE How("write")

\* A write of records that are being written, or were, is left to the log of that
\* write: the guard is one set, which every call of this context adds to.
GuardedMode(ids) == IF How("write") = "full" /\ ids \in guard THEN "no" ELSE How("write")

BeginWrite(ids, v) ==
  /\ ids # {} /\ Live(ids)
  /\ Rewrites \/ ~IsRewrite(ids)
  /\ Push("write", ids, v, GuardedMode(ids))
  /\ guard' = IF GuardedMode(ids) = "full" THEN guard \cup {ids} ELSE guard
  /\ UNCHANGED <<trail, request, rows, refs>>

Write ==
  /\ stack # <<>> /\ Top.op = "write" /\ ~Top.after
  /\ Live(Top.ids)
  /\ cache' = [r \in Recs |-> IF r \in Top.ids THEN Top.val ELSE cache[r]]
  /\ Passed
  /\ UNCHANGED <<ruleVars, proc, excluded, guard, base, db, trail, served, calls,
                 retries, request, rows, refs>>

\* Full: the values before the call, read from the rows, against those after it,
\* which are flushed first.  Fast: False against the values given.
WriteLines ==
  [r \in {x \in Top.ids : cache[x] \in Vals} |->
    IF Top.mode = "full"
    THEN IF Top.old[r] # cache[r] THEN <<[old |-> Top.old[r], new |-> cache[r]]>> ELSE <<>>
    ELSE IF Top.val # Falsy THEN <<[old |-> Unknown, new |-> Top.val]>> ELSE <<>>]

EndWrite ==
  /\ stack # <<>> /\ Top.op = "write" /\ Top.after
  /\ Top.mode = "fast" => Live(Top.ids)
  /\ db' = IF Top.mode = "full"
           THEN [r \in Recs |-> IF r \in Top.ids THEN cache[r] ELSE db[r]] ELSE db
  /\ CreateLogs(Top.mode, WriteLines)
  /\ Pop
  /\ UNCHANGED cache

BeginCreate(r, v) ==
  /\ cache[r] = Absent /\ ~Busy({r})
  /\ Push("create", {r}, v, How("create"))
  /\ UNCHANGED <<guard, trail, request, rows, refs>>

\* The row is inserted at once.
Create ==
  /\ stack # <<>> /\ Top.op = "create" /\ ~Top.after
  /\ \A r \in Top.ids : cache[r] = Absent
  /\ cache' = [r \in Recs |-> IF r \in Top.ids THEN Top.val ELSE cache[r]]
  /\ db' = [r \in Recs |-> IF r \in Top.ids THEN Top.val ELSE db[r]]
  /\ Passed
  /\ UNCHANGED <<ruleVars, proc, excluded, guard, base, trail, served, calls,
                 retries, request, rows, refs>>

\* Full: what the rows say, flushed or not.  Fast: the values given.
CreateLines ==
  [r \in Top.ids |->
    <<[old |-> Absent, new |-> IF Top.mode = "full" THEN Rows(Top.ids)[r] ELSE Top.val]>>]

EndCreate ==
  /\ stack # <<>> /\ Top.op = "create" /\ Top.after
  /\ Live(Top.ids)
  /\ CreateLogs(Top.mode, CreateLines)
  /\ Pop
  /\ UNCHANGED <<db, cache>>

\* The values before the deletion as the program sees them, if the log is full.
UnlinkLines(ids) ==
  [r \in ids |->
    <<[old |-> IF How("unlink") = "full" THEN cache[r] ELSE Unknown, new |-> Gone]>>]

\* Logged before the records are deleted.
BeginUnlink(ids) ==
  /\ ids # {} /\ Live(ids)
  /\ Push("unlink", ids, Gone, How("unlink"))
  /\ CreateLogs(How("unlink"), UnlinkLines(ids))
  /\ UNCHANGED guard

Unlink ==
  /\ stack # <<>> /\ Top.op = "unlink" /\ ~Top.after
  /\ Live(Top.ids)
  /\ cache' = [r \in Recs |-> IF r \in Top.ids THEN Gone ELSE cache[r]]
  /\ db' = cache'
  /\ Passed
  /\ UNCHANGED <<ruleVars, proc, excluded, guard, base, trail, served, calls,
                 retries, request, rows, refs>>

EndUnlink ==
  /\ stack # <<>> /\ Top.op = "unlink" /\ Top.after
  /\ Pop
  /\ UNCHANGED <<db, cache, trail, request, rows, refs>>

\* What is read within a call that is patched is not logged, excluded user or not.
ReadsLogged == IF \E i \in DOMAIN stack : stack[i].mode # "no" THEN "no" ELSE How("read")

ReadLines(ids) == [r \in ids |-> <<[old |-> cache[r], new |-> Unknown]>>]

Called ==
  /\ proc # None /\ calls < MaxCalls
  /\ calls' = calls + 1
  /\ UNCHANGED <<ruleVars, proc, excluded, stack, guard, base, db, cache, served, retries>>

Read(ids) ==
  /\ Called
  /\ ids # {} /\ Live(ids)
  /\ ReadsLogged # "no"
  /\ CreateLogs(ReadsLogged, ReadLines(ids))

\* One log, of no record in particular
ExportData ==
  /\ Called
  /\ How("export_data") # "no" /\ ~excluded
  /\ CurrentHttpRequest
  /\ refs' = refs \cup {request'}
  /\ UNCHANGED trail

\* Any search flushes what is pending.
Flush ==
  /\ proc # None /\ db # cache
  /\ db' = cache
  /\ UNCHANGED <<ruleVars, proc, excluded, stack, guard, base, cache, trail, served,
                 calls, retries, request, rows, refs>>

Over(values) ==
  /\ base' = values /\ db' = values /\ cache' = values
  /\ stack' = <<>> /\ guard' = {}
  /\ trail' = [r \in Recs |-> <<>>]
  /\ calls' = 0 /\ rows' = {} /\ refs' = {}
  /\ UNCHANGED <<ruleVars, served>>

Commit ==
  /\ proc # None /\ stack = <<>>
  /\ Over(cache)
  /\ proc' = None /\ excluded' = FALSE /\ request' = 0 /\ retries' = 0

\* An exception reaches the user.
Abort ==
  /\ proc # None
  /\ Over(base)
  /\ proc' = None /\ excluded' = FALSE /\ request' = 0 /\ retries' = 0

\* A conflict: Odoo rolls back and runs the same HTTP request once more.
Retry ==
  /\ proc # None /\ retries < MaxRetries
  /\ Over(base)
  /\ retries' = retries + 1
  /\ UNCHANGED <<proc, excluded, request>>

Next ==
  \/ \E p \in Procs : Administer(p) \/ Reload(p) \/ Restart(p) \/ \E ex \in BOOLEAN : Begin(p, ex)
  \/ Signal
  \/ \E ids \in SUBSET Recs : Read(ids) \/ BeginUnlink(ids) \/ \E v \in Vals : BeginWrite(ids, v)
  \/ \E r \in Recs, v \in Vals : BeginCreate(r, v)
  \/ Write \/ EndWrite \/ Create \/ EndCreate \/ Unlink \/ EndUnlink
  \/ ExportData \/ Flush \/ Commit \/ Abort \/ Retry

Spec == Init /\ [][Next]_vars
-----------------------------------------------------------------------------
\* Properties.

\* Every process that has heard of the last change logs the methods that the
\* confirmed rule ticks, as its type says, and no others: registering, restoring
\* and signalling work on what each process happens to have patched.  This is not so of
\* processes that were left behind by an import, by a change that was rolled back, by
\* ticks that were edited on a confirmed rule, or by changes made in such a process: they
\* stay as they are until their registry is loaded again.
PatchesFollowRule ==
  signal = None =>
    \A p \in Procs \ (outdated \cup astray) :
      patched[p] = PatchMethods(Unpatched, state, rule)

Finished(type) ==
  /\ proc # None /\ stack = <<>> /\ ~excluded
  /\ \A m \in {"create", "write", "unlink"} : How(m) = type

Changed == {r \in Recs : cache[r] # base[r]}

\* The logs of a record that are not of a read.
Told(r) == {i \in DOMAIN trail[r] : trail[r][i].new # Unknown}

\* When the calls of a transaction are over, the full log tells every record that
\* has changed: from the value it had, to the value it has, which comes last; or
\* that it was deleted.  The fast log has the values that were assigned, except those
\* that Python takes for False: write_fast compares with False.  However overrides
\* write other records, or the same ones, before and after the method itself, whatever
\* is flushed in between.
ChangesTold ==
  /\ Finished("full") =>
       \A r \in Changed :
         IF cache[r] = Gone THEN \E i \in Told(r) : trail[r][i].new = Gone
         ELSE /\ \E i \in Told(r) : trail[r][i].old = base[r]
              /\ \E i \in Told(r) : /\ trail[r][i].new = cache[r]
                                   /\ \A k \in Told(r) : k <= i
  /\ Finished("fast") =>
       \A r \in Changed :
         cache[r] = Falsy \/ \E i \in Told(r) : trail[r][i].new = cache[r]

\* Whatever was rolled back, a log refers to a request that exists.
RequestsExist == refs \subseteq rows
=============================================================================
