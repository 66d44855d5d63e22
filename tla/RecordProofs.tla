---------------------------- MODULE RecordProofs ----------------------------
(***************************************************************************)
(* Proofs about AuditTrail, for every set of processes, records, values    *)
(* and rules and every value of the bounds; about LineTracking, for any    *)
(* lines and owners; and about ImportMatch, for any records, columns and   *)
(* file of rows.                                                           *)
(***************************************************************************)
EXTENDS AuditTrail, LineTracking, ImportMatch, FiniteSetTheorems, SequenceTheorems, TLAPS

(***************************************************************************)
(* PatchesFollowRule is about the moments at which everybody is told; the  *)
(* inductive invariant also says what holds while a signal is pending: who *)
(* is not in line is outdated, is among those that will be told, or was    *)
(* left behind.                                                            *)
(***************************************************************************)

Ticked == PatchMethods(Unpatched, state, rule)

RuleTypes ==
  /\ state \in {"none", "draft", "confirmed"}
  /\ patched \in [Procs -> [Methods -> {"no"} \cup {r.type : r \in Rules}]]
  /\ rule \in Rules
  /\ outdated \subseteq Procs /\ astray \subseteq Procs
  /\ signal \in Procs \cup {None}

InLineOrTold ==
  \A p \in Procs :
    \/ patched[p] = Ticked
    \/ p \in outdated \cup astray
    \/ signal # None /\ signal # p

RuleInv == RuleTypes /\ InLineOrTold

\* Only a confirmed rule patches.
LEMMA OnlyConfirmed ==
  ASSUME NEW s, NEW r, s # "confirmed"
  PROVE  PatchMethods(Unpatched, s, r) = Unpatched
  BY DEF PatchMethods, Unpatched

\* What a rule has patched it restores.
LEMMA Restored ==
  RevertMethods(Ticked) = Unpatched
  BY DEF Ticked, RevertMethods, PatchMethods, Unpatched

\* Patching yields what is ticked or what was there.
LEMMA PatchedType ==
  ASSUME NEW s, NEW r \in Rules,
         NEW methods \in [Methods -> {"no"} \cup {x.type : x \in Rules}]
  PROVE  /\ PatchMethods(methods, s, r) \in [Methods -> {"no"} \cup {x.type : x \in Rules}]
         /\ RevertMethods(methods) \in [Methods -> {"no"} \cup {x.type : x \in Rules}]
  BY DEF PatchMethods, RevertMethods

\* Types of a registry without patches.
LEMMA UnpatchedType ==
  Unpatched \in [Methods -> {"no"} \cup {r.type : r \in Rules}]
  BY DEF Unpatched

\* Before the rule is confirmed all processes have no patches.
LEMMA InitRule == Init => RuleInv
  BY OnlyConfirmed, UnpatchedType
  DEF Init, RuleInv, RuleTypes, InLineOrTold, Ticked

\* An administrator changes the rule in a process that is up to date, and its own
\* registry follows, if it was in line.  If nothing changes there, nothing is to be told:
\* the others that are in line have the same methods.
LEMMA Administered ==
  ASSUME RuleInv, NEW p \in Procs, NEW s \in {"none", "draft", "confirmed"}, NEW r \in Rules,
         NEW methods \in {PatchMethods(patched[p], s, r), RevertMethods(patched[p])},
         NEW imported \in BOOLEAN, Change(p, s, r, methods, imported),
         patched[p] = Ticked =>
           methods = PatchMethods(Unpatched, s, r) \/ (state = "confirmed" /\ s = "confirmed")
  PROVE  RuleInv'
<1>1. /\ CanAdminister(p) /\ outdated' = outdated /\ signal = None /\ p \notin outdated
      /\ patched' = [patched EXCEPT ![p] = methods]
  BY DEF Change, CanAdminister
<1>2. methods \in [Methods -> {"no"} \cup {x.type : x \in Rules}]
  <2> DEFINE M == [Methods -> {"no"} \cup {x.type : x \in Rules}]
  <2>1. patched \in [Procs -> M]
    BY DEF RuleInv, RuleTypes
  <2>2. \A m \in M : PatchMethods(m, s, r) \in M /\ RevertMethods(m) \in M
    BY PatchedType
  <2> HIDE DEF M
  <2>3. methods \in M
    BY <2>1, <2>2
  <2> QED
    BY <2>3 DEF M
<1>3. CASE RolledBack(p)
  <2>1. Ticked' = Ticked
    BY <1>3 DEF RolledBack, Ticked, PatchMethods
  <2> QED
    BY <1>1, <1>2, <1>3, <2>1 DEF RolledBack, RuleInv, RuleTypes, InLineOrTold
<1>4. CASE Committed(p, s, r, methods, imported)
  <2>1. Ticked' = PatchMethods(Unpatched, s, r)
    BY <1>4 DEF Committed, Ticked, PatchMethods
  <2>2. RuleTypes'
    BY <1>1, <1>2, <1>4 DEF Committed, Update, RuleInv, RuleTypes
  <2>3. CASE p \in astray \/ (state = "confirmed" /\ s = "confirmed")
    BY <1>4, <2>2, <2>3 DEF Committed, RuleInv, InLineOrTold
  <2>4. CASE ~(p \in astray \/ (state = "confirmed" /\ s = "confirmed"))
    <3>1. patched[p] = Ticked /\ methods = Ticked'
      BY <1>1, <2>1, <2>4 DEF RuleInv, InLineOrTold
    <3>2. astray \subseteq astray' /\ patched'[p] = methods
      BY <1>1, <1>4, <2>4 DEF Committed, RuleInv, RuleTypes
    <3>3. CASE methods = patched[p]
      <4>1. patched' = patched
        BY <1>1, <3>3 DEF RuleInv, RuleTypes
      <4> QED
        BY <1>1, <2>2, <3>1, <3>2, <3>3, <4>1 DEF RuleInv, InLineOrTold
    <3>4. CASE methods # patched[p] /\ imported
      <4>1. Procs \ {p} \subseteq astray'
        BY <1>4, <2>4, <3>4 DEF Committed
      <4> QED
        BY <2>2, <3>1, <3>2, <4>1 DEF RuleInv, InLineOrTold
    <3>5. CASE methods # patched[p] /\ ~imported
      <4>1. signal' = p
        BY <1>4, <3>5 DEF Committed, Update
      <4> QED
        BY <2>2, <3>1, <3>2, <4>1, AuditAssumption DEF RuleInv, InLineOrTold, AuditAssumption
    <3> QED
      BY <3>3, <3>4, <3>5
  <2> QED
    BY <2>3, <2>4
<1> QED
  BY <1>3, <1>4 DEF Change

\* Every step keeps it.
LEMMA RuleStep ==
  ASSUME RuleInv, [Next]_vars
  PROVE  RuleInv'
<1> DEFINE Same == UNCHANGED ruleVars
<1>0. /\ state \in {"none", "draft", "confirmed"} /\ rule \in Rules
      /\ \A p \in Procs : \A s, r : patched[p] = Ticked /\ state # "confirmed" =>
           PatchMethods(patched[p], s, r) = PatchMethods(Unpatched, s, r)
  BY OnlyConfirmed DEF RuleInv, RuleTypes, Ticked
<1>1. ASSUME Same PROVE RuleInv'
  BY <1>1 DEF RuleInv, RuleTypes, InLineOrTold, Ticked, ruleVars, PatchMethods
<1>2. ASSUME NEW p \in Procs, NEW r \in Rules, NEW imported \in BOOLEAN,
             NEW s \in {"draft", "confirmed"}, CreateRule(p, s, r, imported)
      PROVE  RuleInv'
  BY <1>0, <1>2, Administered DEF CreateRule
<1>3. ASSUME NEW p \in Procs, NEW r \in Rules, NEW imported \in BOOLEAN,
             EditRule(p, r, imported)
      PROVE  RuleInv'
  BY <1>0, <1>3, Administered DEF EditRule
<1>4. ASSUME NEW p \in Procs, NEW imported \in BOOLEAN, SetToConfirmed(p, imported)
      PROVE  RuleInv'
  BY <1>0, <1>4, Administered DEF SetToConfirmed
<1>5. ASSUME NEW p \in Procs, SetToDraft(p) \/ UnlinkRule(p) PROVE RuleInv'
  <2>1. patched[p] = Ticked => \A s : s # "confirmed" =>
          RevertMethods(patched[p]) = PatchMethods(Unpatched, s, rule)
    BY OnlyConfirmed, Restored
  <2>2. PICK s \in {"none", "draft"} : Change(p, s, rule, RevertMethods(patched[p]), FALSE)
    BY <1>5 DEF SetToDraft, UnlinkRule
  <2> QED
    BY <1>0, <2>1, <2>2, Administered
<1> USE DEF RuleInv
<1>6. CASE Signal
  BY <1>6 DEF Signal, RuleTypes, InLineOrTold, Ticked, PatchMethods
<1>7. ASSUME NEW p \in Procs, RegisterHook(p) PROVE RuleInv'
  <2>1. Ticked' = Ticked /\ patched' = [patched EXCEPT ![p] = Ticked]
    BY <1>7 DEF RegisterHook, Ticked
  <2>2. Ticked \in [Methods -> {"no"} \cup {r.type : r \in Rules}]
    BY PatchedType, UnpatchedType DEF RuleTypes, Ticked
  <2> QED
    BY <1>7, <2>1, <2>2 DEF RegisterHook, RuleTypes, InLineOrTold
<1>8. ASSUME NEW p \in Procs, NEW ex \in BOOLEAN, Begin(p, ex) PROVE RuleInv'
  BY <1>1, <1>8 DEF Begin
<1>9. ASSUME NEW ids \in SUBSET Recs,
             Read(ids) \/ BeginUnlink(ids) \/ \E v \in Vals : BeginWrite(ids, v)
      PROVE  RuleInv'
  BY <1>1, <1>9 DEF Read, Called, BeginUnlink, BeginWrite, Push
<1>10. ASSUME NEW r \in Recs, NEW v \in Vals, BeginCreate(r, v) PROVE RuleInv'
  BY <1>1, <1>10 DEF BeginCreate, Push
<1>11. ASSUME \/ Write \/ EndWrite \/ Create \/ EndCreate \/ Unlink \/ EndUnlink
              \/ ExportData \/ Flush \/ Commit \/ Abort \/ Retry
       PROVE  RuleInv'
  BY <1>1, <1>11
  DEF Write, EndWrite, Create, EndCreate, Unlink, EndUnlink, ExportData, Called,
      Flush, Commit, Abort, Retry, Over, Pop
<1>12. CASE UNCHANGED vars
  BY <1>12, <1>1 DEF vars
<1> HIDE DEF RuleInv, Same
<1> QED
  BY <1>2, <1>3, <1>4, <1>5, <1>6, <1>7, <1>8, <1>9, <1>10, <1>11, <1>12
  DEF Next, Administer, Reload, Restart

\* Every process that has heard of the last change of the rule logs the methods
\* the rule ticks, for any number of processes and rules, whatever restarts and
\* whichever process is told last; but for those that an import, a change that was rolled
\* back, or the ticks of a rule edited when it is confirmed have left behind
\* (auditlog_rule.py, write, _patch_methods and _update_registry).
THEOREM RegistriesFollow == Spec => []PatchesFollowRule
<1>1. RuleInv => PatchesFollowRule
  BY DEF RuleInv, RuleTypes, InLineOrTold, PatchesFollowRule, Ticked
<1>2. RuleInv /\ [Next]_vars => RuleInv'
  BY RuleStep
<1> QED
  BY <1>1, <1>2, InitRule, PTL DEF Spec

-----------------------------------------------------------------------------

\* Logs are created together with a request that exists.
LEMMA LogsRefer ==
  ASSUME RequestsExist, NEW mode, NEW logged, CreateLogs(mode, logged)
  PROVE  RequestsExist'
  BY DEF RequestsExist, CreateLogs, CurrentHttpRequest

\* No log refers to a request that was rolled back, however often the request is
\* run again (auditlog_http_request.py, current_http_request).
THEOREM LogsHaveRequests == Spec => []RequestsExist
<1>1. Init => RequestsExist
  BY DEF Init, RequestsExist
<1>2. ASSUME RequestsExist, [Next]_vars PROVE RequestsExist'
  <2> DEFINE Same == UNCHANGED <<rows, refs>>
  <2>1. ASSUME Same PROVE RequestsExist'
    BY <1>2, <2>1 DEF RequestsExist
  <2>2. ASSUME NEW p \in Procs,
               Administer(p) \/ Reload(p) \/ Restart(p) \/ \E ex \in BOOLEAN : Begin(p, ex)
        PROVE  RequestsExist'
    BY <2>1, <2>2
    DEF Administer, CreateRule, EditRule, UnlinkRule, SetToConfirmed, SetToDraft, Change,
        Reload, Restart, Begin, CanAdminister, RegisterHook, txVars
  <2>3. ASSUME \/ Signal \/ Write \/ Create \/ Unlink \/ EndUnlink \/ Flush
        PROVE  RequestsExist'
    BY <2>1, <2>3 DEF Signal, Write, Create, Unlink, EndUnlink, Flush, txVars
  <2>4. ASSUME \/ \E r \in Recs, v \in Vals : BeginCreate(r, v)
               \/ \E ids \in SUBSET Recs, v \in Vals : BeginWrite(ids, v)
        PROVE  RequestsExist'
    BY <2>1, <2>4 DEF BeginCreate, BeginWrite
  <2>5. ASSUME NEW ids \in SUBSET Recs, Read(ids) \/ BeginUnlink(ids)
        PROVE  RequestsExist'
    BY <1>2, <2>5, LogsRefer DEF Read, BeginUnlink
  <2>6. CASE EndWrite \/ EndCreate
    BY <1>2, <2>6, LogsRefer DEF EndWrite, EndCreate
  <2>7. CASE ExportData
    BY <1>2, <2>7 DEF ExportData, CurrentHttpRequest, RequestsExist
  <2>8. CASE Commit \/ Abort \/ Retry
    BY <2>8 DEF Commit, Abort, Retry, Over, RequestsExist
  <2>9. CASE UNCHANGED vars
    BY <2>1, <2>9 DEF vars, txVars
  <2> QED
    BY <1>2, <2>2, <2>3, <2>4, <2>5, <2>6, <2>7, <2>8, <2>9 DEF Next
<1> QED
  BY <1>1, <1>2, PTL DEF Spec
-----------------------------------------------------------------------------
(***************************************************************************)
(* ChangesTold.  The invariant follows the calls of a transaction.  In a   *)
(* full log, a record is told up to the value it had when the outermost of *)
(* the writes under way began, or up to its value if there is none.        *)
(***************************************************************************)

Modes == {"no", "full", "fast"}
Ops == {"create", "write", "unlink"}
Logs == [old : Values \cup {Unknown}, new : Values \cup {Unknown}]
Frames == [op : Ops, ids : SUBSET Recs, val : Vals \cup {Gone}, mode : Modes,
           after : BOOLEAN, first : BOOLEAN,
           old : UNION {[ids -> Values] : ids \in SUBSET Recs}]

\* Types of what belongs to a transaction.
TxTypes ==
  /\ rule \in Rules
  /\ patched \in [Procs -> [Methods -> Modes]]
  /\ proc \in Procs \cup {None}
  /\ stack \in Seq(Frames)
  /\ \A i \in DOMAIN stack :
       /\ stack[i].old \in [stack[i].ids -> Values]
       /\ stack[i].op # "unlink" => stack[i].val \in Vals
  /\ base \in [Recs -> Values] /\ db \in [Recs -> Values] /\ cache \in [Recs -> Values]
  /\ trail \in [Recs -> Seq(Logs)]

\* A transaction that has done nothing yet.
Untouched ==
  /\ stack = <<>> /\ guard = {}
  /\ db = base /\ cache = base /\ trail = [r \in Recs |-> <<>>]

IdleInv == proc = None => Untouched

\* Calls under way by what they do, and those whose log tells both values.
Is(i, op) == i \in DOMAIN stack /\ stack[i].op = op
On(i, op, r) == Is(i, op) /\ r \in stack[i].ids
Full(i) == Is(i, "write") /\ stack[i].mode = "full"

\* Calls are logged as the registry says, but for writes left to the log of another.
ModeInv ==
  \A i \in DOMAIN stack :
    \/ stack[i].mode = How(stack[i].op)
    \/ stack[i].op = "write" /\ stack[i].mode = "no" /\ How("write") = "full"

\* A record is created once, by one call, written after that, and deleted once.
LifeInv ==
  /\ \A r \in Recs : cache[r] = Absent => base[r] = Absent
  /\ \A r \in Recs : base[r] = Gone => cache[r] = Gone
  /\ \A i \in DOMAIN stack : \A r \in Recs :
       On(i, "write", r) \/ On(i, "unlink", r) => cache[r] # Absent
  /\ \A i \in DOMAIN stack : Is(i, "create") =>
       \E r \in Recs : /\ stack[i].ids = {r} /\ base[r] = Absent
                       /\ stack[i].after <=> cache[r] # Absent
  /\ \A i, j \in DOMAIN stack : \A r \in Recs :
       On(i, "create", r) /\ On(j, "create", r) => i = j
  /\ \A i, j \in DOMAIN stack : \A r \in Recs :
       On(i, "create", r) /\ On(j, "write", r) => i < j
  /\ \A i \in DOMAIN stack : \A r \in Recs :
       On(i, "unlink", r) /\ stack[i].after => cache[r] = Gone

\* The guard has the records of the writes that tell them; every other write of
\* the same records is within that one.
GuardInv ==
  /\ \A i \in DOMAIN stack : Full(i) => stack[i].ids \in guard
  /\ \A i, j \in DOMAIN stack : Full(i) /\ i < j => ~stack[j].first
  /\ proc # None /\ How("write") = "full" =>
       \A j \in DOMAIN stack : Is(j, "write") =>
         \E i \in DOMAIN stack : Full(i) /\ i <= j /\ stack[i].ids = stack[j].ids
  /\ \A i, j \in DOMAIN stack :
       Is(i, "write") /\ Is(j, "write") /\ stack[i].ids \cap stack[j].ids # {} =>
         stack[i].ids = stack[j].ids
  /\ \A i, j \in DOMAIN stack :
       Full(i) /\ Full(j) /\ stack[i].ids = stack[j].ids => i = j

\* What the transaction does is logged in this way.
Regime(type) ==
  /\ proc # None /\ ~excluded
  /\ \A m \in Ops : How(m) = type

\* The logs of r tell its changes up to the value v.
TellsUpTo(r, v) ==
  IF Told(r) = {} THEN v = base[r]
  ELSE /\ \E i \in Told(r) : trail[r][i].old = base[r]
       /\ \E i \in Told(r) : trail[r][i].new = v /\ \A k \in Told(r) : k <= i

DeletionTold(r) == \E i \in Told(r) : trail[r][i].new = Gone

\* Neither created nor deleted by a call under way.
Steady(r) == \A i \in DOMAIN stack : ~On(i, "create", r) /\ ~On(i, "unlink", r)

\* Deletions are told before they are done.
GoneInv ==
  Regime("full") \/ Regime("fast") =>
    \A r \in Recs :
      /\ cache[r] = Gone /\ base[r] # Gone => DeletionTold(r)
      /\ \A i \in DOMAIN stack : On(i, "unlink", r) => DeletionTold(r)

\* A write under way tells r.
Covered(r) == \E i \in DOMAIN stack : Full(i) /\ r \in stack[i].ids

FullInv ==
  Regime("full") =>
    \A r \in Recs :
      /\ db[r] # cache[r] => Covered(r)
      /\ cache[r] # Gone /\ Steady(r) =>
           /\ \A i \in DOMAIN stack :
                Full(i) /\ r \in stack[i].ids => TellsUpTo(r, stack[i].old[r])
           /\ ~Covered(r) => TellsUpTo(r, cache[r])

\* In the fast log: a value is told, or will be by the call that gave it.
FastInv ==
  Regime("fast") =>
    \A r \in Recs : cache[r] \notin {base[r], Falsy, Gone} =>
      \/ \E i \in Told(r) : trail[r][i].new = cache[r]
      \/ \E i \in DOMAIN stack : /\ On(i, "create", r) \/ On(i, "write", r)
                                 /\ stack[i].after /\ stack[i].val = cache[r]

CallInv == ModeInv /\ LifeInv /\ GuardInv
ToldInv == GoneInv /\ FullInv /\ FastInv
TxInv == TxTypes /\ IdleInv /\ CallInv /\ ToldInv

-----------------------------------------------------------------------------
\* The call that Push puts on top
NewCall(op, ids, val, mode) ==
  [op |-> op, ids |-> ids, val |-> val, mode |-> mode, after |-> FALSE,
   first |-> guard = {}, old |-> Rows(ids)]

\* The calls under way after one begins, ...
LEMMA PushIs ==
  ASSUME TxTypes, NEW op \in Ops, NEW ids \in SUBSET Recs, NEW val \in Vals \cup {Gone},
         NEW mode \in Modes, Push(op, ids, val, mode)
  PROVE  LET n == Len(stack) + 1 IN
         /\ stack' \in Seq(Frames) /\ DOMAIN stack' = DOMAIN stack \cup {n}
         /\ \A i \in DOMAIN stack : i < n /\ stack'[i] = stack[i]
         /\ n \notin DOMAIN stack /\ n \in Nat
         /\ stack'[n].op = op /\ stack'[n].ids = ids /\ stack'[n].val = val
         /\ stack'[n].mode = mode /\ stack'[n].after = FALSE
         /\ stack'[n].first <=> guard = {}
         /\ stack'[n].old = Rows(ids) /\ Rows(ids) \in [ids -> Values]
<1> DEFINE n == Len(stack) + 1
           f == NewCall(op, ids, val, mode)
<1>1. stack \in Seq(Frames)
  BY DEF TxTypes
<1>2. Rows(ids) \in [ids -> Values]
  BY DEF TxTypes, Rows
<1>3. f \in Frames
  BY <1>2 DEF Frames, NewCall
<1>4. stack' = Append(stack, f)
  BY DEF Push, NewCall
<1> HIDE DEF f
<1>5. /\ stack' \in Seq(Frames) /\ DOMAIN stack' = DOMAIN stack \cup {n}
      /\ \A i \in DOMAIN stack : i < n /\ stack'[i] = stack[i]
      /\ n \notin DOMAIN stack /\ n \in Nat /\ stack'[n] = f
  BY <1>1, <1>3, <1>4
<1>6. /\ f.op = op /\ f.ids = ids /\ f.val = val /\ f.mode = mode /\ f.after = FALSE
      /\ f.first <=> guard = {}
      /\ f.old = Rows(ids)
  BY DEF f, NewCall
<1> QED
  BY <1>2, <1>5, <1>6

\* ... when its method has run ...
LEMMA PassedIs ==
  ASSUME TxTypes, stack # <<>>, Passed
  PROVE  LET n == Len(stack) IN
         /\ n \in DOMAIN stack /\ stack[n] = Top /\ \A i \in DOMAIN stack : i <= n
         /\ stack' \in Seq(Frames) /\ DOMAIN stack' = DOMAIN stack
         /\ \A i \in DOMAIN stack :
              /\ stack'[i].op = stack[i].op /\ stack'[i].ids = stack[i].ids
              /\ stack'[i].val = stack[i].val /\ stack'[i].mode = stack[i].mode
              /\ stack'[i].first = stack[i].first /\ stack'[i].old = stack[i].old
              /\ i # n => stack'[i].after = stack[i].after
         /\ stack'[n].after = TRUE
<1> DEFINE n == Len(stack)
<1>1. stack \in Seq(Frames)
  BY DEF TxTypes
<1>2. n \in DOMAIN stack /\ \A i \in DOMAIN stack : i <= n /\ stack[i] \in Frames
  BY <1>1
<1>3. stack' = [stack EXCEPT ![n] = [stack[n] EXCEPT !.after = TRUE]]
  BY DEF Passed
<1>4. [stack[n] EXCEPT !.after = TRUE] \in Frames
  BY <1>2 DEF Frames
<1>5. /\ stack' \in Seq(Frames) /\ DOMAIN stack' = DOMAIN stack
      /\ \A i \in DOMAIN stack : i # n => stack'[i] = stack[i]
      /\ stack'[n] = [stack[n] EXCEPT !.after = TRUE]
  BY <1>1, <1>2, <1>3, <1>4
<1> QED
  BY <1>2, <1>5 DEF Top, Frames

\* ... and when it is over.
LEMMA PopIs ==
  ASSUME TxTypes, stack # <<>>, stack' = Front(stack)
  PROVE  LET n == Len(stack) IN
         /\ n \in DOMAIN stack /\ stack[n] = Top /\ \A i \in DOMAIN stack : i <= n
         /\ stack' \in Seq(Frames) /\ DOMAIN stack' = DOMAIN stack \ {n}
         /\ \A i \in DOMAIN stack : i # n => i < n /\ stack'[i] = stack[i]
<1> DEFINE n == Len(stack)
<1>1. stack \in Seq(Frames) /\ n \in Nat \ {0}
  BY DEF TxTypes
<1>2. stack' = SubSeq(stack, 1, n - 1)
  BY DEF Front
<1> QED
  BY <1>1, <1>2 DEF Top

-----------------------------------------------------------------------------
\* Logs of r are added, one or none; the logs of other records stay.
Logged(r, more) == trail'[r] = trail[r] \o more

\* Nothing is told by no log, or by one of a read.
LEMMA NothingTold ==
  ASSUME TxTypes, NEW r \in Recs, NEW more, Logged(r, more),
         more = <<>> \/ \E e \in Logs : more = <<e>> /\ e.new = Unknown
  PROVE  Told(r)' = Told(r) /\ \A i \in Told(r) : trail'[r][i] = trail[r][i]
<1>1. trail[r] \in Seq(Logs)
  BY DEF TxTypes
<1>2. CASE more = <<>>
  <2>1. trail'[r] = trail[r]
    BY <1>1, <1>2 DEF Logged
  <2> QED
    BY <2>1 DEF Told
<1>3. ASSUME NEW e \in Logs, more = <<e>>, e.new = Unknown
      PROVE  Told(r)' = Told(r) /\ \A i \in Told(r) : trail'[r][i] = trail[r][i]
  <2> DEFINE n == Len(trail[r]) + 1
  <2>1. /\ DOMAIN trail'[r] = DOMAIN trail[r] \cup {n}
        /\ \A i \in DOMAIN trail[r] : trail'[r][i] = trail[r][i]
        /\ trail'[r][n] = e
    BY <1>1, <1>3 DEF Logged
  <2> QED
    BY <1>3, <2>1 DEF Told
<1> QED
  BY <1>2, <1>3

\* Any other log comes last.
LEMMA OneTold ==
  ASSUME TxTypes, NEW r \in Recs, NEW e \in Logs, Logged(r, <<e>>), e.new # Unknown
  PROVE  LET n == Len(trail[r]) + 1 IN
         /\ Told(r)' = Told(r) \cup {n} /\ trail'[r][n] = e
         /\ \A i \in Told(r) : i < n /\ trail'[r][i] = trail[r][i]
<1> DEFINE n == Len(trail[r]) + 1
<1>1. trail[r] \in Seq(Logs)
  BY DEF TxTypes
<1>2. /\ DOMAIN trail'[r] = DOMAIN trail[r] \cup {n}
      /\ \A i \in DOMAIN trail[r] : i < n /\ trail'[r][i] = trail[r][i]
      /\ trail'[r][n] = e
  BY <1>1 DEF Logged
<1> QED
  BY <1>2 DEF Told

\* At most one log of each record
Lines == {<<>>} \cup {<<e>> : e \in Logs}

\* What a call logs.
LEMMA LogsAre ==
  ASSUME TxTypes, NEW mode, NEW D \in SUBSET Recs, NEW logged \in [D -> Lines],
         CreateLogs(mode, logged)
  PROVE  /\ trail' \in [Recs -> Seq(Logs)]
         /\ \A r \in Recs : Logged(r, IF mode # "no" /\ ~excluded /\ r \in D
                                      THEN logged[r] ELSE <<>>)
<1>1. \A r \in Recs : trail[r] \in Seq(Logs) /\ trail[r] \o <<>> = trail[r]
  BY DEF TxTypes
<1>2. \A l \in Lines : l \in Seq(Logs)
  <2>1. <<>> \in Seq(Logs) /\ \A e \in Logs : <<e>> \in Seq(Logs)
    OBVIOUS
  <2> QED
    BY <2>1, Zenon DEF Lines
<1>3. CASE mode = "no" \/ excluded
  BY <1>1, <1>3 DEF CreateLogs, Logged, TxTypes
<1>4. CASE ~(mode = "no" \/ excluded)
  <2>1. trail' = [r \in Recs |-> IF r \in D THEN trail[r] \o logged[r] ELSE trail[r]]
    BY <1>4 DEF CreateLogs
  <2>2. \A r \in D : trail[r] \o logged[r] \in Seq(Logs)
    BY <1>1, <1>2
  <2> QED
    BY <1>1, <1>4, <2>1, <2>2 DEF Logged
<1> QED
  BY <1>3, <1>4

\* The call that is on top, by its types.
LEMMA TopIs ==
  ASSUME TxTypes, stack # <<>>
  PROVE  /\ Top \in Frames /\ Top.old \in [Top.ids -> Values]
         /\ Top.op # "unlink" => Top.val \in Vals
         /\ Len(stack) \in DOMAIN stack /\ Top = stack[Len(stack)]
<1>1. stack \in Seq(Frames) /\ Len(stack) \in DOMAIN stack
  BY DEF TxTypes
<1> QED
  BY <1>1 DEF Top, TxTypes

\* Types of the lines that calls log.
LEMMA WriteLinesAre ==
  ASSUME TxTypes, stack # <<>>, Top.op = "write"
  PROVE  WriteLines \in [{x \in Top.ids : cache[x] \in Vals} -> Lines]
<1>1. Top \in Frames /\ Top.old \in [Top.ids -> Values] /\ Top.val \in Vals
  BY TopIs
<1>2. \A x \in Top.ids : x \in Recs
  BY <1>1 DEF Frames
<1>3. \A v \in Values \cup {Unknown}, w \in Values : [old |-> v, new |-> w] \in Logs
  BY DEF Logs
<1>4. Vals \subseteq Values
  BY DEF Values
<1>5. ASSUME NEW r \in Top.ids, cache[r] \in Vals
      PROVE  /\ <<[old |-> Top.old[r], new |-> cache[r]]>> \in Lines
             /\ <<[old |-> Unknown, new |-> Top.val]>> \in Lines
             /\ <<>> \in Lines
  BY <1>1, <1>2, <1>3, <1>4, <1>5 DEF Lines
<1> QED
  BY <1>5 DEF WriteLines

\* Likewise
LEMMA CreateLinesAre ==
  ASSUME TxTypes, stack # <<>>, Top.op = "create"
  PROVE  CreateLines \in [Top.ids -> Lines]
<1>1. Top \in Frames /\ Top.val \in Vals
  BY TopIs
<1>2. \A x \in Top.ids : db[x] \in Values
  BY <1>1 DEF Frames, TxTypes
<1>3. Vals \subseteq Values /\ Absent \in Values
  BY DEF Values
<1>4. \A w \in Values : <<[old |-> Absent, new |-> w]>> \in Lines
  BY <1>3 DEF Lines, Logs
<1> QED
  BY <1>1, <1>2, <1>3, <1>4 DEF CreateLines, Rows

\* Likewise
LEMMA UnlinkLinesAre ==
  ASSUME TxTypes, NEW ids \in SUBSET Recs
  PROVE  UnlinkLines(ids) \in [ids -> Lines]
<1>1. \A x \in ids : cache[x] \in Values
  BY DEF TxTypes
<1>2. \A v \in Values \cup {Unknown} : <<[old |-> v, new |-> Gone]>> \in Lines
  BY DEF Lines, Logs, Values
<1> QED
  BY <1>1, <1>2 DEF UnlinkLines

\* Likewise
LEMMA ReadLinesAre ==
  ASSUME TxTypes, NEW ids \in SUBSET Recs
  PROVE  ReadLines(ids) \in [ids -> Lines]
<1>1. \A x \in ids : cache[x] \in Values
  BY DEF TxTypes
<1>2. \A v \in Values : <<[old |-> v, new |-> Unknown]>> \in Lines
  BY DEF Lines, Logs, Values
<1> QED
  BY <1>1, <1>2 DEF ReadLines

-----------------------------------------------------------------------------
(* Steps of a transaction                                                  *)

\* What such a step leaves alone.
Inside ==
  /\ proc # None /\ proc' = proc /\ excluded' = excluded
  /\ patched' = patched /\ rule' = rule /\ base' = base

\* The calls go on as they were.
SameCalls == Inside /\ UNCHANGED <<stack, guard, cache>>

\* Reads, exports and flushes only log or flush.
LEMMA SameCallsAre ==
  ASSUME \/ \E ids \in SUBSET Recs : Read(ids)
         \/ ExportData \/ Flush
  PROVE  SameCalls
  BY DEF Read, ExportData, Flush, Called, SameCalls, Inside, ruleVars

\* So do calls that begin, do what they are for, and end.
LEMMA CallsAreInside ==
  ASSUME IdleInv,
         \/ \E ids \in SUBSET Recs : BeginUnlink(ids) \/ \E v \in Vals : BeginWrite(ids, v)
         \/ \E r \in Recs, v \in Vals : BeginCreate(r, v)
         \/ Write \/ EndWrite \/ Create \/ EndCreate \/ Unlink \/ EndUnlink
  PROVE  Inside
<1>1. stack # <<>> => proc # None
  BY DEF IdleInv, Untouched
<1>2. CASE \E ids \in SUBSET Recs : BeginUnlink(ids) \/ \E v \in Vals : BeginWrite(ids, v)
  BY <1>2 DEF BeginUnlink, BeginWrite, Push, Inside, ruleVars
<1>3. CASE \E r \in Recs, v \in Vals : BeginCreate(r, v)
  BY <1>3 DEF BeginCreate, Push, Inside, ruleVars
<1>4. CASE Write \/ Create \/ Unlink
  BY <1>1, <1>4 DEF Write, Create, Unlink, Inside, ruleVars
<1>5. CASE EndWrite \/ EndCreate \/ EndUnlink
  BY <1>1, <1>5 DEF EndWrite, EndCreate, EndUnlink, Pop, Inside, ruleVars
<1> QED
  BY <1>2, <1>3, <1>4, <1>5

\* What is so of each call stays so when one begins, ...
LEMMA PushTypes ==
  ASSUME TxTypes, Inside, UNCHANGED <<base, db, cache>>, trail' \in [Recs -> Seq(Logs)],
         NEW op \in Ops, NEW ids \in SUBSET Recs, NEW val \in Vals \cup {Gone}, NEW mode \in Modes,
         op # "unlink" => val \in Vals, Push(op, ids, val, mode)
  PROVE  TxTypes'
<1> DEFINE n == Len(stack) + 1
<1>1. stack' \in Seq(Frames) /\ DOMAIN stack' = DOMAIN stack \cup {n}
  BY PushIs
<1>2. \A i \in DOMAIN stack : stack'[i] = stack[i]
  BY PushIs
<1>3. stack'[n].op = op /\ stack'[n].ids = ids /\ stack'[n].val = val
  BY PushIs
<1>4. stack'[n].old = Rows(ids) /\ Rows(ids) \in [ids -> Values]
  BY PushIs
<1> QED
  BY <1>1, <1>2, <1>3, <1>4 DEF TxTypes, Inside

\* ... runs or ends.
LEMMA TopTypes ==
  ASSUME TxTypes, Inside, stack # <<>>, Passed \/ stack' = Front(stack),
         db' \in [Recs -> Values], cache' \in [Recs -> Values], trail' \in [Recs -> Seq(Logs)]
  PROVE  TxTypes'
<1>1. CASE Passed
  <2>1. /\ stack' \in Seq(Frames) /\ DOMAIN stack' = DOMAIN stack
        /\ \A i \in DOMAIN stack :
             /\ stack'[i].op = stack[i].op /\ stack'[i].ids = stack[i].ids
             /\ stack'[i].val = stack[i].val /\ stack'[i].old = stack[i].old
    BY <1>1, PassedIs
  <2> QED
    BY <2>1 DEF TxTypes, Inside
<1>2. CASE stack' = Front(stack)
  <2>1. /\ stack' \in Seq(Frames) /\ DOMAIN stack' \subseteq DOMAIN stack
        /\ \A i \in DOMAIN stack' : stack'[i] = stack[i]
    BY <1>2, PopIs
  <2> QED
    BY <2>1 DEF TxTypes, Inside
<1> QED
  BY <1>1, <1>2

\* How a method is logged.
LEMMA HowIs ==
  ASSUME TxTypes, proc # None, NEW m \in Methods
  PROVE  How(m) \in Modes
  BY DEF TxTypes, How

\* Types over the steps of a transaction.
LEMMA StepTypes ==
  ASSUME TxTypes, IdleInv,
         \/ \E ids \in SUBSET Recs : Read(ids) \/ BeginUnlink(ids) \/ \E v \in Vals : BeginWrite(ids, v)
         \/ \E r \in Recs, v \in Vals : BeginCreate(r, v)
         \/ Write \/ EndWrite \/ Create \/ EndCreate \/ Unlink \/ EndUnlink
         \/ ExportData \/ Flush
  PROVE  TxTypes'
<1>0. \A v \in Vals : v \in Values /\ v \in Vals \cup {Gone}
  BY DEF Values
<1>1. ASSUME NEW ids \in SUBSET Recs, Read(ids) PROVE TxTypes'
  <2>1. SameCalls
    BY <1>1, SameCallsAre
  <2>2. trail' \in [Recs -> Seq(Logs)]
    BY <1>1, ReadLinesAre, LogsAre DEF Read
  <2> QED
    BY <1>1, <2>1, <2>2 DEF TxTypes, SameCalls, Inside, Read, Called
<1>2. CASE ExportData \/ Flush
  <2>1. SameCalls
    BY <1>2, SameCallsAre
  <2> QED
    BY <1>2, <2>1 DEF TxTypes, SameCalls, Inside, ExportData, Called, Flush
<1>3. ASSUME NEW ids \in SUBSET Recs, BeginUnlink(ids) PROVE TxTypes'
  <2>1. Inside /\ How("unlink") \in Modes
    BY <1>3, CallsAreInside, HowIs DEF Inside, Methods
  <2>2. trail' \in [Recs -> Seq(Logs)]
    BY <1>3, UnlinkLinesAre, LogsAre DEF BeginUnlink
  <2>3. UNCHANGED <<base, db, cache>> /\ Push("unlink", ids, Gone, How("unlink"))
    BY <1>3 DEF BeginUnlink, Push
  <2> QED
    BY <2>1, <2>2, <2>3, PushTypes DEF Ops
<1>4. ASSUME NEW ids \in SUBSET Recs, NEW v \in Vals, BeginWrite(ids, v) PROVE TxTypes'
  <2>1. Inside
    BY <1>4, CallsAreInside
  <2>2. GuardedMode(ids) \in Modes
    BY <2>1, HowIs DEF GuardedMode, Inside, Methods, Modes
  <2>3. UNCHANGED <<base, db, cache, trail>> /\ Push("write", ids, v, GuardedMode(ids))
    BY <1>4 DEF BeginWrite, Push
  <2>4. trail' \in [Recs -> Seq(Logs)]
    BY <2>3 DEF TxTypes
  <2> QED
    BY <1>0, <2>1, <2>2, <2>3, <2>4, PushTypes DEF Ops
<1>5. ASSUME NEW r \in Recs, NEW v \in Vals, BeginCreate(r, v) PROVE TxTypes'
  <2>1. Inside /\ How("create") \in Modes
    BY <1>5, CallsAreInside, HowIs DEF Inside, Methods
  <2>2. UNCHANGED <<base, db, cache, trail>> /\ Push("create", {r}, v, How("create"))
    BY <1>5 DEF BeginCreate, Push
  <2>3. trail' \in [Recs -> Seq(Logs)]
    BY <2>2 DEF TxTypes
  <2> QED
    BY <1>0, <2>1, <2>2, <2>3, PushTypes DEF Ops
<1>6. CASE Write \/ Create \/ Unlink
  <2>1. Inside
    BY <1>6, CallsAreInside
  <2>2. Top.op # "unlink" => Top.val \in Values
    BY <1>0, <1>6, TopIs DEF Write, Create, Unlink
  <2>3. db' \in [Recs -> Values] /\ cache' \in [Recs -> Values]
    BY <1>6, <2>2 DEF Write, Create, Unlink, TxTypes, Values
  <2>4. trail' \in [Recs -> Seq(Logs)] /\ stack # <<>> /\ Passed
    BY <1>6 DEF Write, Create, Unlink, TxTypes
  <2> QED
    BY <2>1, <2>3, <2>4, TopTypes
<1>7. CASE EndWrite
  <2>1. Inside /\ stack # <<>> /\ stack' = Front(stack)
    BY <1>7, CallsAreInside DEF EndWrite, Pop
  <2>2. {x \in Top.ids : cache[x] \in Vals} \in SUBSET Recs
    BY <2>1, TopIs DEF Frames
  <2>3. trail' \in [Recs -> Seq(Logs)]
    BY <1>7, <2>2, WriteLinesAre, LogsAre DEF EndWrite
  <2>4. db' \in [Recs -> Values] /\ cache' \in [Recs -> Values]
    BY <1>7 DEF EndWrite, TxTypes
  <2> QED
    BY <2>1, <2>3, <2>4, TopTypes
<1>8. CASE EndCreate
  <2>1. Inside /\ stack # <<>> /\ stack' = Front(stack) /\ UNCHANGED <<db, cache>>
    BY <1>8, CallsAreInside DEF EndCreate, Pop
  <2>2. Top.ids \in SUBSET Recs
    BY <2>1, TopIs DEF Frames
  <2>3. trail' \in [Recs -> Seq(Logs)]
    BY <1>8, <2>2, CreateLinesAre, LogsAre DEF EndCreate
  <2>4. db' \in [Recs -> Values] /\ cache' \in [Recs -> Values]
    BY <2>1 DEF TxTypes
  <2> QED
    BY <2>1, <2>3, <2>4, TopTypes
<1>9. CASE EndUnlink
  <2>1. Inside /\ stack # <<>> /\ stack' = Front(stack) /\ UNCHANGED <<db, cache, trail>>
    BY <1>9, CallsAreInside DEF EndUnlink, Pop
  <2> QED
    BY <2>1, TopTypes DEF TxTypes
<1> QED
  BY <1>1, <1>2, <1>3, <1>4, <1>5, <1>6, <1>7, <1>8, <1>9

\* In a transaction that has done nothing there is nothing to show.
LEMMA NothingDone ==
  ASSUME TxTypes, Untouched
  PROVE  IdleInv /\ CallInv /\ ToldInv
<1>1. DOMAIN stack = {} /\ \A r \in Recs : Told(r) = {}
  BY DEF Untouched, Told
<1>2. CallInv
  BY <1>1 DEF Untouched, CallInv, ModeInv, LifeInv, GuardInv, Is, On, Full
<1>3. ToldInv
  BY <1>1 DEF Untouched, ToldInv, GoneInv, FullInv, FastInv, On, Is, Full, Covered, TellsUpTo
<1> QED
  BY <1>2, <1>3 DEF IdleInv, Untouched

-----------------------------------------------------------------------------
(* Which calls may be under way together                                   *)

\* Within a transaction methods are patched in one way.
LEMMA SameHow ==
  ASSUME Inside
  PROVE  /\ \A m : How(m)' = How(m)
         /\ \A type : Regime(type)' <=> Regime(type)
  BY DEF Inside, How, Regime

\* A step that leaves the calls alone
LEMMA SameCallInv ==
  ASSUME CallInv, SameCalls
  PROVE  CallInv'
<1>1. ModeInv'
  BY DEF CallInv, SameCalls, Inside, ModeInv, How
<1>2. LifeInv'
  BY DEF CallInv, SameCalls, Inside, LifeInv, Is, On
<1>3. GuardInv'
  BY DEF CallInv, SameCalls, Inside, GuardInv, Is, Full, How
<1> QED
  BY <1>1, <1>2, <1>3 DEF CallInv

\* A call that may begin
LEMMA PushCallInv ==
  ASSUME TxTypes, CallInv, Inside, cache' = cache,
         NEW op \in Ops, NEW ids \in SUBSET Recs, NEW val \in Vals \cup {Gone}, NEW mode \in Modes,
         Push(op, ids, val, mode),
         \/ mode = How(op)
         \/ op = "write" /\ mode = "no" /\ How("write") = "full" /\ ids \in guard,
         op = "create" => ~Busy(ids) /\ \E r \in ids : ids = {r} /\ cache[r] = Absent,
         op # "create" => Live(ids),
         op = "write" => ~IsRewrite(ids) /\ ids # {} /\ (mode = "full" => ids \notin guard),
         guard' = IF op = "write" /\ mode = "full" THEN guard \cup {ids} ELSE guard
  PROVE  CallInv'
<1>0. PICK n : n = Len(stack) + 1
  OBVIOUS
<1>1. /\ DOMAIN stack' = DOMAIN stack \cup {n} /\ n \notin DOMAIN stack /\ n \in Nat
      /\ \A i \in DOMAIN stack : i \in Nat /\ i < n /\ stack'[i] = stack[i]
  <2>1. \A i \in DOMAIN stack : i \in Nat
    BY DEF TxTypes
  <2>2. /\ DOMAIN stack' = DOMAIN stack \cup {n} /\ n \notin DOMAIN stack /\ n \in Nat
        /\ \A i \in DOMAIN stack : i < n /\ stack'[i] = stack[i]
    BY <1>0, PushIs
  <2> QED
    BY <2>1, <2>2
<1>2. /\ stack'[n].op = op /\ stack'[n].ids = ids /\ stack'[n].mode = mode
      /\ stack'[n].after = FALSE /\ (stack'[n].first <=> guard = {})
  BY <1>0, PushIs
<1>3. ModeInv'
  BY <1>1, <1>2 DEF CallInv, ModeInv, Inside, How
<1>4. LifeInv'
  <2>1. \A r \in ids : op # "create" => cache[r] \in Vals
    BY DEF Live
  <2>2. Absent \notin Vals /\ base' = base
    BY AuditAssumption DEF AuditAssumption, Inside
  <2>3. op = "create" => \A i \in DOMAIN stack : stack[i].ids # ids
    BY DEF Busy
  <2>4. \A i \in DOMAIN stack : Is(i, "create") => \E r \in Recs : stack[i].ids = {r}
    BY DEF CallInv, LifeInv
  <2>5. ASSUME NEW i \in DOMAIN stack', Is(i, "create")'
        PROVE  \E r \in Recs : /\ stack'[i].ids = {r} /\ base'[r] = Absent
                               /\ stack'[i].after <=> cache'[r] # Absent
    <3>1. CASE i = n
      <4>1. op = "create"
        BY <1>2, <2>5, <3>1 DEF Is
      <4>2. PICK r \in ids : ids = {r} /\ cache[r] = Absent
        BY <4>1
      <4>3. r \in Recs /\ base[r] = Absent
        BY <4>2 DEF CallInv, LifeInv
      <4> QED
        BY <1>2, <2>2, <3>1, <4>2, <4>3
    <3>2. CASE i # n
      <4>1. i \in DOMAIN stack /\ Is(i, "create") /\ stack'[i] = stack[i]
        BY <1>1, <2>5, <3>2 DEF Is
      <4> QED
        BY <2>2, <4>1 DEF CallInv, LifeInv
    <3> QED
      BY <3>1, <3>2
  <2>6. ASSUME NEW i \in DOMAIN stack', NEW j \in DOMAIN stack', NEW r \in Recs,
               On(i, "create", r)'
        PROVE  /\ On(j, "create", r)' => i = j
               /\ On(j, "write", r)' => i < j
    <3>1. CASE i \in DOMAIN stack /\ j \in DOMAIN stack
      <4>1. stack'[i] = stack[i] /\ stack'[j] = stack[j]
        BY <1>1, <3>1
      <4> QED
        BY <2>6, <3>1, <4>1 DEF CallInv, LifeInv, On, Is
    <3>2. CASE i = n /\ j = n
      BY <1>2, <2>6, <3>2 DEF On, Is
    <3>3. CASE i \in DOMAIN stack /\ j = n
      <4>1. stack'[i] = stack[i] /\ i < n
        BY <1>1, <3>3
      <4>2. ~On(n, "create", r)'
        <5>1. SUFFICES ASSUME op = "create", r \in ids PROVE FALSE
          BY <1>2 DEF On, Is
        <5>2. ids = {r}
          BY <5>1
        <5>3. stack[i].ids = {r}
          BY <2>4, <2>6, <3>3, <4>1 DEF On, Is
        <5> QED
          BY <2>3, <3>3, <5>1, <5>2, <5>3
      <4> QED
        BY <3>3, <4>1, <4>2
    <3>4. CASE i = n /\ j \in DOMAIN stack
      <4>1. op = "create" /\ ids = {r} /\ cache[r] = Absent
        BY <1>2, <2>6, <3>4 DEF On, Is
      <4>2. stack'[j] = stack[j]
        BY <1>1, <3>4
      <4>3. ~On(j, "write", r)
        BY <3>4, <4>1 DEF CallInv, LifeInv
      <4>4. ~On(j, "create", r)
        BY <2>3, <2>4, <3>4, <4>1 DEF On, Is
      <4> QED
        BY <1>1, <3>4, <4>2, <4>3, <4>4 DEF On, Is
    <3> QED
      BY <1>1, <3>1, <3>2, <3>3, <3>4
  <2>7. ASSUME NEW i \in DOMAIN stack', NEW r \in Recs
        PROVE  /\ On(i, "write", r)' \/ On(i, "unlink", r)' => cache'[r] # Absent
               /\ On(i, "unlink", r)' /\ stack'[i].after => cache'[r] = Gone
    <3>1. CASE i = n
      BY <1>2, <2>1, <2>2, <3>1 DEF On, Is
    <3>2. CASE i \in DOMAIN stack
      <4>1. stack'[i] = stack[i]
        BY <1>1, <3>2
      <4> QED
        BY <3>2, <4>1 DEF CallInv, LifeInv, On, Is
    <3> QED
      BY <1>1, <3>1, <3>2
  <2>8. \A r \in Recs : (cache'[r] = Absent => base'[r] = Absent) /\ (base'[r] = Gone => cache'[r] = Gone)
    BY <2>2 DEF CallInv, LifeInv
  <2> QED
    BY <2>5, <2>6, <2>7, <2>8 DEF LifeInv
<1>5. GuardInv'
  <2>1. ASSUME NEW i \in DOMAIN stack
        PROVE  /\ stack'[i] = stack[i] /\ i < n /\ i \in DOMAIN stack'
               /\ Full(i)' <=> Full(i)
               /\ Is(i, "write")' <=> Is(i, "write")
    BY <1>1 DEF Full, Is
  <2>2. guard \subseteq guard'
    OBVIOUS
  <2>3. Is(n, "write")' <=> op = "write"
    BY <1>1, <1>2 DEF Is
  <2>4. Full(n)' <=> op = "write" /\ mode = "full"
    BY <1>2, <2>3 DEF Full
  <2>5. \A i \in DOMAIN stack : Full(i) => stack[i].ids \in guard
    BY DEF CallInv, GuardInv
  <2>6. op = "write" => \A i \in DOMAIN stack : Is(i, "write") =>
          stack[i].ids = ids \/ stack[i].ids \cap ids = {}
    BY DEF IsRewrite, Is
  <2>7. \A i \in DOMAIN stack' : Full(i)' => stack'[i].ids \in guard'
    BY <1>1, <1>2, <2>1, <2>2, <2>4, <2>5
  <2>8. ASSUME NEW i \in DOMAIN stack', NEW j \in DOMAIN stack', Full(i)', i < j
        PROVE  ~stack'[j].first
    <3>1. i \in DOMAIN stack /\ Full(i)
      BY <1>1, <2>1, <2>8
    <3>2. CASE j = n
      BY <1>2, <2>5, <3>1, <3>2
    <3>3. CASE j \in DOMAIN stack
      BY <2>1, <2>8, <3>1, <3>3 DEF CallInv, GuardInv
    <3> QED
      BY <1>1, <3>2, <3>3
  <2>9. ASSUME How("write")' = "full", NEW j \in DOMAIN stack', Is(j, "write")'
        PROVE  \E i \in DOMAIN stack' : Full(i)' /\ i <= j /\ stack'[i].ids = stack'[j].ids
    <3>0. How("write") = "full" /\ proc # None
      BY <2>9, SameHow DEF Inside
    <3>1. CASE j \in DOMAIN stack
      <4>1. PICK i \in DOMAIN stack : Full(i) /\ i <= j /\ stack[i].ids = stack[j].ids
        BY <2>1, <2>9, <3>0, <3>1 DEF CallInv, GuardInv
      <4> QED
        BY <2>1, <3>1, <4>1
    <3>2. CASE j = n /\ mode = "full"
      BY <1>1, <2>3, <2>4, <2>9, <3>2
    <3>3. CASE j = n /\ mode # "full"
      <4>1. op = "write" /\ ids \in guard
        BY <2>3, <2>9, <3>0, <3>3
      <4>2. PICK k \in DOMAIN stack : Is(k, "write") /\ stack[k].ids = ids
        BY <4>1 DEF IsRewrite, Writing, Is
      <4>3. PICK i \in DOMAIN stack : Full(i) /\ stack[i].ids = stack[k].ids
        BY <3>0, <4>2 DEF CallInv, GuardInv
      <4>4. i \in DOMAIN stack' /\ Full(i)' /\ i <= n /\ stack'[i].ids = ids
        BY <1>1, <2>1, <4>2, <4>3
      <4> QED
        BY <1>2, <3>3, <4>4
    <3> QED
      BY <1>1, <3>1, <3>2, <3>3
  <2>10. ASSUME NEW i \in DOMAIN stack', NEW j \in DOMAIN stack',
                Is(i, "write")', Is(j, "write")', stack'[i].ids \cap stack'[j].ids # {}
         PROVE  stack'[i].ids = stack'[j].ids
    <3>1. CASE i \in DOMAIN stack /\ j \in DOMAIN stack
      BY <2>1, <2>10, <3>1 DEF CallInv, GuardInv
    <3>2. CASE i \in DOMAIN stack /\ j = n
      BY <1>2, <2>1, <2>3, <2>6, <2>10, <3>2
    <3>3. CASE i = n /\ j \in DOMAIN stack
      BY <1>2, <2>1, <2>3, <2>6, <2>10, <3>3
    <3> QED
      BY <1>1, <3>1, <3>2, <3>3
  <2>11. ASSUME NEW i \in DOMAIN stack', NEW j \in DOMAIN stack',
                Full(i)', Full(j)', stack'[i].ids = stack'[j].ids
         PROVE  i = j
    <3>1. CASE i \in DOMAIN stack /\ j \in DOMAIN stack
      BY <2>1, <2>11, <3>1 DEF CallInv, GuardInv
    <3>2. CASE i \in DOMAIN stack /\ j = n
      BY <1>2, <2>1, <2>4, <2>5, <2>11, <3>2
    <3>3. CASE i = n /\ j \in DOMAIN stack
      BY <1>2, <2>1, <2>4, <2>5, <2>11, <3>3
    <3> QED
      BY <1>1, <3>1, <3>2, <3>3
  <2> QED
    BY <2>7, <2>8, <2>9, <2>10, <2>11 DEF GuardInv
<1> QED
  BY <1>3, <1>4, <1>5 DEF CallInv

\* A call whose method has run
LEMMA PassedCallInv ==
  ASSUME TxTypes, CallInv, Inside, guard' = guard, Write \/ Create \/ Unlink
  PROVE  CallInv'
<1>0. PICK n : n = Len(stack)
  OBVIOUS
<1>1. /\ n \in DOMAIN stack /\ stack[n] = Top /\ DOMAIN stack' = DOMAIN stack
      /\ \A i \in DOMAIN stack :
           /\ stack'[i].op = stack[i].op /\ stack'[i].ids = stack[i].ids
           /\ stack'[i].mode = stack[i].mode /\ stack'[i].first = stack[i].first
           /\ i # n => stack'[i].after = stack[i].after
      /\ stack'[n].after = TRUE
  <2>1. stack # <<>> /\ Passed
    BY DEF Write, Create, Unlink
  <2> QED
    BY <1>0, <2>1, PassedIs
<1>2. ModeInv'
  BY <1>1 DEF CallInv, ModeInv, Inside, How
<1>3. \A i \in DOMAIN stack : \A r \in Recs :
        /\ \A op \in Ops : (On(i, op, r)' <=> On(i, op, r)) /\ (Is(i, op)' <=> Is(i, op))
        /\ Full(i)' <=> Full(i)
  BY <1>1 DEF On, Is, Full
<1>4. GuardInv'
  <2>1. \A i \in DOMAIN stack : (Is(i, "write")' <=> Is(i, "write")) /\ (Full(i)' <=> Full(i))
    BY <1>1 DEF Is, Full
  <2>2. (proc # None /\ How("write") = "full")' => proc # None /\ How("write") = "full"
    BY SameHow DEF Inside
  <2> QED
    BY <1>1, <2>1, <2>2 DEF CallInv, GuardInv
<1>5. LifeInv'
  <2>1. Absent \notin Vals /\ Gone \notin Vals /\ Absent # Gone /\ base' = base
    BY AuditAssumption DEF AuditAssumption, Inside, Absent, Gone
  <2>2. cache \in [Recs -> Values] /\ cache' \in [Recs -> Values]
    <3>1. \A v \in Vals : v \in Values
      BY DEF Values
    <3>2. Gone \in Values
      BY DEF Values
    <3> QED
      BY <3>1, <3>2, TopIs DEF TxTypes, Write, Create, Unlink
  <2>3. Top.ids \subseteq Recs
    BY TopIs DEF Frames, Write, Create, Unlink
  <2>4. ASSUME NEW r \in Recs
        PROVE  /\ cache[r] # Absent => cache'[r] # Absent
               /\ cache[r] = Gone => cache'[r] = Gone
               /\ r \notin Top.ids => cache'[r] = cache[r]
               /\ r \in Top.ids => cache'[r] # Absent
               /\ r \in Top.ids /\ Top.op = "unlink" => cache'[r] = Gone
    <3>1. CASE Write
      <4>1. Top.op = "write" /\ Top.val \in Vals /\ Live(Top.ids)
        BY <3>1, TopIs DEF Write
      <4> QED
        BY <2>1, <3>1, <4>1 DEF Write, Live
    <3>2. CASE Create
      <4>1. Top.op = "create" /\ Top.val \in Vals /\ \A x \in Top.ids : cache[x] = Absent
        BY <3>2, TopIs DEF Create
      <4> QED
        BY <2>1, <3>2, <4>1 DEF Create
    <3>3. CASE Unlink
      <4>1. Top.op = "unlink" /\ Live(Top.ids)
        BY <3>3 DEF Unlink
      <4> QED
        BY <2>1, <3>3, <4>1 DEF Unlink, Live
    <3> QED
      BY <3>1, <3>2, <3>3
  <2>5. \A r \in Recs : (cache'[r] = Absent => base'[r] = Absent) /\ (base'[r] = Gone => cache'[r] = Gone)
    BY <2>1, <2>4 DEF CallInv, LifeInv
  <2>6. ASSUME NEW i \in DOMAIN stack', NEW r \in Recs
        PROVE  /\ On(i, "write", r)' \/ On(i, "unlink", r)' => cache'[r] # Absent
               /\ On(i, "unlink", r)' /\ stack'[i].after => cache'[r] = Gone
    <3>1. On(i, "write", r) \/ On(i, "unlink", r) => cache[r] # Absent
      BY <1>1 DEF CallInv, LifeInv
    <3>2. On(i, "unlink", r) /\ stack[i].after => cache[r] = Gone
      BY <1>1 DEF CallInv, LifeInv
    <3>3. CASE i = n
      BY <1>1, <2>4, <3>1, <3>3 DEF On, Is
    <3>4. CASE i # n
      BY <1>1, <1>3, <2>4, <3>1, <3>2, <3>4 DEF Ops
    <3> QED
      BY <3>3, <3>4
  <2>7. ASSUME NEW i \in DOMAIN stack', NEW j \in DOMAIN stack', NEW r \in Recs
        PROVE  /\ On(i, "create", r)' /\ On(j, "create", r)' => i = j
               /\ On(i, "create", r)' /\ On(j, "write", r)' => i < j
    BY <1>1, <1>3 DEF Ops, CallInv, LifeInv
  <2>8. ASSUME NEW i \in DOMAIN stack', Is(i, "create")'
        PROVE  \E r \in Recs : /\ stack'[i].ids = {r} /\ base'[r] = Absent
                               /\ stack'[i].after <=> cache'[r] # Absent
    <3>1. Is(i, "create")
      BY <1>1, <2>8 DEF Is
    <3>2. PICK r \in Recs : /\ stack[i].ids = {r} /\ base[r] = Absent
                            /\ stack[i].after <=> cache[r] # Absent
      BY <1>1, <3>1 DEF CallInv, LifeInv
    <3>3. CASE i = n
      BY <1>1, <2>1, <2>4, <3>2, <3>3
    <3>4. CASE i # n /\ r \notin Top.ids
      BY <1>1, <2>1, <2>4, <3>2, <3>4
    <3>5. CASE i # n /\ r \in Top.ids
      <4>1. Top.op # "create"
        BY <1>1, <3>1, <3>2, <3>5 DEF CallInv, LifeInv, On, Is
      <4>2. cache[r] # Absent
        <5>1. Top.op = "write" \/ Top.op = "unlink"
          BY <4>1, TopIs DEF Frames, Ops, Write, Create, Unlink
        <5> QED
          BY <1>1, <3>5, <5>1 DEF CallInv, LifeInv, On, Is
      <4> QED
        BY <1>1, <2>1, <2>4, <3>2, <3>5, <4>2
    <3> QED
      BY <3>3, <3>4, <3>5
  <2> QED
    BY <2>5, <2>6, <2>7, <2>8 DEF LifeInv
<1> QED
  BY <1>2, <1>4, <1>5 DEF CallInv

\* A call that ends
LEMMA PopCallInv ==
  ASSUME TxTypes, CallInv, Inside, cache' = cache, stack # <<>>, Pop
  PROVE  CallInv'
<1>0. PICK n : n = Len(stack)
  OBVIOUS
<1>1. /\ n \in DOMAIN stack /\ stack[n] = Top /\ DOMAIN stack' = DOMAIN stack \ {n}
      /\ \A i \in DOMAIN stack' : i < n /\ i \in DOMAIN stack /\ stack'[i] = stack[i]
  BY <1>0, PopIs DEF Pop
<1>2. ModeInv'
  BY <1>1 DEF CallInv, ModeInv, Inside, How
<1>3. LifeInv'
  BY <1>1 DEF CallInv, LifeInv, Inside, On, Is
<1>4. GuardInv'
  <2>1. \A i \in DOMAIN stack' : (Is(i, "write")' <=> Is(i, "write")) /\ (Full(i)' <=> Full(i))
    BY <1>1 DEF Is, Full
  <2>2. \A i \in DOMAIN stack' : Full(i)' => stack'[i].ids \in guard'
    BY <1>1, <2>1 DEF CallInv, GuardInv, Pop
  <2>3. ASSUME (proc # None /\ How("write") = "full")', NEW j \in DOMAIN stack', Is(j, "write")'
        PROVE  \E i \in DOMAIN stack' : Full(i)' /\ i <= j /\ stack'[i].ids = stack'[j].ids
    <3>1. PICK i \in DOMAIN stack : Full(i) /\ i <= j /\ stack[i].ids = stack[j].ids
      BY <1>1, <2>1, <2>3, SameHow DEF CallInv, GuardInv, Inside
    <3>2. i # n
      BY <1>1, <3>1 DEF TxTypes
    <3> QED
      BY <1>1, <2>1, <3>1, <3>2
  <2>4. \A i, j \in DOMAIN stack' : Full(i)' /\ i < j => ~stack'[j].first
    BY <1>1, <2>1 DEF CallInv, GuardInv
  <2>5. \A i, j \in DOMAIN stack' :
          /\ Is(i, "write")' /\ Is(j, "write")' /\ stack'[i].ids \cap stack'[j].ids # {} =>
               stack'[i].ids = stack'[j].ids
          /\ Full(i)' /\ Full(j)' /\ stack'[i].ids = stack'[j].ids => i = j
    BY <1>1, <2>1 DEF CallInv, GuardInv
  <2> QED
    BY <2>2, <2>3, <2>4, <2>5 DEF GuardInv
<1> QED
  BY <1>2, <1>3, <1>4 DEF CallInv

-----------------------------------------------------------------------------
(* What is told stays told                                                 *)

\* A log of r has the value w.
HasTold(r, w) == \E i \in Told(r) : trail[r][i].new = w

\* Whatever is logged later
LEMMA StaysTold ==
  ASSUME TxTypes, NEW r \in Recs, NEW more \in Lines, Logged(r, more), NEW w, HasTold(r, w)
  PROVE  HasTold(r, w)'
<1>1. CASE more = <<>> \/ \E e \in Logs : more = <<e>> /\ e.new = Unknown
  BY <1>1, NothingTold DEF HasTold
<1>2. ASSUME NEW e \in Logs, more = <<e>>, e.new # Unknown PROVE HasTold(r, w)'
  <2>1. PICK n : Told(r)' = Told(r) \cup {n} /\ \A i \in Told(r) : trail'[r][i] = trail[r][i]
    BY <1>2, OneTold
  <2> QED
    BY <2>1 DEF HasTold
<1> QED
  BY <1>1, <1>2 DEF Lines

\* A value that is logged is told.
LEMMA NowTold ==
  ASSUME TxTypes, NEW r \in Recs, NEW e \in Logs, Logged(r, <<e>>), e.new # Unknown
  PROVE  HasTold(r, e.new)'
<1>1. PICK n : Told(r)' = Told(r) \cup {n} /\ trail'[r][n] = e
  BY OneTold
<1> QED
  BY <1>1 DEF HasTold

\* A read tells nothing.
LEMMA StillTells ==
  ASSUME TxTypes, NEW r \in Recs, NEW more, Logged(r, more), base' = base,
         more = <<>> \/ \E e \in Logs : more = <<e>> /\ e.new = Unknown,
         NEW v, TellsUpTo(r, v)
  PROVE  TellsUpTo(r, v)'
  BY NothingTold DEF TellsUpTo

\* A change from where the logs are now
LEMMA TellsNext ==
  ASSUME TxTypes, NEW r \in Recs, base' = base, NEW v \in Values, NEW w \in Values,
         Logged(r, <<[old |-> v, new |-> w]>>), w # Unknown,
         TellsUpTo(r, v) \/ v = base[r]
  PROVE  TellsUpTo(r, w)'
<1>1. PICK e : e = [old |-> v, new |-> w]
  OBVIOUS
<1>2. e \in Logs /\ e.old = v /\ e.new = w
  BY <1>1 DEF Logs
<1>3. PICK n : n = Len(trail[r]) + 1
  OBVIOUS
<1>4. /\ Told(r)' = Told(r) \cup {n} /\ trail'[r][n] = e
      /\ \A i \in Told(r) : i < n /\ trail'[r][i] = trail[r][i]
  BY <1>1, <1>2, <1>3, OneTold
<1>5. n \in Nat /\ \A k \in Told(r) : k \in Nat
  BY <1>3 DEF TxTypes, Told
<1>6. \E i \in Told(r)' : trail'[r][i].old = base[r]
  BY <1>2, <1>4 DEF TellsUpTo
<1>7. trail'[r][n].new = w /\ \A k \in Told(r)' : k <= n
  BY <1>2, <1>4, <1>5
<1> QED
  BY <1>4, <1>6, <1>7 DEF TellsUpTo

\* A step that leaves the calls and the changes alone
LEMMA SameToldInv ==
  ASSUME TxTypes, ToldInv, SameCalls, db' = db \/ db' = cache,
         \A r \in Recs : \E more : /\ Logged(r, more)
                                   /\ \/ more = <<>>
                                      \/ \E e \in Logs : more = <<e>> /\ e.new = Unknown
  PROVE  ToldInv'
<1>1. \A type : Regime(type)' <=> Regime(type)
  BY SameHow DEF SameCalls
<1>2. ASSUME NEW r \in Recs
      PROVE  /\ \A w : HasTold(r, w) => HasTold(r, w)'
             /\ \A v : TellsUpTo(r, v) => TellsUpTo(r, v)'
  <2>1. PICK more : Logged(r, more) /\ (more = <<>> \/ \E e \in Logs : more = <<e>> /\ e.new = Unknown)
    OBVIOUS
  <2>2. more \in Lines
    BY <2>1 DEF Lines
  <2> QED
    BY <2>1, <2>2, StaysTold, StillTells DEF SameCalls, Inside
<1>3. stack' = stack /\ cache' = cache /\ base' = base
  BY DEF SameCalls, Inside
<1>4. GoneInv'
  BY <1>1, <1>2, <1>3 DEF ToldInv, GoneInv, DeletionTold, HasTold, On, Is
<1>5. FastInv'
  BY <1>1, <1>2, <1>3 DEF ToldInv, FastInv, HasTold, On, Is
<1>6. FullInv'
  <2> SUFFICES ASSUME Regime("full"), NEW r \in Recs
               PROVE  (/\ db[r] # cache[r] => Covered(r)
                       /\ cache[r] # Gone /\ Steady(r) =>
                            /\ \A i \in DOMAIN stack :
                                 Full(i) /\ r \in stack[i].ids => TellsUpTo(r, stack[i].old[r])
                            /\ ~Covered(r) => TellsUpTo(r, cache[r]))'
    BY <1>1 DEF FullInv
  <2>1. /\ Covered(r)' <=> Covered(r)
        /\ Steady(r)' <=> Steady(r)
        /\ \A i \in DOMAIN stack : Full(i)' <=> Full(i)
    BY <1>3 DEF Covered, Steady, Full, On, Is
  <2>2. db'[r] # cache'[r] => Covered(r)'
    BY <1>3, <2>1 DEF ToldInv, FullInv
  <2>3. ASSUME NEW i \in DOMAIN stack', Full(i)', r \in stack'[i].ids, cache'[r] # Gone, Steady(r)'
        PROVE  TellsUpTo(r, stack[i].old[r])'
    <3>1. PICK v : v = stack[i].old[r]
      OBVIOUS
    <3>2. TellsUpTo(r, v)
      BY <1>3, <2>1, <2>3, <3>1 DEF ToldInv, FullInv
    <3>3. TellsUpTo(r, v)'
      BY <1>2, <3>2
    <3> QED
      BY <1>3, <3>1, <3>3 DEF TellsUpTo
  <2>4. ASSUME cache'[r] # Gone, Steady(r)', ~Covered(r)' PROVE TellsUpTo(r, cache[r])'
    <3>1. PICK v : v = cache[r]
      OBVIOUS
    <3>2. TellsUpTo(r, v)
      BY <1>3, <2>1, <2>4, <3>1 DEF ToldInv, FullInv
    <3>3. TellsUpTo(r, v)'
      BY <1>2, <3>2
    <3> QED
      BY <1>3, <3>1, <3>3 DEF TellsUpTo
  <2> QED
    BY <2>2, <2>3, <2>4
<1> QED
  BY <1>4, <1>5, <1>6 DEF ToldInv

\* A call that begins: a full write takes over what was told so far; a deletion is
\* told first.
LEMMA PushToldInv ==
  ASSUME TxTypes, CallInv, ToldInv, Inside, db' = db, cache' = cache,
         NEW op \in Ops, NEW ids \in SUBSET Recs, NEW val \in Vals \cup {Gone}, NEW mode \in Modes,
         Push(op, ids, val, mode),
         op = "write" => ~IsRewrite(ids) /\ (mode = "full" => ids \notin guard),
         \A r \in Recs : \E more \in Lines :
           Logged(r, more) /\ (more = <<>> \/ (op = "unlink" /\ r \in ids)),
         op = "unlink" /\ (Regime("full") \/ Regime("fast")) => \A r \in ids : HasTold(r, Gone)'
  PROVE  ToldInv'
<1>0. PICK n : n = Len(stack) + 1
  OBVIOUS
<1>1. /\ DOMAIN stack' = DOMAIN stack \cup {n} /\ n \notin DOMAIN stack
      /\ \A i \in DOMAIN stack : stack'[i] = stack[i]
  BY <1>0, PushIs
<1>2. /\ stack'[n].op = op /\ stack'[n].ids = ids /\ stack'[n].mode = mode
      /\ stack'[n].old = Rows(ids)
  BY <1>0, PushIs
<1>3. \A type : Regime(type)' <=> Regime(type)
  BY SameHow
<1>4. base' = base
  BY DEF Inside
<1>5. ASSUME NEW r \in Recs
      PROVE  /\ \A w : HasTold(r, w) => HasTold(r, w)'
             /\ \A v : TellsUpTo(r, v) /\ ~(op = "unlink" /\ r \in ids) => TellsUpTo(r, v)'
  <2>1. PICK more \in Lines : Logged(r, more) /\ (more = <<>> \/ (op = "unlink" /\ r \in ids))
    OBVIOUS
  <2> QED
    BY <1>4, <2>1, StaysTold, StillTells
<1>6. \A i \in DOMAIN stack : \A r \in Recs :
        /\ \A o \in Ops : On(i, o, r)' <=> On(i, o, r)
        /\ Full(i)' <=> Full(i)
  BY <1>1 DEF On, Is, Full
<1>7. GoneInv'
  <2> SUFFICES ASSUME Regime("full") \/ Regime("fast"), NEW r \in Recs
               PROVE  /\ cache'[r] = Gone /\ base'[r] # Gone => HasTold(r, Gone)'
                      /\ \A i \in DOMAIN stack' : On(i, "unlink", r)' => HasTold(r, Gone)'
    BY <1>3 DEF GoneInv, DeletionTold, HasTold
  <2>1. cache'[r] = Gone /\ base'[r] # Gone => HasTold(r, Gone)'
    BY <1>4, <1>5 DEF ToldInv, GoneInv, DeletionTold, HasTold
  <2>2. ASSUME NEW i \in DOMAIN stack', On(i, "unlink", r)' PROVE HasTold(r, Gone)'
    <3>1. CASE i \in DOMAIN stack
      BY <1>5, <1>6, <2>2, <3>1 DEF Ops, ToldInv, GoneInv, DeletionTold, HasTold
    <3>2. CASE i = n
      BY <1>2, <2>2, <3>2 DEF On, Is
    <3> QED
      BY <1>1, <3>1, <3>2
  <2> QED
    BY <2>1, <2>2
<1>8. FastInv'
  <2> SUFFICES ASSUME Regime("fast"), NEW r \in Recs, cache'[r] \notin {base'[r], Falsy, Gone}
               PROVE  \/ HasTold(r, cache[r])'
                      \/ \E i \in DOMAIN stack' :
                           /\ On(i, "create", r)' \/ On(i, "write", r)'
                           /\ stack'[i].after /\ stack'[i].val = cache'[r]
    BY <1>3 DEF FastInv, HasTold
  <2>1. CASE HasTold(r, cache[r])
    BY <1>5, <2>1 DEF HasTold
  <2>2. ASSUME NEW i \in DOMAIN stack, On(i, "create", r) \/ On(i, "write", r),
               stack[i].after, stack[i].val = cache[r]
        PROVE  \E k \in DOMAIN stack' :
                 /\ On(k, "create", r)' \/ On(k, "write", r)'
                 /\ stack'[k].after /\ stack'[k].val = cache'[r]
    BY <1>1, <1>6, <2>2 DEF Ops
  <2> QED
    BY <1>4, <2>1, <2>2 DEF ToldInv, FastInv, HasTold
<1>9. FullInv'
  <2> SUFFICES ASSUME Regime("full"), NEW r \in Recs
               PROVE  (/\ db[r] # cache[r] => Covered(r)
                       /\ cache[r] # Gone /\ Steady(r) =>
                            /\ \A i \in DOMAIN stack :
                                 Full(i) /\ r \in stack[i].ids => TellsUpTo(r, stack[i].old[r])
                            /\ ~Covered(r) => TellsUpTo(r, cache[r]))'
    BY <1>3 DEF FullInv
  <2>1. Covered(r) => Covered(r)'
    BY <1>1, <1>6 DEF Covered
  <2>2. Steady(r)' => Steady(r) /\ ~(op = "unlink" /\ r \in ids)
    BY <1>1, <1>2, <1>6 DEF Steady, On, Is, Ops
  <2>3. db'[r] # cache'[r] => Covered(r)'
    BY <2>1 DEF ToldInv, FullInv
  <2>4. ASSUME NEW i \in DOMAIN stack', Full(i)', r \in stack'[i].ids, cache'[r] # Gone, Steady(r)'
        PROVE  TellsUpTo(r, stack[i].old[r])'
    <3>1. PICK v : v = stack'[i].old[r]
      OBVIOUS
    <3>2. CASE i \in DOMAIN stack
      <4>1. TellsUpTo(r, v)
        BY <1>1, <1>6, <2>2, <2>4, <3>1, <3>2 DEF ToldInv, FullInv
      <4> QED
        BY <1>5, <2>2, <2>4, <3>1, <4>1 DEF TellsUpTo
    <3>3. CASE i = n
      <4>1. op = "write" /\ mode = "full" /\ r \in ids
        BY <1>2, <2>4, <3>3 DEF Full, Is
      <4>2. ~Covered(r)
        <5>1. SUFFICES ASSUME NEW k \in DOMAIN stack, Full(k), r \in stack[k].ids PROVE FALSE
          BY DEF Covered
        <5>2. stack[k].ids = ids
          BY <4>1, <5>1 DEF IsRewrite, Full, Is
        <5> QED
          BY <4>1, <5>1, <5>2 DEF CallInv, GuardInv
      <4>3. db[r] = cache[r] /\ TellsUpTo(r, cache[r])
        BY <2>2, <2>4, <4>2 DEF ToldInv, FullInv
      <4>4. v = cache[r]
        BY <1>2, <3>1, <3>3, <4>1, <4>3 DEF Rows
      <4>5. TellsUpTo(r, v)
        BY <4>3, <4>4 DEF TellsUpTo
      <4> QED
        BY <1>5, <2>2, <2>4, <3>1, <4>5 DEF TellsUpTo
    <3> QED
      BY <1>1, <3>2, <3>3
  <2>5. ASSUME cache'[r] # Gone, Steady(r)', ~Covered(r)' PROVE TellsUpTo(r, cache[r])'
    <3>1. PICK v : v = cache[r]
      OBVIOUS
    <3>2. TellsUpTo(r, v)
      BY <2>1, <2>2, <2>5, <3>1 DEF ToldInv, FullInv
    <3>3. TellsUpTo(r, v)'
      BY <1>5, <2>2, <2>5, <3>2
    <3> QED
      BY <3>1, <3>3 DEF TellsUpTo
  <2> QED
    BY <2>3, <2>4, <2>5
<1> QED
  BY <1>7, <1>8, <1>9 DEF ToldInv

\* A call whose method has run: nothing is told, and what changes is told by a call
\* under way.
LEMMA PassedToldInv ==
  ASSUME TxTypes, CallInv, ToldInv, Inside, Write \/ Create \/ Unlink
  PROVE  ToldInv'
<1>0. PICK n : n = Len(stack)
  OBVIOUS
<1>1. /\ n \in DOMAIN stack /\ stack[n] = Top /\ DOMAIN stack' = DOMAIN stack
      /\ \A i \in DOMAIN stack :
           /\ stack'[i].op = stack[i].op /\ stack'[i].ids = stack[i].ids
           /\ stack'[i].mode = stack[i].mode /\ stack'[i].val = stack[i].val
           /\ stack'[i].old = stack[i].old
           /\ i # n => stack'[i].after = stack[i].after
      /\ stack'[n].after = TRUE
  <2>1. stack # <<>> /\ Passed
    BY DEF Write, Create, Unlink
  <2> QED
    BY <1>0, <2>1, PassedIs
<1>2. \A i \in DOMAIN stack : \A r \in Recs :
        /\ \A op \in Ops : On(i, op, r)' <=> On(i, op, r)
        /\ Full(i)' <=> Full(i)
  BY <1>1 DEF On, Is, Full
<1>3. \A type : Regime(type)' <=> Regime(type)
  BY SameHow
<1>4. base' = base /\ trail' = trail /\ (\A r \in Recs : Told(r)' = Told(r))
      /\ Absent \notin Vals /\ Gone \notin Vals /\ Gone # Absent
  BY AuditAssumption DEF Inside, Write, Create, Unlink, Told, AuditAssumption, Gone, Absent
<1>5. Top \in Frames /\ Top.ids \subseteq Recs /\ (Top.op # "unlink" => Top.val \in Vals)
  BY TopIs DEF Frames, Write, Create, Unlink
<1>6. ASSUME NEW r \in Recs
      PROVE  /\ cache[r] = Gone => cache'[r] = Gone
             /\ r \notin Top.ids => cache'[r] = cache[r]
             /\ r \in Top.ids /\ Top.op # "unlink" => cache'[r] = Top.val /\ cache'[r] # Gone
             /\ r \in Top.ids /\ Top.op = "unlink" => cache'[r] = Gone
  <2>1. CASE Write
    BY <1>4, <1>5, <2>1 DEF Write, Live
  <2>2. CASE Create
    BY <1>4, <1>5, <2>2 DEF Create
  <2>3. CASE Unlink
    BY <1>4, <1>5, <2>3 DEF Unlink, Live
  <2> QED
    BY <2>1, <2>2, <2>3
<1>7. GoneInv'
  <2> SUFFICES ASSUME Regime("full") \/ Regime("fast"), NEW r \in Recs
               PROVE  /\ cache'[r] = Gone /\ base'[r] # Gone => HasTold(r, Gone)
                      /\ \A i \in DOMAIN stack' : On(i, "unlink", r)' => HasTold(r, Gone)
    BY <1>3, <1>4 DEF GoneInv, DeletionTold, HasTold
  <2>1. \A i \in DOMAIN stack' : On(i, "unlink", r)' => HasTold(r, Gone)
    BY <1>1, <1>2 DEF Ops, ToldInv, GoneInv, DeletionTold, HasTold
  <2>2. ASSUME cache'[r] = Gone, base'[r] # Gone PROVE HasTold(r, Gone)
    <3>1. CASE cache[r] = Gone
      BY <1>4, <2>2, <3>1 DEF ToldInv, GoneInv, DeletionTold, HasTold
    <3>2. CASE cache[r] # Gone
      BY <1>1, <1>2, <1>6, <2>1, <2>2, <3>2 DEF Ops, On, Is
    <3> QED
      BY <3>1, <3>2
  <2> QED
    BY <2>1, <2>2
<1>8. FastInv'
  <2> SUFFICES ASSUME Regime("fast"), NEW r \in Recs, cache'[r] \notin {base'[r], Falsy, Gone}
               PROVE  \/ \E i \in Told(r) : trail[r][i].new = cache'[r]
                      \/ \E i \in DOMAIN stack' :
                           /\ On(i, "create", r)' \/ On(i, "write", r)'
                           /\ stack'[i].after /\ stack'[i].val = cache'[r]
    BY <1>3, <1>4 DEF FastInv
  <2>1. CASE r \in Top.ids
    <3>1. Top.op # "unlink" /\ cache'[r] = Top.val
      BY <1>6, <2>1
    <3>2. Top.op = "create" \/ Top.op = "write"
      BY <1>5, <3>1 DEF Frames, Ops
    <3> QED
      BY <1>1, <2>1, <3>1, <3>2 DEF On, Is
  <2>2. CASE r \notin Top.ids
    <3>1. cache'[r] = cache[r]
      BY <1>6, <2>2
    <3>2. CASE \E i \in Told(r) : trail[r][i].new = cache[r]
      BY <3>1, <3>2
    <3>3. ASSUME NEW i \in DOMAIN stack, On(i, "create", r) \/ On(i, "write", r),
                 stack[i].after, stack[i].val = cache[r]
          PROVE  \E k \in DOMAIN stack' :
                   /\ On(k, "create", r)' \/ On(k, "write", r)'
                   /\ stack'[k].after /\ stack'[k].val = cache'[r]
      BY <1>1, <1>2, <3>1, <3>3 DEF Ops
    <3> QED
      BY <1>4, <3>1, <3>2, <3>3 DEF ToldInv, FastInv
  <2> QED
    BY <2>1, <2>2
<1>9. FullInv'
  <2> SUFFICES ASSUME Regime("full"), NEW r \in Recs
               PROVE  (/\ db[r] # cache[r] => Covered(r)
                       /\ cache[r] # Gone /\ Steady(r) =>
                            /\ \A i \in DOMAIN stack :
                                 Full(i) /\ r \in stack[i].ids => TellsUpTo(r, stack[i].old[r])
                            /\ ~Covered(r) => TellsUpTo(r, cache[r]))'
    BY <1>3 DEF FullInv
  <2>1. (Covered(r)' <=> Covered(r)) /\ (Steady(r)' <=> Steady(r))
    BY <1>1, <1>2 DEF Covered, Steady, Ops
  <2>2. r \in Top.ids /\ Top.op = "write" => Covered(r)
    <3>1. SUFFICES ASSUME r \in Top.ids, Top.op = "write" PROVE Covered(r)
      OBVIOUS
    <3>2. proc # None /\ How("write") = "full"
      BY DEF Regime, Ops
    <3>3. \E i \in DOMAIN stack : Full(i) /\ stack[i].ids = stack[n].ids
      BY <1>1, <3>1, <3>2 DEF CallInv, GuardInv, Is
    <3> QED
      BY <1>1, <3>1, <3>3 DEF Covered
  <2>3. r \in Top.ids /\ Top.op # "write" => ~Steady(r)
    BY <1>1, <1>5 DEF Steady, On, Is, Frames, Ops
  <2>4. db'[r] # cache'[r] => Covered(r)'
    <3>1. CASE Write
      <4>1. db'[r] = db[r] /\ Top.op = "write"
        BY <3>1 DEF Write
      <4> QED
        BY <1>6, <2>1, <2>2, <4>1 DEF ToldInv, FullInv
    <3>2. CASE Create
      <4>1. r \in Top.ids => db'[r] = cache'[r]
        BY <3>2 DEF Create
      <4>2. r \notin Top.ids => db'[r] = db[r]
        BY <3>2 DEF Create
      <4> QED
        BY <1>6, <2>1, <4>1, <4>2 DEF ToldInv, FullInv
    <3>3. CASE Unlink
      BY <3>3 DEF Unlink
    <3> QED
      BY <3>1, <3>2, <3>3
  <2>5. ASSUME NEW i \in DOMAIN stack', Full(i)', r \in stack'[i].ids, cache'[r] # Gone, Steady(r)'
        PROVE  TellsUpTo(r, stack[i].old[r])'
    <3>1. TellsUpTo(r, stack[i].old[r])
      BY <1>1, <1>2, <1>6, <2>1, <2>5 DEF ToldInv, FullInv
    <3> QED
      BY <1>1, <1>4, <3>1 DEF TellsUpTo
  <2>6. ASSUME cache'[r] # Gone, Steady(r)', ~Covered(r)' PROVE TellsUpTo(r, cache[r])'
    <3>1. r \notin Top.ids
      BY <2>1, <2>2, <2>3, <2>6
    <3>2. cache'[r] = cache[r]
      BY <1>6, <3>1
    <3>3. TellsUpTo(r, cache[r])
      BY <2>1, <2>6, <3>2 DEF ToldInv, FullInv
    <3> QED
      BY <1>4, <3>2, <3>3 DEF TellsUpTo
  <2> QED
    BY <2>4, <2>5, <2>6
<1> QED
  BY <1>7, <1>8, <1>9 DEF ToldInv

\* A call that ends, by what it leaves: logs stay, the other calls go on.
LEMMA PopIsQuiet ==
  ASSUME TxTypes, CallInv, ToldInv, Inside, cache' = cache, stack # <<>>, Pop,
         \A r \in Recs : \E more \in Lines : Logged(r, more)
  PROVE  /\ GoneInv'
         /\ \A r \in Recs : \A w : HasTold(r, w) => HasTold(r, w)'
         /\ \A i \in DOMAIN stack : i # Len(stack) =>
              /\ i \in DOMAIN stack' /\ stack'[i] = stack[i] /\ i < Len(stack)
              /\ Full(i)' <=> Full(i)
              /\ \A r \in Recs : \A op \in Ops : On(i, op, r)' <=> On(i, op, r)
         /\ DOMAIN stack' = DOMAIN stack \ {Len(stack)}
<1>0. PICK n : n = Len(stack)
  OBVIOUS
<1>1. /\ n \in DOMAIN stack /\ DOMAIN stack' = DOMAIN stack \ {n}
      /\ \A i \in DOMAIN stack : i # n => i < n /\ stack'[i] = stack[i]
  BY <1>0, PopIs DEF Pop
<1>2. \A i \in DOMAIN stack : i # n =>
        /\ Full(i)' <=> Full(i)
        /\ \A r \in Recs : \A op \in Ops : On(i, op, r)' <=> On(i, op, r)
  BY <1>1 DEF Full, On, Is
<1>3. \A r \in Recs : \A w : HasTold(r, w) => HasTold(r, w)'
  BY StaysTold
<1>4. GoneInv'
  <2> SUFFICES ASSUME Regime("full") \/ Regime("fast"), NEW r \in Recs
               PROVE  /\ cache'[r] = Gone /\ base'[r] # Gone => HasTold(r, Gone)'
                      /\ \A i \in DOMAIN stack' : On(i, "unlink", r)' => HasTold(r, Gone)'
    BY SameHow DEF GoneInv, DeletionTold, HasTold
  <2>1. /\ cache[r] = Gone /\ base[r] # Gone => HasTold(r, Gone)
        /\ \A i \in DOMAIN stack : On(i, "unlink", r) => HasTold(r, Gone)
    BY DEF ToldInv, GoneInv, DeletionTold, HasTold
  <2> QED
    BY <1>1, <1>2, <1>3, <2>1 DEF Inside, Ops
<1> QED
  BY <1>0, <1>1, <1>2, <1>3, <1>4

\* A write that ends tells what it has done.
LEMMA EndWriteToldInv ==
  ASSUME TxTypes, CallInv, ToldInv, Inside, EndWrite
  PROVE  ToldInv'
<1>0. PICK n : n = Len(stack)
  OBVIOUS
<1>1. /\ stack # <<>> /\ Pop /\ cache' = cache /\ base' = base
      /\ n \in DOMAIN stack /\ stack[n] = Top /\ Top.op = "write"
      /\ \A i \in DOMAIN stack : i <= n
  BY <1>0, PopIs DEF EndWrite, Pop, Inside
<1>2. /\ Top \in Frames /\ Top.ids \subseteq Recs
      /\ Top.old \in [Top.ids -> Values] /\ Top.val \in Vals
  BY <1>1, TopIs DEF Frames
<1>3. Unknown \notin Vals /\ Vals \subseteq Values
  BY AuditAssumption DEF AuditAssumption, Values
<1> DEFINE D == {x \in Top.ids : cache[x] \in Vals}
<1>4. /\ WriteLines \in [D -> Lines]
      /\ \A r \in Recs : Logged(r, IF Top.mode # "no" /\ ~excluded /\ r \in D
                                   THEN WriteLines[r] ELSE <<>>)
  <2>1. D \in SUBSET Recs
    BY <1>2
  <2>2. WriteLines \in [D -> Lines]
    BY <1>1, WriteLinesAre
  <2> QED
    BY <2>1, <2>2, LogsAre DEF EndWrite
<1>5. \A r \in Recs : \E more \in Lines : Logged(r, more)
  BY <1>4 DEF Lines
<1>6. /\ GoneInv'
      /\ \A r \in Recs : \A w : HasTold(r, w) => HasTold(r, w)'
      /\ \A i \in DOMAIN stack : i # n =>
           /\ i \in DOMAIN stack' /\ stack'[i] = stack[i]
           /\ Full(i)' <=> Full(i)
           /\ \A r \in Recs : \A op \in Ops : On(i, op, r)' <=> On(i, op, r)
      /\ DOMAIN stack' = DOMAIN stack \ {n}
  BY <1>0, <1>1, <1>5, PopIsQuiet
<1>7. FastInv'
  <2> SUFFICES ASSUME Regime("fast"), NEW r \in Recs, cache[r] \notin {base[r], Falsy, Gone}
               PROVE  \/ HasTold(r, cache[r])'
                      \/ \E i \in DOMAIN stack' :
                           /\ On(i, "create", r)' \/ On(i, "write", r)'
                           /\ stack'[i].after /\ stack'[i].val = cache[r]
    BY <1>1, SameHow DEF FastInv, HasTold
  <2>1. CASE HasTold(r, cache[r])
    <3>1. PICK w : w = cache[r]
      OBVIOUS
    <3>2. HasTold(r, w)'
      BY <1>6, <2>1, <3>1
    <3> QED
      BY <1>1, <3>1, <3>2 DEF HasTold
  <2>2. ASSUME NEW i \in DOMAIN stack, On(i, "create", r) \/ On(i, "write", r),
               stack[i].after, stack[i].val = cache[r]
        PROVE  \/ HasTold(r, cache[r])'
               \/ \E k \in DOMAIN stack' :
                    /\ On(k, "create", r)' \/ On(k, "write", r)'
                    /\ stack'[k].after /\ stack'[k].val = cache[r]
    <3>1. CASE i # n
      BY <1>6, <2>2, <3>1 DEF Ops
    <3>2. CASE i = n
      <4>1. r \in Top.ids /\ Top.val = cache[r] /\ r \in D
        BY <1>1, <1>2, <2>2, <3>2 DEF On, Is
      <4>2. Top.mode = "fast"
        BY <1>1 DEF Regime, CallInv, ModeInv, Ops
      <4>3. PICK e : e = [old |-> Unknown, new |-> cache[r]]
        OBVIOUS
      <4>4. WriteLines[r] = <<e>>
        BY <4>1, <4>2, <4>3 DEF WriteLines
      <4>5. Logged(r, <<e>>)
        BY <1>4, <4>1, <4>2, <4>4 DEF Regime
      <4>6. e \in Logs /\ e.new = cache[r] /\ e.new # Unknown
        BY <1>2, <1>3, <4>1, <4>3 DEF Logs
      <4>7. HasTold(r, e.new)'
        BY <4>5, <4>6, NowTold
      <4> QED
        BY <1>1, <4>6, <4>7 DEF HasTold
    <3> QED
      BY <3>1, <3>2
  <2> QED
    BY <2>1, <2>2 DEF ToldInv, FastInv, HasTold
<1>8. FullInv'
  <2> SUFFICES ASSUME Regime("full"), NEW r \in Recs
               PROVE  (/\ db[r] # cache[r] => Covered(r)
                       /\ cache[r] # Gone /\ Steady(r) =>
                            /\ \A i \in DOMAIN stack :
                                 Full(i) /\ r \in stack[i].ids => TellsUpTo(r, stack[i].old[r])
                            /\ ~Covered(r) => TellsUpTo(r, cache[r]))'
    BY SameHow DEF FullInv
  <2>1. ~excluded /\ (Full(n) <=> Top.mode = "full") /\ (Top.mode = "full" \/ Top.mode = "no")
    BY <1>1 DEF Regime, Ops, CallInv, ModeInv, Full, Is
  <2>2. Steady(r)' => Steady(r)
    BY <1>1, <1>6 DEF Steady, On, Is, Ops
  <2>3. Covered(r) /\ ~(Full(n) /\ r \in Top.ids) => Covered(r)'
    BY <1>1, <1>6 DEF Covered
  <2>4. db'[r] # cache'[r] => Covered(r)'
    <3>1. CASE Full(n) /\ r \in Top.ids
      BY <1>1, <2>1, <3>1 DEF EndWrite
    <3>2. CASE ~(Full(n) /\ r \in Top.ids)
      <4>1. db'[r] = db[r]
        BY <2>1, <3>2 DEF EndWrite
      <4> QED
        BY <1>1, <2>3, <3>2, <4>1 DEF ToldInv, FullInv
    <3> QED
      BY <3>1, <3>2
  <2>5. ASSUME ~(Full(n) /\ r \in Top.ids), NEW v, TellsUpTo(r, v) PROVE TellsUpTo(r, v)'
    <3>1. Logged(r, <<>>)
      BY <1>4, <2>1, <2>5
    <3> QED
      BY <1>1, <2>5, <3>1, StillTells
  <2>6. ASSUME NEW i \in DOMAIN stack', Full(i)', r \in stack'[i].ids, cache'[r] # Gone, Steady(r)'
        PROVE  TellsUpTo(r, stack[i].old[r])'
    <3>1. i \in DOMAIN stack /\ i # n /\ stack'[i] = stack[i] /\ Full(i)
      BY <1>6, <2>6
    <3>2. ~(Full(n) /\ r \in Top.ids)
      <4>1. SUFFICES ASSUME Full(n), r \in Top.ids PROVE FALSE
        OBVIOUS
      <4>2. stack[i].ids = stack[n].ids
        BY <1>1, <2>6, <3>1, <4>1 DEF CallInv, GuardInv, Full
      <4> QED
        BY <1>1, <3>1, <4>1, <4>2 DEF CallInv, GuardInv
    <3>3. PICK v : v = stack[i].old[r]
      OBVIOUS
    <3>4. TellsUpTo(r, v)
      BY <1>1, <2>2, <2>6, <3>1, <3>3 DEF ToldInv, FullInv
    <3>5. TellsUpTo(r, v)'
      BY <2>5, <3>2, <3>4
    <3> QED
      BY <3>1, <3>3, <3>5 DEF TellsUpTo
  <2>7. ASSUME cache'[r] # Gone, Steady(r)', ~Covered(r)' PROVE TellsUpTo(r, cache[r])'
    <3>0. PICK w : w = cache[r]
      OBVIOUS
    <3>1. CASE ~(Full(n) /\ r \in Top.ids)
      <4>1. TellsUpTo(r, w)
        BY <1>1, <2>2, <2>3, <2>7, <3>0, <3>1 DEF ToldInv, FullInv
      <4>2. TellsUpTo(r, w)'
        BY <2>5, <3>1, <4>1
      <4> QED
        BY <1>1, <3>0, <4>2 DEF TellsUpTo
    <3>2. CASE Full(n) /\ r \in Top.ids
      <4>1. PICK v : v = Top.old[r]
        OBVIOUS
      <4>2. TellsUpTo(r, v) /\ v \in Values
        BY <1>1, <1>2, <2>2, <2>7, <3>2, <4>1 DEF ToldInv, FullInv
      <4>3. w \in Vals
        <5>1. w # Absent
          BY <1>1, <3>0, <3>2 DEF CallInv, LifeInv, On, Is
        <5> QED
          BY <1>1, <2>7, <3>0, <5>1 DEF TxTypes, Values
      <4>4. r \in D
        BY <3>0, <3>2, <4>3
      <4>5. CASE v = w
        <5>1. WriteLines[r] = <<>>
          BY <2>1, <3>0, <3>2, <4>1, <4>4, <4>5 DEF WriteLines
        <5>2. Logged(r, <<>>)
          BY <1>4, <2>1, <3>2, <4>4, <5>1
        <5>3. TellsUpTo(r, v)'
          BY <1>1, <4>2, <5>2, StillTells
        <5> QED
          BY <1>1, <3>0, <4>5, <5>3 DEF TellsUpTo
      <4>6. CASE v # w
        <5>1. WriteLines[r] = <<[old |-> v, new |-> w]>>
          BY <2>1, <3>0, <3>2, <4>1, <4>4, <4>6 DEF WriteLines
        <5>2. Logged(r, <<[old |-> v, new |-> w]>>)
          BY <1>4, <2>1, <3>2, <4>4, <5>1
        <5>3. TellsUpTo(r, w)'
          BY <1>1, <1>3, <4>2, <4>3, <5>2, TellsNext
        <5> QED
          BY <1>1, <3>0, <5>3 DEF TellsUpTo
      <4> QED
        BY <4>5, <4>6
    <3> QED
      BY <3>1, <3>2
  <2> QED
    BY <2>4, <2>6, <2>7
<1> QED
  BY <1>6, <1>7, <1>8 DEF ToldInv

\* A creation that ends tells the value that the record has by then.
LEMMA EndCreateToldInv ==
  ASSUME TxTypes, CallInv, ToldInv, Inside, EndCreate
  PROVE  ToldInv'
<1>0. PICK n : n = Len(stack)
  OBVIOUS
<1>1. /\ stack # <<>> /\ Pop /\ cache' = cache /\ db' = db /\ base' = base
      /\ n \in DOMAIN stack /\ stack[n] = Top /\ Top.op = "create" /\ Top.after
      /\ Live(Top.ids) /\ \A i \in DOMAIN stack : i <= n
  BY <1>0, PopIs DEF EndCreate, Pop, Inside
<1>2. Top \in Frames /\ Top.ids \subseteq Recs /\ Top.val \in Vals
  BY <1>1, TopIs DEF Frames
<1>3. Unknown \notin Vals /\ Vals \subseteq Values /\ Absent \in Values
  BY AuditAssumption DEF AuditAssumption, Values
<1>4. /\ CreateLines \in [Top.ids -> Lines]
      /\ \A r \in Recs : Logged(r, IF Top.mode # "no" /\ ~excluded /\ r \in Top.ids
                                   THEN CreateLines[r] ELSE <<>>)
  <2>1. CreateLines \in [Top.ids -> Lines]
    BY <1>1, CreateLinesAre
  <2> QED
    BY <1>2, <2>1, LogsAre DEF EndCreate
<1>5. \A r \in Recs : \E more \in Lines : Logged(r, more)
  BY <1>4 DEF Lines
<1>6. /\ GoneInv'
      /\ \A r \in Recs : \A w : HasTold(r, w) => HasTold(r, w)'
      /\ \A i \in DOMAIN stack : i # n =>
           /\ i \in DOMAIN stack' /\ stack'[i] = stack[i]
           /\ Full(i)' <=> Full(i)
           /\ \A r \in Recs : \A op \in Ops : On(i, op, r)' <=> On(i, op, r)
      /\ DOMAIN stack' = DOMAIN stack \ {n}
  BY <1>0, <1>1, <1>5, PopIsQuiet
<1>7. FastInv'
  <2> SUFFICES ASSUME Regime("fast"), NEW r \in Recs, cache[r] \notin {base[r], Falsy, Gone}
               PROVE  \/ HasTold(r, cache[r])'
                      \/ \E i \in DOMAIN stack' :
                           /\ On(i, "create", r)' \/ On(i, "write", r)'
                           /\ stack'[i].after /\ stack'[i].val = cache[r]
    BY <1>1, SameHow DEF FastInv, HasTold
  <2>1. CASE HasTold(r, cache[r])
    <3>1. PICK w : w = cache[r]
      OBVIOUS
    <3>2. HasTold(r, w)'
      BY <1>6, <2>1, <3>1
    <3> QED
      BY <1>1, <3>1, <3>2 DEF HasTold
  <2>2. ASSUME NEW i \in DOMAIN stack, On(i, "create", r) \/ On(i, "write", r),
               stack[i].after, stack[i].val = cache[r]
        PROVE  \/ HasTold(r, cache[r])'
               \/ \E k \in DOMAIN stack' :
                    /\ On(k, "create", r)' \/ On(k, "write", r)'
                    /\ stack'[k].after /\ stack'[k].val = cache[r]
    <3>1. CASE i # n
      BY <1>6, <2>2, <3>1 DEF Ops
    <3>2. CASE i = n
      <4>1. r \in Top.ids /\ Top.val = cache[r]
        BY <1>1, <2>2, <3>2 DEF On, Is
      <4>2. Top.mode = "fast"
        BY <1>1 DEF Regime, CallInv, ModeInv, Ops
      <4>3. PICK e : e = [old |-> Absent, new |-> cache[r]]
        OBVIOUS
      <4>4. CreateLines[r] = <<e>>
        BY <4>1, <4>2, <4>3 DEF CreateLines
      <4>5. Logged(r, <<e>>)
        BY <1>4, <4>1, <4>2, <4>4 DEF Regime
      <4>6. e \in Logs /\ e.new = cache[r] /\ e.new # Unknown
        BY <1>2, <1>3, <4>1, <4>3 DEF Logs
      <4>7. HasTold(r, e.new)'
        BY <4>5, <4>6, NowTold
      <4> QED
        BY <1>1, <4>6, <4>7 DEF HasTold
    <3> QED
      BY <3>1, <3>2
  <2> QED
    BY <2>1, <2>2 DEF ToldInv, FastInv, HasTold
<1>8. FullInv'
  <2> SUFFICES ASSUME Regime("full"), NEW r \in Recs
               PROVE  (/\ db[r] # cache[r] => Covered(r)
                       /\ cache[r] # Gone /\ Steady(r) =>
                            /\ \A i \in DOMAIN stack :
                                 Full(i) /\ r \in stack[i].ids => TellsUpTo(r, stack[i].old[r])
                            /\ ~Covered(r) => TellsUpTo(r, cache[r]))'
    BY SameHow DEF FullInv
  <2>1. ~excluded /\ Top.mode = "full" /\ ~Full(n)
    BY <1>1 DEF Regime, Ops, CallInv, ModeInv, Full, Is
  <2>2. Covered(r)' <=> Covered(r)
    BY <1>6, <2>1 DEF Covered
  <2>3. db'[r] # cache'[r] => Covered(r)'
    BY <1>1, <2>2 DEF ToldInv, FullInv
  <2>4. CASE r \notin Top.ids
    <3>1. Steady(r)' => Steady(r)
      BY <1>1, <1>6, <2>4 DEF Steady, On, Is, Ops
    <3>2. Logged(r, <<>>)
      BY <1>4, <2>4
    <3>3. \A v : TellsUpTo(r, v) => TellsUpTo(r, v)'
      BY <1>1, <3>2, StillTells
    <3>4. ASSUME NEW i \in DOMAIN stack', Full(i)', r \in stack'[i].ids, cache'[r] # Gone, Steady(r)'
          PROVE  TellsUpTo(r, stack[i].old[r])'
      <4>1. PICK v : v = stack[i].old[r]
        OBVIOUS
      <4>2. TellsUpTo(r, v)
        BY <1>1, <1>6, <3>1, <3>4, <4>1 DEF ToldInv, FullInv
      <4>3. TellsUpTo(r, v)'
        BY <3>3, <4>2
      <4> QED
        BY <1>6, <4>1, <4>3 DEF TellsUpTo
    <3>5. ASSUME cache'[r] # Gone, Steady(r)', ~Covered(r)' PROVE TellsUpTo(r, cache[r])'
      <4>1. PICK v : v = cache[r]
        OBVIOUS
      <4>2. TellsUpTo(r, v)
        BY <1>1, <2>2, <3>1, <3>5, <4>1 DEF ToldInv, FullInv
      <4>3. TellsUpTo(r, v)'
        BY <3>3, <4>2
      <4> QED
        BY <1>1, <4>1, <4>3 DEF TellsUpTo
    <3> QED
      BY <2>3, <3>4, <3>5
  <2>5. CASE r \in Top.ids
    <3>1. base[r] = Absent /\ cache[r] \in Vals
      BY <1>1, <2>5 DEF CallInv, LifeInv, Is, Live
    <3>2. ~Covered(r)
      <4>1. SUFFICES ASSUME NEW i \in DOMAIN stack, Full(i), r \in stack[i].ids PROVE FALSE
        BY DEF Covered
      <4>2. n < i
        BY <1>1, <2>5, <4>1 DEF CallInv, LifeInv, Full, On, Is
      <4> QED
        BY <1>1, <4>2 DEF TxTypes
    <3>3. db[r] = cache[r]
      BY <3>2 DEF ToldInv, FullInv
    <3>4. PICK w : w = cache[r]
      OBVIOUS
    <3>5. CreateLines[r] = <<[old |-> Absent, new |-> w]>>
      BY <2>1, <2>5, <3>3, <3>4 DEF CreateLines, Rows
    <3>6. Logged(r, <<[old |-> Absent, new |-> w]>>)
      BY <1>4, <2>1, <2>5, <3>5
    <3>7. TellsUpTo(r, w)'
      BY <1>1, <1>3, <3>1, <3>4, <3>6, TellsNext
    <3>8. TellsUpTo(r, cache[r])'
      BY <1>1, <3>4, <3>7 DEF TellsUpTo
    <3> QED
      BY <2>2, <2>3, <3>2, <3>8 DEF Covered
  <2> QED
    BY <2>4, <2>5
<1> QED
  BY <1>6, <1>7, <1>8 DEF ToldInv

\* A deletion that ends has nothing more to tell.
LEMMA EndUnlinkToldInv ==
  ASSUME TxTypes, CallInv, ToldInv, Inside, EndUnlink
  PROVE  ToldInv'
<1>0. PICK n : n = Len(stack)
  OBVIOUS
<1>1. /\ stack # <<>> /\ Pop /\ cache' = cache /\ db' = db /\ base' = base /\ trail' = trail
      /\ n \in DOMAIN stack /\ stack[n] = Top /\ Top.op = "unlink" /\ Top.after
  BY <1>0, PopIs DEF EndUnlink, Pop, Inside
<1>2. \A r \in Recs : \E more \in Lines : Logged(r, more)
  <2>1. \A r \in Recs : trail[r] \o <<>> = trail[r]
    BY DEF TxTypes
  <2> QED
    BY <1>1, <2>1 DEF Logged, Lines
<1>3. /\ GoneInv'
      /\ \A i \in DOMAIN stack : i # n =>
           /\ i \in DOMAIN stack' /\ stack'[i] = stack[i]
           /\ Full(i)' <=> Full(i)
           /\ \A r \in Recs : \A op \in Ops : On(i, op, r)' <=> On(i, op, r)
      /\ DOMAIN stack' = DOMAIN stack \ {n}
  BY <1>0, <1>1, <1>2, PopIsQuiet
<1>4. \A r \in Recs : r \in Top.ids => cache[r] = Gone
  BY <1>1 DEF CallInv, LifeInv, On, Is
<1>5. ~Full(n) /\ \A r \in Recs : ~On(n, "write", r) /\ ~On(n, "create", r)
  BY <1>1 DEF Full, On, Is
<1>6. \A r \in Recs : Told(r)' = Told(r)
  BY <1>1 DEF Told
<1>7. FastInv'
  BY <1>1, <1>3, <1>5, <1>6, SameHow DEF ToldInv, FastInv, Ops
<1>8. FullInv'
  <2> SUFFICES ASSUME Regime("full"), NEW r \in Recs
               PROVE  (/\ db[r] # cache[r] => Covered(r)
                       /\ cache[r] # Gone /\ Steady(r) =>
                            /\ \A i \in DOMAIN stack :
                                 Full(i) /\ r \in stack[i].ids => TellsUpTo(r, stack[i].old[r])
                            /\ ~Covered(r) => TellsUpTo(r, cache[r]))'
    BY SameHow DEF FullInv
  <2>1. Covered(r)' <=> Covered(r)
    BY <1>3, <1>5 DEF Covered
  <2>2. cache[r] # Gone /\ Steady(r)' => Steady(r)
    BY <1>1, <1>3, <1>4 DEF Steady, On, Is, Ops
  <2>3. db'[r] # cache'[r] => Covered(r)'
    BY <1>1, <2>1 DEF ToldInv, FullInv
  <2>4. ASSUME NEW i \in DOMAIN stack', Full(i)', r \in stack'[i].ids, cache'[r] # Gone, Steady(r)'
        PROVE  TellsUpTo(r, stack[i].old[r])'
    <3>1. TellsUpTo(r, stack[i].old[r])
      BY <1>1, <1>3, <2>2, <2>4 DEF ToldInv, FullInv
    <3> QED
      BY <1>1, <1>3, <1>6, <3>1 DEF TellsUpTo
  <2>5. ASSUME cache'[r] # Gone, Steady(r)', ~Covered(r)' PROVE TellsUpTo(r, cache[r])'
    <3>1. TellsUpTo(r, cache[r])
      BY <1>1, <2>1, <2>2, <2>5 DEF ToldInv, FullInv
    <3> QED
      BY <1>1, <1>6, <3>1 DEF TellsUpTo
  <2> QED
    BY <2>3, <2>4, <2>5
<1> QED
  BY <1>3, <1>7, <1>8 DEF ToldInv

-----------------------------------------------------------------------------
(* The steps of the whole system                                           *)

\* A transaction that begins anew has nothing to show.
LEMMA BegunAnew ==
  (TxTypes /\ Untouched)' => TxInv'
<1>1. TxTypes /\ Untouched => TxInv
  BY NothingDone DEF TxInv
<1> QED
  BY <1>1, PTL

\* The rule changes, or a registry other than that of the request: nothing that the
\* transaction sees.
LEMMA ElsewhereInv ==
  ASSUME TxInv, UNCHANGED txVars, patched' \in [Procs -> [Methods -> Modes]], rule' \in Rules,
         proc # None => patched'[proc] = patched[proc]
  PROVE  TxInv'
<1>1. TxTypes'
  BY DEF TxInv, TxTypes, txVars
<1>2. CASE proc = None
  <2>1. Untouched'
    BY <1>2 DEF TxInv, IdleInv, Untouched, txVars
  <2> QED
    BY <1>1, <2>1, BegunAnew
<1>3. CASE proc # None
  <2>1. \A m : How(m)' = How(m)
    BY <1>3 DEF How, txVars
  <2>2. \A type : Regime(type)' <=> Regime(type)
    BY <2>1 DEF Regime, txVars
  <2>3. IdleInv'
    BY <1>3 DEF IdleInv, txVars
  <2>4. CallInv'
    BY <2>1 DEF TxInv, CallInv, ModeInv, LifeInv, GuardInv, On, Is, Full, txVars
  <2>5. ToldInv'
    BY <2>2 DEF TxInv, ToldInv, GoneInv, FullInv, FastInv, DeletionTold, Told, TellsUpTo,
                Covered, Steady, On, Is, Full, txVars
  <2> QED
    BY <1>1, <2>3, <2>4, <2>5 DEF TxInv
<1> QED
  BY <1>2, <1>3

\* What the buttons and the form of the rule, and a new registry, do is elsewhere.
LEMMA RuleTxInv ==
  ASSUME TxInv,
         \/ Signal
         \/ \E p \in Procs : Administer(p) \/ Reload(p) \/ Restart(p)
  PROVE  TxInv'
<1>1. /\ rule \in Rules /\ patched \in [Procs -> [Methods -> Modes]]
      /\ \A r \in Rules : r.type \in Modes
  BY AuditAssumption DEF TxInv, TxTypes, AuditAssumption, Modes
<1>2. ASSUME NEW methods \in [Methods -> Modes], NEW s, NEW r \in Rules
      PROVE  /\ PatchMethods(methods, s, r) \in [Methods -> Modes]
             /\ RevertMethods(methods) \in [Methods -> Modes]
  BY <1>1, <1>2 DEF PatchMethods, RevertMethods, Modes
<1>3. Unpatched \in [Methods -> Modes]
  BY DEF Unpatched, Modes
<1>4. CASE Signal
  BY <1>1, <1>4, ElsewhereInv DEF Signal
<1>5. ASSUME NEW p \in Procs, NEW s, NEW r \in Rules, NEW imported,
             NEW methods \in [Methods -> Modes], Change(p, s, r, methods, imported)
      PROVE  TxInv'
  BY <1>1, <1>5, ElsewhereInv DEF Change, CanAdminister, Committed, RolledBack
<1>6. ASSUME NEW p \in Procs, NEW r \in Rules, NEW imported, NEW s,
             CreateRule(p, s, r, imported) \/ EditRule(p, r, imported)
      PROVE  TxInv'
  BY <1>1, <1>2, <1>5, <1>6 DEF CreateRule, EditRule
<1>7. ASSUME NEW p \in Procs, NEW imported,
             UnlinkRule(p) \/ SetToConfirmed(p, imported) \/ SetToDraft(p)
      PROVE  TxInv'
  BY <1>1, <1>2, <1>5, <1>7 DEF UnlinkRule, SetToConfirmed, SetToDraft
<1>8. ASSUME NEW p \in Procs, Reload(p) \/ Restart(p) PROVE TxInv'
  <2>1. p # proc /\ RegisterHook(p)
    BY <1>8 DEF Reload, Restart
  <2>2. /\ UNCHANGED txVars /\ rule' = rule
        /\ patched' = [patched EXCEPT ![p] = PatchMethods(Unpatched, state, rule)]
    BY <2>1 DEF RegisterHook
  <2>3. PatchMethods(Unpatched, state, rule) \in [Methods -> Modes]
    BY <1>1, <1>2, <1>3
  <2> QED
    BY <1>1, <2>1, <2>2, <2>3, ElsewhereInv DEF TxInv, TxTypes
<1> QED
  BY <1>4, <1>6, <1>7, <1>8 DEF Administer

\* A transaction starts from what was committed, and ends or is run again with that.
LEMMA OverTxInv ==
  ASSUME TxInv, \/ \E p \in Procs, ex \in BOOLEAN : Begin(p, ex)
                \/ Commit \/ Abort \/ Retry
  PROVE  TxInv'
<1>1. rule' = rule /\ patched' = patched /\ proc' \in Procs \cup {None}
  BY DEF TxInv, TxTypes, Begin, Commit, Abort, Retry, Over, ruleVars
<1>2. (TxTypes /\ Untouched)'
  <2>1. ASSUME NEW p \in Procs, NEW ex \in BOOLEAN, Begin(p, ex) PROVE (TxTypes /\ Untouched)'
    BY <1>1, <2>1 DEF TxInv, TxTypes, IdleInv, Untouched, Begin
  <2>2. ASSUME NEW values \in [Recs -> Values], Over(values) PROVE (TxTypes /\ Untouched)'
    <3>1. stack' \in Seq(Frames) /\ trail' \in [Recs -> Seq(Logs)] /\ DOMAIN stack' = {}
      BY <2>2 DEF Over
    <3> QED
      BY <1>1, <2>2, <3>1 DEF TxInv, TxTypes, Untouched, Over
  <2> QED
    BY <2>1, <2>2 DEF TxInv, TxTypes, Commit, Abort, Retry
<1> QED
  BY <1>2, BegunAnew

\* A call begins.
LEMMA BeginTxInv ==
  ASSUME TxInv, Rewrites = FALSE,
         \/ \E ids \in SUBSET Recs : BeginUnlink(ids) \/ \E v \in Vals : BeginWrite(ids, v)
         \/ \E r \in Recs, v \in Vals : BeginCreate(r, v)
  PROVE  TxInv'
<1>1. TxTypes' /\ Inside /\ IdleInv' /\ TxTypes /\ CallInv /\ ToldInv
  BY StepTypes, CallsAreInside DEF TxInv, IdleInv, Inside
<1>2. \A m \in Methods : How(m) \in Modes
  BY <1>1, HowIs DEF Inside
<1>3. trail' = trail => \A r \in Recs : Logged(r, <<>>)
  BY <1>1 DEF TxTypes, Logged
<1>4. <<>> \in Lines
  BY DEF Lines
<1>5. ASSUME NEW ids \in SUBSET Recs, NEW v \in Vals, BeginWrite(ids, v) PROVE CallInv' /\ ToldInv'
  <2>1. GuardedMode(ids) \in Modes
    BY <1>2 DEF GuardedMode, Methods, Modes
  <2>2. /\ ids # {} /\ Live(ids) /\ ~IsRewrite(ids) /\ v \in Vals \cup {Gone}
        /\ Push("write", ids, v, GuardedMode(ids)) /\ trail' = trail
        /\ guard' = IF GuardedMode(ids) = "full" THEN guard \cup {ids} ELSE guard
        /\ db' = db /\ cache' = cache
    BY <1>5 DEF BeginWrite, Push
  <2>3. /\ GuardedMode(ids) = "full" => ids \notin guard
        /\ \/ GuardedMode(ids) = How("write")
           \/ GuardedMode(ids) = "no" /\ How("write") = "full" /\ ids \in guard
    BY DEF GuardedMode
  <2>4. CallInv'
    BY <1>1, <2>1, <2>2, <2>3, PushCallInv DEF Ops
  <2>5. ToldInv'
    BY <1>1, <1>3, <1>4, <2>1, <2>2, <2>3, PushToldInv DEF Ops
  <2> QED
    BY <2>4, <2>5
<1>6. ASSUME NEW r \in Recs, NEW v \in Vals, BeginCreate(r, v) PROVE CallInv' /\ ToldInv'
  <2>1. /\ {r} \in SUBSET Recs /\ v \in Vals \cup {Gone} /\ How("create") \in Modes
        /\ ~Busy({r}) /\ cache[r] = Absent
        /\ Push("create", {r}, v, How("create")) /\ trail' = trail /\ guard' = guard
        /\ db' = db /\ cache' = cache
    BY <1>2, <1>6 DEF BeginCreate, Push, Methods
  <2>2. CallInv'
    BY <1>1, <2>1, PushCallInv DEF Ops
  <2>3. ToldInv'
    BY <1>1, <1>3, <1>4, <2>1, PushToldInv DEF Ops
  <2> QED
    BY <2>2, <2>3
<1>7. ASSUME NEW ids \in SUBSET Recs, BeginUnlink(ids) PROVE CallInv' /\ ToldInv'
  <2>1. /\ ids # {} /\ Live(ids) /\ How("unlink") \in Modes /\ Gone \in Vals \cup {Gone}
        /\ Push("unlink", ids, Gone, How("unlink")) /\ guard' = guard
        /\ CreateLogs(How("unlink"), UnlinkLines(ids))
        /\ db' = db /\ cache' = cache
    BY <1>2, <1>7 DEF BeginUnlink, Push, Methods
  <2>2. CallInv'
    BY <1>1, <2>1, PushCallInv DEF Ops
  <2>3. UnlinkLines(ids) \in [ids -> Lines]
    BY <1>1, UnlinkLinesAre
  <2>4. \A r \in Recs : Logged(r, IF How("unlink") # "no" /\ ~excluded /\ r \in ids
                                  THEN UnlinkLines(ids)[r] ELSE <<>>)
    BY <1>1, <2>1, <2>3, LogsAre
  <2>5. \A r \in Recs : \E more \in Lines :
          Logged(r, more) /\ (more = <<>> \/ ("unlink" = "unlink" /\ r \in ids))
    BY <1>4, <2>3, <2>4
  <2>6. ASSUME Regime("full") \/ Regime("fast"), NEW r \in ids PROVE HasTold(r, Gone)'
    <3>1. How("unlink") # "no" /\ ~excluded
      BY <2>6 DEF Regime, Ops
    <3>2. PICK e : e = [old |-> IF How("unlink") = "full" THEN cache[r] ELSE Unknown, new |-> Gone]
      OBVIOUS
    <3>3. UnlinkLines(ids)[r] = <<e>>
      BY <3>2 DEF UnlinkLines
    <3>4. Logged(r, <<e>>)
      BY <2>4, <3>1, <3>3
    <3>5. e \in Logs /\ e.new = Gone /\ e.new # Unknown
      BY <1>1, <3>2 DEF TxTypes, Logs, Values, Gone, Unknown
    <3>6. HasTold(r, e.new)'
      BY <1>1, <3>4, <3>5, NowTold
    <3> QED
      BY <3>5, <3>6 DEF Gone
  <2>7. ToldInv'
    BY <1>1, <2>1, <2>5, <2>6, PushToldInv DEF Ops
  <2> QED
    BY <2>2, <2>7
<1> QED
  BY <1>1, <1>5, <1>6, <1>7 DEF TxInv

\* A call goes on, ends, or one that is over at once is made.
LEMMA CallTxInv ==
  ASSUME TxInv,
         \/ \E ids \in SUBSET Recs : Read(ids)
         \/ Write \/ EndWrite \/ Create \/ EndCreate \/ Unlink \/ EndUnlink
         \/ ExportData \/ Flush
  PROVE  TxInv'
<1>1. TxTypes' /\ TxTypes /\ IdleInv /\ CallInv /\ ToldInv
  BY StepTypes DEF TxInv
<1>2. CASE Write \/ Create \/ Unlink
  <2>1. Inside /\ guard' = guard
    BY <1>1, <1>2, CallsAreInside DEF Write, Create, Unlink
  <2>2. CallInv' /\ ToldInv'
    BY <1>1, <1>2, <2>1, PassedCallInv, PassedToldInv
  <2> QED
    BY <1>1, <2>1, <2>2 DEF TxInv, IdleInv, Inside
<1>3. CASE EndWrite \/ EndCreate \/ EndUnlink
  <2>1. Inside
    BY <1>1, <1>3, CallsAreInside
  <2>2. cache' = cache /\ stack # <<>> /\ Pop
    BY <1>3 DEF EndWrite, EndCreate, EndUnlink
  <2>3. CallInv'
    BY <1>1, <2>1, <2>2, PopCallInv
  <2>4. ToldInv'
    BY <1>1, <1>3, <2>1, EndWriteToldInv, EndCreateToldInv, EndUnlinkToldInv
  <2> QED
    BY <1>1, <2>1, <2>3, <2>4 DEF TxInv, IdleInv, Inside
<1>4. CASE (\E ids \in SUBSET Recs : Read(ids)) \/ ExportData \/ Flush
  <2>1. SameCalls
    BY <1>4, SameCallsAre
  <2>2. CallInv'
    BY <1>1, <2>1, SameCallInv
  <2>3. db' = db \/ db' = cache
    BY <1>4 DEF Read, Called, ExportData, Flush
  <2>4. \A r \in Recs : \E more : /\ Logged(r, more)
                                  /\ \/ more = <<>>
                                     \/ \E e \in Logs : more = <<e>> /\ e.new = Unknown
    <3>1. ASSUME NEW ids \in SUBSET Recs, Read(ids), NEW r \in Recs
          PROVE  \E more : /\ Logged(r, more)
                           /\ \/ more = <<>>
                              \/ \E e \in Logs : more = <<e>> /\ e.new = Unknown
      <4>1. ReadLines(ids) \in [ids -> Lines]
        BY <1>1, ReadLinesAre
      <4>2. Logged(r, IF ReadsLogged # "no" /\ ~excluded /\ r \in ids
                      THEN ReadLines(ids)[r] ELSE <<>>)
        BY <1>1, <3>1, <4>1, LogsAre DEF Read
      <4>3. CASE r \in ids
        <5>1. ReadLines(ids)[r] = <<[old |-> cache[r], new |-> Unknown]>>
          BY <4>3 DEF ReadLines
        <5>2. [old |-> cache[r], new |-> Unknown] \in Logs
          BY <1>1 DEF TxTypes, Logs
        <5> QED
          BY <4>2, <5>1, <5>2
      <4> QED
        BY <4>2, <4>3
    <3>2. ASSUME ExportData \/ Flush, NEW r \in Recs PROVE Logged(r, <<>>)
      BY <1>1, <3>2 DEF ExportData, Flush, TxTypes, Logged
    <3> QED
      BY <1>4, <3>1, <3>2
  <2>5. ToldInv'
    BY <1>1, <2>1, <2>3, <2>4, SameToldInv
  <2> QED
    BY <1>1, <2>1, <2>2, <2>5 DEF TxInv, IdleInv, SameCalls, Inside
<1> QED
  BY <1>2, <1>3, <1>4

\* At first nothing runs.
LEMMA InitTxInv == Init => TxInv
<1> SUFFICES ASSUME Init PROVE TxInv
  OBVIOUS
<1>1. stack \in Seq(Frames) /\ DOMAIN stack = {} /\ Falsy \in Values /\ Absent \in Values
  BY AuditAssumption DEF Init, AuditAssumption, Values
<1>2. TxTypes
  BY <1>1 DEF Init, TxTypes, Unpatched, Modes
<1>3. Untouched
  BY DEF Init, Untouched
<1> QED
  BY <1>2, <1>3, NothingDone DEF TxInv

\* Every step keeps the invariant.
LEMMA NextTxInv ==
  ASSUME TxInv, [Next]_vars, Rewrites = FALSE
  PROVE  TxInv'
<1>1. CASE UNCHANGED vars
  BY <1>1, ElsewhereInv DEF vars, ruleVars, TxInv, TxTypes
<1>2. CASE \/ Signal
           \/ \E p \in Procs : Administer(p) \/ Reload(p) \/ Restart(p)
  BY <1>2, RuleTxInv
<1>3. CASE \/ \E p \in Procs, ex \in BOOLEAN : Begin(p, ex)
           \/ Commit \/ Abort \/ Retry
  BY <1>3, OverTxInv
<1>4. CASE \/ \E ids \in SUBSET Recs : BeginUnlink(ids) \/ \E v \in Vals : BeginWrite(ids, v)
           \/ \E r \in Recs, v \in Vals : BeginCreate(r, v)
  BY <1>4, BeginTxInv
<1>5. CASE \/ \E ids \in SUBSET Recs : Read(ids)
           \/ Write \/ EndWrite \/ Create \/ EndCreate \/ Unlink \/ EndUnlink
           \/ ExportData \/ Flush
  BY <1>5, CallTxInv
<1> QED
  BY <1>1, <1>2, <1>3, <1>4, <1>5 DEF Next

\* When no call is under way all that changed is told.
LEMMA AllTold ==
  ASSUME TxInv
  PROVE  ChangesTold
<1>1. ASSUME NEW type, Finished(type)
      PROVE  Regime(type) /\ \A r \in Recs : Steady(r) /\ ~Covered(r)
  BY <1>1 DEF Finished, Regime, Ops, Steady, Covered
<1>2. ASSUME Finished("full"), NEW r \in Changed
      PROVE  IF cache[r] = Gone THEN \E i \in Told(r) : trail[r][i].new = Gone
             ELSE /\ \E i \in Told(r) : trail[r][i].old = base[r]
                  /\ \E i \in Told(r) : /\ trail[r][i].new = cache[r]
                                       /\ \A k \in Told(r) : k <= i
  <2>1. r \in Recs /\ cache[r] # base[r]
    BY DEF Changed
  <2>2. CASE cache[r] = Gone
    BY <1>1, <1>2, <2>1, <2>2 DEF TxInv, ToldInv, GoneInv, DeletionTold
  <2>3. CASE cache[r] # Gone
    <3>1. TellsUpTo(r, cache[r])
      BY <1>1, <1>2, <2>1, <2>3 DEF TxInv, ToldInv, FullInv
    <3> QED
      BY <2>1, <2>3, <3>1 DEF TellsUpTo
  <2> QED
    BY <2>2, <2>3
<1>3. ASSUME Finished("fast"), NEW r \in Changed
      PROVE  cache[r] = Falsy \/ \E i \in Told(r) : trail[r][i].new = cache[r]
  <2>1. r \in Recs /\ cache[r] # base[r] /\ DOMAIN stack = {}
    BY <1>3 DEF Changed, Finished
  <2> QED
    BY <1>1, <1>3, <2>1
    DEF TxInv, ToldInv, GoneInv, FastInv, DeletionTold
<1> QED
  BY <1>2, <1>3 DEF ChangesTold

\* The logs of a finished transaction tell what it changed, for any number of records,
\* values and calls within calls, whatever overrides write before and after the method
\* itself and whatever is flushed in between; a second write of what was written in
\* the same context, and a write of part of it, excepted (auditlog_rule.py,
\* write_full, write_fast, create_full, unlink_full and create_logs).
THEOREM ChangesAreTold ==
  ASSUME Rewrites = FALSE
  PROVE  Spec => []ChangesTold
<1>1. TxInv /\ [Next]_vars => TxInv'
  BY NextTxInv
<1>2. TxInv => ChangesTold
  BY AllTold
<1> QED
  BY <1>1, <1>2, InitTxInv, PTL DEF Spec

-----------------------------------------------------------------------------
\* A property that a subset of X has when its subsets without one element have it, is one
\* of all.
LEMMA SubsetInduct ==
  ASSUME NEW X, IsFiniteSet(X), NEW T,
         \A S \in SUBSET X : (\A x \in S : S \ {x} \in T) => S \in T
  PROVE  \A S \in SUBSET X : S \in T
<1> SUFFICES ASSUME NEW S \in SUBSET X, S \notin T PROVE FALSE
  OBVIOUS
<1> DEFINE U == {s \in SUBSET X : s \notin T}
<1>1. U \subseteq FiniteSubsetsOf(X)
  BY FS_Subset DEF FiniteSubsetsOf
<1>2. PICK s \in U : \A t \in U : ~(<<t, s>> \in StrictSubsetOrdering(X))
  <2>1. U # {}
    OBVIOUS
  <2> HIDE DEF U
  <2> QED
    BY <1>1, <2>1, FS_StrictSubsetOrderingWellFounded, WFMin
<1>3. \A x \in s : <<s \ {x}, s>> \in StrictSubsetOrdering(X)
  BY DEF StrictSubsetOrdering
<1> QED
  BY <1>2, <1>3

-----------------------------------------------------------------------------
(* The list that the hooks make: notes of changes, in some order, after the *)
(* notes there are.                                                         *)

Tells(all, id) ==
  IF id \notin DOMAIN lines \/ ChangesOf(before[id], lines[id]) = {} THEN all
  ELSE all \o NotesOn(id, lines[id], "update", ChangesOf(before[id], lines[id]))


Some(s) == CHOOSE x \in s : TRUE

\* The element that CHOOSE gives is one.
LEMMA SomeIn == \A s : s # {} => Some(s) \in s
BY DEF Some

FoldStep(g, s) == IF s = {} THEN notes ELSE Tells(g[s \ {Some(s)}], Some(s))
IsFold(g, S) == g = [s \in SUBSET S |-> FoldStep(g, s)]
Folded(S) == (CHOOSE g : IsFold(g, S))[S]

\* Finalized is a fold.
LEMMA FinalizedIs == Finalized = Folded(DOMAIN before)
BY DEF Finalized, FoldSet, MapThenFoldSet, Folded, IsFold, FoldStep, Tells, Some

\* All functions that fold agree.
LEMMA FoldUnique ==
  ASSUME NEW X, IsFiniteSet(X), NEW S \in SUBSET X,
         NEW g, IsFold(g, S), NEW s \in SUBSET S
  PROVE  Folded(s) = g[s]
<1> DEFINE h == [t \in SUBSET s |-> g[t]]
           iter == CHOOSE it : IsFold(it, s)
           T == {t \in SUBSET s : iter[t] = g[t]}
<1>1. IsFiniteSet(s)
  BY FS_Subset
<1>2. \A t \in SUBSET S : g[t] = FoldStep(g, t)
  BY DEF IsFold
<1>3. IsFold(h, s)
  BY <1>2, SomeIn DEF IsFold, FoldStep
<1>4. \A t \in SUBSET s : iter[t] = FoldStep(iter, t)
  <2>1. IsFold(iter, s)
    BY <1>3
  <2> HIDE DEF iter
  <2> QED
    BY <2>1 DEF IsFold
<1> HIDE DEF iter
<1>5. ASSUME NEW t \in SUBSET s, \A x \in t : t \ {x} \in T
      PROVE  t \in T
  BY <1>2, <1>4, <1>5, SomeIn DEF FoldStep
<1>6. s \in T
  <2> HIDE DEF T
  <2> QED
    BY <1>1, <1>5, SubsetInduct
<1> QED
  BY <1>6 DEF iter, Folded

\* Some function folds.
LEMMA FoldExists ==
  ASSUME NEW X, IsFiniteSet(X)
  PROVE  \A S \in SUBSET X : \E g : IsFold(g, S)
<1> DEFINE T == {S \in SUBSET X : \E g : IsFold(g, S)}
<1>1. ASSUME NEW S \in SUBSET X, \A x \in S : S \ {x} \in T
      PROVE  S \in T
  <2> DEFINE h == [s \in SUBSET S |->
                     IF s = S THEN FoldStep([t \in SUBSET S |-> Folded(t)], S)
                     ELSE Folded(s)]
  <2>1. ASSUME NEW s \in SUBSET S, s # S
        PROVE  Folded(s) = FoldStep(h, s)
    <3>1. PICK x \in S : s \subseteq S \ {x}
      BY <2>1
    <3>2. PICK g : IsFold(g, S \ {x})
      BY <1>1, <3>1
    <3>3. ASSUME NEW t \in SUBSET s PROVE Folded(t) = g[t]
      <4> DEFINE R == S \ {x}
      <4>1. R \in SUBSET X /\ t \in SUBSET R /\ IsFold(g, R)
        BY <3>1, <3>2
      <4> HIDE DEF R
      <4> QED
        BY <4>1, FoldUnique
    <3>4. g[s] = FoldStep(g, s)
      BY <3>1, <3>2 DEF IsFold
    <3> QED
      BY <2>1, <3>3, <3>4, SomeIn DEF FoldStep
  <2>2. h[S] = FoldStep(h, S)
    BY SomeIn DEF FoldStep
  <2>3. IsFold(h, S)
    <3>1. \A s \in SUBSET S : h[s] = FoldStep(h, s)
      BY <2>1, <2>2
    <3> HIDE DEF h
    <3>2. h = [s \in SUBSET S |-> h[s]]
      BY DEF h
    <3> QED
      BY <3>1, <3>2 DEF IsFold
  <2> QED
    BY <2>3
<1> HIDE DEF T
<1>2. \A S \in SUBSET X : S \in T
  BY <1>1, SubsetInduct
<1> QED
  BY <1>2 DEF T

\* A fold unfolds.
LEMMA FoldedStep ==
  ASSUME NEW X, IsFiniteSet(X), NEW S \in SUBSET X
  PROVE  /\ Folded({}) = notes
         /\ S # {} => Folded(S) = Tells(Folded(S \ {Some(S)}), Some(S))
<1>1. PICK g : IsFold(g, S)
  BY FoldExists
<1>2. \A s \in SUBSET S : Folded(s) = g[s] /\ g[s] = FoldStep(g, s)
  BY <1>1, FoldUnique DEF IsFold
<1> QED
  BY <1>2, SomeIn DEF FoldStep

-----------------------------------------------------------------------------
(* Lists without duplicates *)

\* The sequence has all elements of the set, each once.
Lists(list, S) ==
  /\ list \in Seq(S)
  /\ \A x \in S : \E n \in 1..Len(list) : list[n] = x
  /\ \A m, n \in 1..Len(list) : list[m] = list[n] => m = n

\* The empty list
LEMMA ListsNothing == Lists(<<>>, {})
BY EmptySeq DEF Lists

\* One more element
LEMMA ListsMore ==
  ASSUME NEW list, NEW S, NEW x, Lists(list, S), x \notin S
  PROVE  Lists(list \o <<x>>, S \cup {x})
<1> DEFINE R == S \cup {x}
           more == list \o <<x>>
<1>1. list \in Seq(R) /\ <<x>> \in Seq(R) /\ Len(<<x>>) = 1 /\ <<x>>[1] = x
  BY SeqMonotonic DEF Lists
<1>2. /\ more \in Seq(R)
      /\ Len(more) = Len(list) + 1
      /\ \A i \in 1 .. Len(list) + 1 : more[i] = IF i <= Len(list) THEN list[i] ELSE x
  BY <1>1, ConcatProperties
<1>3. Len(list) \in Nat /\ \A i \in 1..Len(list) : list[i] \in S
  BY LenProperties, ElementOfSeq DEF Lists
<1> HIDE DEF more
<1>4. more[Len(list) + 1] = x /\ \A i \in 1..Len(list) : more[i] = list[i] /\ more[i] # x
  BY <1>2, <1>3
<1>5. ASSUME NEW y \in R PROVE \E n \in 1..Len(more) : more[n] = y
  <2>1. CASE y = x
    BY <2>1, <1>2, <1>3, <1>4
  <2>2. CASE y \in S
    <3>1. PICK n \in 1..Len(list) : list[n] = y
      BY <2>2 DEF Lists
    <3> QED
      BY <3>1, <1>2, <1>3, <1>4
  <2> QED
    BY <2>1, <2>2
<1>6. \A m, n \in 1..Len(more) : more[m] = more[n] => m = n
  BY <1>2, <1>3, <1>4 DEF Lists
<1> QED
  BY <1>2, <1>5, <1>6 DEF Lists, more

\* What a list has, and how many
LEMMA ListsCount ==
  ASSUME NEW list, NEW S, Lists(list, S)
  PROVE  ToSet(list) = S /\ Len(list) = Cardinality(S)
<1>1. Len(list) \in Nat /\ list \in [1..Len(list) -> S] /\ DOMAIN list = 1..Len(list)
  BY LenProperties DEF Lists
<1>2. ToSet(list) = S
  BY <1>1 DEF ToSet, Lists
<1>3. list \in Bijection(1..Len(list), S)
  <2>1. list \in Injection(1..Len(list), S)
    BY <1>1 DEF Lists, Injection, IsInjective
  <2>2. list \in Surjection(1..Len(list), S)
    BY <1>1 DEF Lists, Surjection
  <2> QED
    BY <2>1, <2>2 DEF Bijection
<1>4. IsFiniteSet(1..Len(list)) /\ Cardinality(1..Len(list)) = Len(list)
  <2> DEFINE n == Len(list)
  <2>1. n \in Nat
    BY <1>1
  <2> HIDE DEF n
  <2>2. IsFiniteSet(1..n) /\ Cardinality(1..n) = n
    <3>1. IsFiniteSet(1..n) /\ Cardinality(1..n) = IF 1 > n THEN 0 ELSE n - 1 + 1
      BY <2>1, FS_Interval
    <3> QED
      BY <2>1, <3>1
  <2> QED
    BY <2>2 DEF n
<1>5. ExistsBijection(1..Len(list), S)
  BY <1>3 DEF ExistsBijection
<1> QED
  BY <1>2, <1>4, <1>5, FS_Bijection

-----------------------------------------------------------------------------
(* The invariant *)

Following == TrackedByO2m(inForce)
AtFirst(id) == IF id \in DOMAIN born THEN born[id] ELSE was[id]
NotesOf(f, mode) ==
  {[to |-> f[id].owner, line |-> id, mode |-> mode, changes |-> {}] :
     id \in {i \in DOMAIN f : f[i].owner # NoOwner}}
BornAndDied == NotesOf(born, "create") \cup NotesOf(died, "unlink")
UpdateOf(id) ==
  [to |-> lines[id].owner, line |-> id, mode |-> "update",
   changes |-> ChangesOf(before[id], lines[id])]
Updates(ids) ==
  {UpdateOf(id) : id \in {i \in ids \cap DOMAIN lines :
     lines[i].owner # NoOwner /\ ChangesOf(before[i], lines[i]) # {}}}

LineType == [owner : Owners \cup {NoOwner}, quantity : Quantities, rank : {"large", "small"}]
LineTables == UNION {[S -> LineType] : S \in SUBSET LineIds}

LineTypes ==
  /\ lines \in LineTables
  /\ saved \in Seq(LineTables)
  /\ DOMAIN died \subseteq LineIds
  /\ known \in {Nobody, {Following}}
  /\ known = Nobody => inForce = setting

\* Nothing is collected between transactions.
Collected ==
  saved = <<>> => before = <<>> /\ notes = <<>> /\ born = <<>> /\ died = <<>> /\ was = lines

\* What is collected of which lines
Spheres ==
  /\ DOMAIN born \subseteq DOMAIN lines \cup DOMAIN died
  /\ DOMAIN lines \cap DOMAIN died = {}
  /\ DOMAIN before \subseteq DOMAIN lines \cup DOMAIN died

\* Values and notes that are collected
ValuesAndNotes ==
  IF Following.on
  THEN /\ \A id \in DOMAIN before : before[id] = Restrict(AtFirst(id), Following.fields)
       /\ \A id \in DOMAIN lines \ DOMAIN before : lines[id] = AtFirst(id)
       /\ Lists(notes, BornAndDied)
  ELSE before = <<>> /\ notes = <<>>

LineInv == LineTypes /\ Collected /\ Spheres /\ ValuesAndNotes

\* The cache has what was configured when it was cleared, and so does who asks it; this
\* does not change within a transaction.
LEMMA TrackedIs ==
  ASSUME LineTypes
  PROVE  Tracked = Following
BY DEF Tracked, LineTypes, Nobody, Following

\* Lines that were collected are finitely many.
LEMMA BeforeFinite ==
  ASSUME LineInv
  PROVE  IsFiniteSet(DOMAIN before)
<1>1. DOMAIN lines \in SUBSET LineIds
  BY DEF LineInv, LineTypes, LineTables
<1>2. DOMAIN before \in SUBSET LineIds
  BY <1>1 DEF LineInv, LineTypes, Spheres
<1> QED
  BY <1>2, LineAssumption, FS_Subset

\* The hooks make a list of all that is to be told.
LEMMA FinalizedLists ==
  ASSUME LineInv, Following.on, IsFiniteSet(DOMAIN before)
  PROVE  Lists(Finalized, BornAndDied \cup Updates(DOMAIN before))
<1> DEFINE T == {S \in SUBSET DOMAIN before : Lists(Folded(S), BornAndDied \cup Updates(S))}
<1>1. ASSUME NEW S \in SUBSET DOMAIN before, \A x \in S : S \ {x} \in T
      PROVE  S \in T
  <2>1. CASE S = {}
    <3>1. Updates({}) = {}
      BY DEF Updates
    <3>2. Folded({}) = notes
      BY FoldedStep
    <3> QED
      BY <2>1, <3>1, <3>2 DEF LineInv, ValuesAndNotes
  <2>2. CASE S # {}
    <3> DEFINE x == Some(S)
               list == Folded(S \ {x})
               told0 == BornAndDied \cup Updates(S \ {x})
    <3>1. x \in S
      BY <2>2, SomeIn
    <3> HIDE DEF x
    <3>2. Lists(list, told0)
      BY <1>1, <3>1
    <3>3. Folded(S) = Tells(list, x)
      BY <2>2, FoldedStep DEF x
    <3> HIDE DEF list
    <3>4. CASE x \in DOMAIN lines /\ lines[x].owner # NoOwner /\ ChangesOf(before[x], lines[x]) # {}
      <4>1. Tells(list, x) = list \o <<UpdateOf(x)>>
        BY <3>4, TrackedIs DEF Tells, NotesOn, UpdateOf, LineInv
      <4>2. BornAndDied \cup Updates(S) = told0 \cup {UpdateOf(x)}
        BY <3>1, <3>4 DEF Updates
      <4>3. UpdateOf(x) \notin told0
        BY DEF BornAndDied, NotesOf, Updates, UpdateOf
      <4> HIDE DEF told0
      <4>4. Lists(Folded(S), BornAndDied \cup Updates(S))
        BY <3>2, <3>3, <4>1, <4>2, <4>3, ListsMore
      <4> QED
        BY <4>4
    <3>5. CASE ~(x \in DOMAIN lines /\ lines[x].owner # NoOwner /\ ChangesOf(before[x], lines[x]) # {})
      <4>1. Tells(list, x) = list
        <5>1. list \o <<>> = list
          BY <3>2, ConcatEmptySeq DEF Lists
        <5> QED
          BY <3>5, <5>1 DEF Tells, NotesOn
      <4>2. Updates(S) = Updates(S \ {x})
        BY <3>5 DEF Updates
      <4>3. Lists(Folded(S), BornAndDied \cup Updates(S))
        BY <3>2, <3>3, <4>1, <4>2
      <4> QED
        BY <4>3
    <3> QED
      BY <3>4, <3>5
  <2> QED
    BY <2>1, <2>2
<1>2. DOMAIN before \in T
  <2> DEFINE X == DOMAIN before
  <2> HIDE DEF T, X
  <2>1. IsFiniteSet(X) /\ \A S \in SUBSET X : (\A x \in S : S \ {x} \in T) => S \in T
    BY <1>1 DEF X
  <2>2. \A S \in SUBSET X : S \in T
    BY <2>1, SubsetInduct
  <2> QED
    BY <2>2 DEF X
<1> QED
  BY <1>2, FinalizedIs

\* That is what owners should be told.
LEMMA DueIs ==
  ASSUME LineInv, Following.on
  PROVE  Due = BornAndDied \cup Updates(DOMAIN before)
<1> DEFINE diff(id) == {<<f, AtFirst(id)[f], lines[id][f]>> :
                          f \in {g \in Following.fields : AtFirst(id)[g] # lines[id][g]}}
           updates == {[to |-> lines[id].owner, line |-> id, mode |-> "update", changes |-> diff(id)] :
                         id \in {i \in DOMAIN lines : lines[i].owner # NoOwner /\ diff(i) # {}}}
<1>1. Due = BornAndDied \cup updates
  BY DEF Due, BornAndDied, NotesOf, Following, AtFirst
<1>2. ASSUME NEW id \in DOMAIN before PROVE diff(id) = ChangesOf(before[id], lines[id])
  BY DEF LineInv, ValuesAndNotes, ChangesOf, Restrict
<1>3. ASSUME NEW id \in DOMAIN lines \ DOMAIN before PROVE diff(id) = {}
  BY DEF LineInv, ValuesAndNotes
<1> HIDE DEF diff
<1>4. updates = Updates(DOMAIN before)
  BY <1>2, <1>3 DEF Updates, UpdateOf
<1> QED
  BY <1>1, <1>4

\* When the hooks run, what they tell is what is due.
LEMMA HooksTell ==
  ASSUME LineInv, IsFiniteSet(DOMAIN before)
  PROVE  ToSet(Finalized) = Due /\ Len(Finalized) = Cardinality(Due)
<1>1. CASE Following.on
  BY <1>1, FinalizedLists, DueIs, ListsCount
<1>2. CASE ~Following.on
  <2>1. before = <<>> /\ notes = <<>> /\ DOMAIN before = {}
    BY <1>2 DEF LineInv, ValuesAndNotes
  <2>2. Finalized = <<>>
    BY <2>1, FinalizedIs, FoldedStep, FS_EmptySet
  <2>3. Due = {}
    BY <1>2 DEF Due, Following
  <2> QED
    BY <2>2, <2>3, ListsNothing, ListsCount
<1> QED
  BY <1>1, <1>2

-----------------------------------------------------------------------------
(* Steps *)

Clean == before = <<>> /\ notes = <<>> /\ born = <<>> /\ died = <<>> /\ was = lines

\* When nothing is collected the invariant holds.
LEMMA CleanInv ==
  LineTypes /\ Clean => LineInv
<1> SUFFICES ASSUME LineTypes, Clean PROVE LineInv
  OBVIOUS
<1>1. DOMAIN before = {} /\ DOMAIN born = {} /\ DOMAIN died = {} /\ notes = <<>>
  BY DEF Clean
<1>2. Collected /\ Spheres
  BY <1>1 DEF Clean, Collected, Spheres
<1>3. BornAndDied = {}
  BY <1>1 DEF BornAndDied, NotesOf
<1>4. ValuesAndNotes
  BY <1>1, <1>3, ListsNothing DEF Clean, ValuesAndNotes, AtFirst
<1> QED
  BY <1>2, <1>4 DEF LineInv

\* The same after a step.
LEMMA CleanInvAfter == LineTypes' /\ Clean' => LineInv'
BY CleanInv, PTL

\* At the beginning
LEMMA InitLinesInv == InitLines => LineInv
<1> SUFFICES ASSUME InitLines PROVE LineInv
  OBVIOUS
<1>1. LineTypes
  BY LineAssumption, EmptySeq DEF InitLines, LineTypes, LineTables, LineType
<1>2. Clean
  BY DEF InitLines, Clean
<1> QED
  BY <1>1, <1>2, CleanInv

\* Something is configured, and the cache is filled or cleared.
LEMMA ConfigureInv ==
  ASSUME LineInv, NEW new, Configure(new),
         known' = {Following'} \/ (known' = Nobody /\ inForce' = new)
  PROVE  LineInv' /\ told' = {}
<1>1. LineTypes'
  BY DEF LineInv, LineTypes, Configure, Nobody
<1>2. Clean'
  BY DEF LineInv, Collected, Clean, Configure, Between
<1> QED
  BY <1>1, <1>2, CleanInvAfter DEF Configure

\* What each step of a transaction does to the variables that they share
LEMMA LineStepTypes ==
  ASSUME LineInv, Step
  PROVE  /\ saved' \in Seq(LineTables) /\ saved' # <<>>
         /\ Following' = Following /\ known' = {Following}' /\ known' # Nobody
         /\ was' = was /\ told' = {}
<1>1. Following' = Following /\ known' = {Following}' /\ known' # Nobody
  BY TrackedIs DEF LineInv, Step, Following, Nobody
<1>2. lines \in LineTables /\ saved \in Seq(LineTables)
  BY DEF LineInv, LineTypes
<1>3. <<lines>> \in Seq(LineTables) /\ <<lines>> # <<>>
  BY <1>2
<1> QED
  BY <1>1, <1>2, <1>3 DEF Step

\* A line that is created is noted, unless it has no owner.
LEMMA CreateLineInv ==
  ASSUME LineInv, NEW id \in LineIds, NEW o \in Owners \cup {NoOwner}, NEW q \in Quantities,
         CreateLine(id, o, q)
  PROVE  LineInv' /\ told' = {}
<1> DEFINE new == Line(o, q)
<1>1. new \in LineType /\ new.owner = o
  BY DEF Line, Rank, LineType
<1> HIDE DEF new
<1>2. /\ Step /\ id \notin DOMAIN lines \cup DOMAIN died \cup DOMAIN was
      /\ lines' = [i \in DOMAIN lines \cup {id} |-> IF i = id THEN new ELSE lines[i]]
      /\ born' = [i \in DOMAIN born \cup {id} |-> IF i = id THEN new ELSE born[i]]
      /\ notes' = notes \o NotesOn(id, new, "create", {})
      /\ before' = before /\ died' = died
  BY DEF CreateLine, new
<1>3. /\ saved' \in Seq(LineTables) /\ saved' # <<>>
      /\ Following' = Following /\ known' = {Following}' /\ known' # Nobody
      /\ was' = was /\ told' = {}
  BY <1>2, LineStepTypes
<1>4. lines' \in LineTables
  <2>1. PICK S \in SUBSET LineIds : lines \in [S -> LineType]
    BY DEF LineInv, LineTypes, LineTables
  <2>2. lines' \in [S \cup {id} -> LineType] /\ S \cup {id} \in SUBSET LineIds
    BY <2>1, <1>1, <1>2
  <2> QED
    BY <2>2 DEF LineTables
<1>5. LineTypes'
  BY <1>2, <1>3, <1>4 DEF LineInv, LineTypes
<1>6. Collected' /\ Spheres'
  BY <1>2, <1>3 DEF LineInv, Collected, Spheres
<1>7. CASE Following.on
  <2>1. \A i \in DOMAIN before : AtFirst(i)' = AtFirst(i)
    BY <1>2, <1>3 DEF LineInv, Spheres, AtFirst
  <2>2. \A i \in DOMAIN lines' \ DOMAIN before : lines'[i] = AtFirst(i)'
    BY <1>2, <1>3, <1>7 DEF LineInv, ValuesAndNotes, AtFirst
  <2> DEFINE note == [to |-> o, line |-> id, mode |-> "create", changes |-> {}]
  <2>3. note \notin BornAndDied
    BY <1>2 DEF BornAndDied, NotesOf, LineInv, Spheres
  <2>4. Lists(notes, BornAndDied)
    BY <1>7 DEF LineInv, ValuesAndNotes
  <2>5. Tracked.on
    BY <1>7, TrackedIs DEF LineInv
  <2>6. /\ id \notin DOMAIN born /\ DOMAIN born' = DOMAIN born \cup {id}
        /\ born'[id] = new /\ \A i \in DOMAIN born : born'[i] = born[i]
    BY <1>2 DEF LineInv, Spheres
  <2>7. NotesOf(died', "unlink") = NotesOf(died, "unlink")
    BY <1>2
  <2>8. Lists(notes', BornAndDied')
    <3>1. CASE o = NoOwner
      <4>1. BornAndDied' = BornAndDied
        <5>1. NotesOf(born', "create") = NotesOf(born, "create")
          BY <3>1, <1>1, <2>6 DEF NotesOf
        <5> QED
          BY <5>1, <2>7 DEF BornAndDied
      <4>2. notes' = notes
        BY <3>1, <1>1, <1>2, <2>4, ConcatEmptySeq DEF NotesOn, Lists
      <4> QED
        BY <2>4, <4>1, <4>2
    <3>2. CASE o # NoOwner
      <4>1. BornAndDied' = BornAndDied \cup {note}
        <5>1. NotesOf(born', "create") = NotesOf(born, "create") \cup {note}
          BY <3>2, <1>1, <2>6 DEF NotesOf
        <5> QED
          BY <5>1, <2>7 DEF BornAndDied
      <4>2. notes' = notes \o <<note>>
        BY <3>2, <1>1, <1>2, <2>5 DEF NotesOn
      <4> HIDE DEF note
      <4> QED
        BY <2>3, <2>4, <4>1, <4>2, ListsMore
    <3> QED
      BY <3>1, <3>2
  <2>9. \A i \in DOMAIN before' : before'[i] = Restrict(AtFirst(i)', Following'.fields)
    BY <1>2, <1>3, <1>7, <2>1 DEF LineInv, ValuesAndNotes
  <2> QED
    BY <1>2, <1>3, <1>5, <1>6, <1>7, <2>2, <2>8, <2>9 DEF LineInv, ValuesAndNotes
<1>8. CASE ~Following.on
  <2>1. ~Tracked.on
    BY <1>8, TrackedIs DEF LineInv
  <2>2. notes = <<>> /\ before = <<>>
    BY <1>8 DEF LineInv, ValuesAndNotes
  <2>3. notes' = <<>> /\ before' = <<>>
    BY <1>2, <2>1, <2>2 DEF NotesOn
  <2> QED
    BY <1>3, <1>5, <1>6, <1>8, <2>3 DEF LineInv, ValuesAndNotes
<1> QED
  BY <1>3, <1>7, <1>8

\* Lines that are written are collected, with the values they have had.
LEMMA WriteLinesInv ==
  ASSUME LineInv, NEW ids \in SUBSET DOMAIN lines,
         NEW o \in Maybe(Owners \cup {NoOwner}), NEW q \in Maybe(Quantities),
         WriteLinesOf(ids, o, q)
  PROVE  LineInv' /\ told' = {}
<1> DEFINE owner(i) == IF o = {} THEN lines[i].owner ELSE CHOOSE x \in o : TRUE
           quantity(i) == IF q = {} THEN lines[i].quantity ELSE CHOOSE x \in q : TRUE
           new(i) == Line(owner(i), quantity(i))
<1>1. PICK S \in SUBSET LineIds : lines \in [S -> LineType]
  BY DEF LineInv, LineTypes, LineTables
<1>2. ASSUME NEW i \in ids PROVE new(i) \in LineType
  <2>1. lines[i].owner \in Owners \cup {NoOwner} /\ lines[i].quantity \in Quantities
    BY <1>1 DEF LineType
  <2>2. owner(i) \in Owners \cup {NoOwner}
    BY <2>1 DEF Maybe
  <2>3. quantity(i) \in Quantities
    BY <2>1 DEF Maybe
  <2> HIDE DEF owner, quantity
  <2> QED
    BY <2>2, <2>3 DEF Line, Rank, LineType
<1>3. /\ Step
      /\ before' = IF Tracked.on THEN Prepared(ids) ELSE before
      /\ lines' = [i \in DOMAIN lines |-> IF i \notin ids THEN lines[i] ELSE new(i)]
      /\ notes' = notes /\ born' = born /\ died' = died
  BY DEF WriteLinesOf
<1> HIDE DEF new
<1>4. /\ saved' \in Seq(LineTables) /\ saved' # <<>>
      /\ Following' = Following /\ known' = {Following}' /\ known' # Nobody
      /\ was' = was /\ told' = {}
  BY <1>3, LineStepTypes
<1>5. lines' \in [S -> LineType] /\ DOMAIN lines' = DOMAIN lines
  BY <1>1, <1>2, <1>3
<1>6. LineTypes'
  BY <1>3, <1>4, <1>5 DEF LineInv, LineTypes, LineTables
<1>7. Tracked = Following
  BY TrackedIs DEF LineInv
<1>8. DOMAIN before' \subseteq DOMAIN before \cup ids
  BY <1>3 DEF Prepared
<1>9. Collected' /\ Spheres'
  BY <1>3, <1>4, <1>5, <1>8 DEF LineInv, Collected, Spheres
<1>10. \A i : AtFirst(i)' = AtFirst(i)
  BY <1>3, <1>4 DEF AtFirst
<1>11. BornAndDied' = BornAndDied
  BY <1>3 DEF BornAndDied, NotesOf
<1>12. CASE Following.on
  <2>1. before' = Prepared(ids)
    BY <1>3, <1>7, <1>12
  <2>2. \A i \in DOMAIN before : before'[i] = Restrict(AtFirst(i), Following.fields)
    BY <2>1, <1>12 DEF Prepared, LineInv, ValuesAndNotes
  <2>3. \A i \in ids \ DOMAIN before : before'[i] = Restrict(AtFirst(i), Following.fields)
    BY <2>1, <1>7, <1>12 DEF Prepared, LineInv, ValuesAndNotes
  <2>4. DOMAIN before' = DOMAIN before \cup ids
    BY <2>1 DEF Prepared
  <2>5. \A i \in DOMAIN lines' \ DOMAIN before' : lines'[i] = AtFirst(i)
    BY <2>4, <1>3, <1>5, <1>12 DEF LineInv, ValuesAndNotes
  <2>6. Lists(notes', BornAndDied')
    BY <1>3, <1>11, <1>12 DEF LineInv, ValuesAndNotes
  <2> QED
    BY <1>4, <1>6, <1>9, <1>10, <1>12, <2>2, <2>3, <2>4, <2>5, <2>6 DEF LineInv, ValuesAndNotes
<1>13. CASE ~Following.on
  BY <1>3, <1>4, <1>6, <1>7, <1>9, <1>13 DEF LineInv, ValuesAndNotes
<1> QED
  BY <1>4, <1>12, <1>13

\* A line that is deleted is noted, unless it has no owner.
LEMMA UnlinkLineInv ==
  ASSUME LineInv, NEW id \in LineIds, UnlinkLine(id)
  PROVE  LineInv' /\ told' = {}
<1>1. /\ Step /\ id \in DOMAIN lines
      /\ lines' = [i \in DOMAIN lines \ {id} |-> lines[i]]
      /\ died' = [i \in DOMAIN died \cup {id} |-> IF i = id THEN lines[id] ELSE died[i]]
      /\ notes' = notes \o NotesOn(id, lines[id], "unlink", {})
      /\ before' = before /\ born' = born
  BY DEF UnlinkLine
<1>2. /\ saved' \in Seq(LineTables) /\ saved' # <<>>
      /\ Following' = Following /\ known' = {Following}' /\ known' # Nobody
      /\ was' = was /\ told' = {}
  BY <1>1, LineStepTypes
<1>3. lines' \in LineTables
  <2>1. PICK S \in SUBSET LineIds : lines \in [S -> LineType]
    BY DEF LineInv, LineTypes, LineTables
  <2>2. lines' \in [S \ {id} -> LineType]
    BY <2>1, <1>1
  <2> QED
    BY <2>2 DEF LineTables
<1>4. LineTypes'
  BY <1>1, <1>2, <1>3 DEF LineInv, LineTypes
<1>5. Collected' /\ Spheres'
  BY <1>1, <1>2 DEF LineInv, Collected, Spheres
<1>6. \A i : AtFirst(i)' = AtFirst(i)
  BY <1>1, <1>2 DEF AtFirst
<1>7. CASE Following.on
  <2> DEFINE note == [to |-> lines[id].owner, line |-> id, mode |-> "unlink", changes |-> {}]
  <2>1. id \notin DOMAIN died
    BY <1>1 DEF LineInv, Spheres
  <2>2. note \notin BornAndDied
    BY <2>1 DEF BornAndDied, NotesOf
  <2>3. Lists(notes, BornAndDied)
    BY <1>7 DEF LineInv, ValuesAndNotes
  <2>4. Tracked.on
    BY <1>7, TrackedIs DEF LineInv
  <2>5. /\ DOMAIN died' = DOMAIN died \cup {id}
        /\ died'[id] = lines[id] /\ \A i \in DOMAIN died : died'[i] = died[i]
    BY <1>1, <2>1
  <2>6. NotesOf(born', "create") = NotesOf(born, "create")
    BY <1>1
  <2>7. Lists(notes', BornAndDied')
    <3>1. CASE lines[id].owner = NoOwner
      <4>1. BornAndDied' = BornAndDied
        <5>1. NotesOf(died', "unlink") = NotesOf(died, "unlink")
          BY <3>1, <2>1, <2>5 DEF NotesOf
        <5> QED
          BY <5>1, <2>6 DEF BornAndDied
      <4>2. notes' = notes
        BY <3>1, <1>1, <2>3, ConcatEmptySeq DEF NotesOn, Lists
      <4> QED
        BY <2>3, <4>1, <4>2
    <3>2. CASE lines[id].owner # NoOwner
      <4>1. BornAndDied' = BornAndDied \cup {note}
        <5>1. NotesOf(died', "unlink") = NotesOf(died, "unlink") \cup {note}
          BY <3>2, <2>1, <2>5 DEF NotesOf
        <5> QED
          BY <5>1, <2>6 DEF BornAndDied
      <4>2. notes' = notes \o <<note>>
        BY <3>2, <1>1, <2>4 DEF NotesOn
      <4> HIDE DEF note
      <4> QED
        BY <2>2, <2>3, <4>1, <4>2, ListsMore
    <3> QED
      BY <3>1, <3>2
  <2>8. \A i \in DOMAIN before' : before'[i] = Restrict(AtFirst(i)', Following'.fields)
    BY <1>1, <1>2, <1>6, <1>7 DEF LineInv, ValuesAndNotes
  <2>9. \A i \in DOMAIN lines' \ DOMAIN before' : lines'[i] = AtFirst(i)'
    BY <1>1, <1>6, <1>7 DEF LineInv, ValuesAndNotes
  <2> QED
    BY <1>2, <1>4, <1>5, <1>7, <2>7, <2>8, <2>9 DEF LineInv, ValuesAndNotes
<1>8. CASE ~Following.on
  <2>1. ~Tracked.on
    BY <1>8, TrackedIs DEF LineInv
  <2>2. notes = <<>> /\ before = <<>>
    BY <1>8 DEF LineInv, ValuesAndNotes
  <2>3. notes' = <<>> /\ before' = <<>>
    BY <1>1, <2>1, <2>2 DEF NotesOn
  <2> QED
    BY <1>2, <1>4, <1>5, <1>8, <2>3 DEF LineInv, ValuesAndNotes
<1> QED
  BY <1>2, <1>7, <1>8

\* The hooks forget what was collected.
LEMMA RunHooksInv ==
  ASSUME LineInv, RunHooks, saved' \in Seq(LineTables)
  PROVE  LineInv' /\ told' = {Finalized}
<1>1. LineTypes'
  BY DEF LineInv, LineTypes, RunHooks, Following
<1>2. Clean'
  BY DEF Clean, RunHooks
<1> QED
  BY <1>1, <1>2, CleanInvAfter DEF RunHooks

\* So does what is rolled back, with the lines as they were saved.
LEMMA UndoneInv ==
  ASSUME LineInv, saved' \in Seq(LineTables), NEW n \in 1..Len(saved),
         lines' = saved[n], was' = saved[n], before' = <<>>, notes' = <<>>,
         born' = <<>>, died' = <<>>, UNCHANGED <<setting, known, inForce>>
  PROVE  LineInv'
<1>1. saved[n] \in LineTables
  BY ElementOfSeq DEF LineInv, LineTypes
<1>2. LineTypes'
  BY <1>1 DEF LineInv, LineTypes, Following
<1>3. Clean'
  BY DEF Clean
<1> QED
  BY <1>2, <1>3, CleanInvAfter

\* Every step keeps the invariant, and tells nothing or what the hooks find.
LEMMA NextLinesInv ==
  ASSUME LineInv, NextLines
  PROVE  LineInv' /\ told' \in {{}, {Finalized}}
<1>0. saved \in Seq(LineTables) /\ lines \in LineTables
  BY DEF LineInv, LineTypes
<1>1. ASSUME NEW model \in {"owner", "lines"}, Activate(model) PROVE LineInv' /\ told' = {}
  BY <1>1, ConfigureInv DEF Activate, Caches, Following
<1>2. ASSUME NEW new, ConfigureFields(new) PROVE LineInv' /\ told' = {}
  BY <1>2, ConfigureInv DEF ConfigureFields, Caches, Following
<1>3. (\E f \in LineFieldsAll : TrackField(f)) \/ TrackList \/ UpdateCustomTracking
        => \E new : ConfigureFields(new)
  BY Zenon DEF TrackField, TrackList, UpdateCustomTracking
<1>4. ASSUME NEW new, ConfiguredElsewhere(new) PROVE LineInv' /\ told' = {}
  BY <1>4, ConfigureInv DEF ConfiguredElsewhere
<1>5. ASSUME BeginSavepoint PROVE LineInv' /\ told' = {Finalized}
  <2>1. RunHooks /\ saved' \in Seq(LineTables)
    BY <1>0, <1>5, AppendProperties DEF BeginSavepoint
  <2> QED
    BY <2>1, RunHooksInv
<1>6. Len(saved) # 0 => Front(saved) \in Seq(LineTables)
  BY <1>0, LenProperties, SubSeqProperties DEF Front
<1>7. ASSUME ReleaseSavepoint PROVE LineInv' /\ told' = {Finalized}
  BY <1>6, <1>7, RunHooksInv DEF ReleaseSavepoint
<1>8. ASSUME RollbackSavepoint PROVE LineInv' /\ told' = {}
  BY <1>6, <1>8, UndoneInv DEF RollbackSavepoint
<1>9. ASSUME CommitLines PROVE LineInv' /\ told' = {Finalized}
  BY <1>9, RunHooksInv, EmptySeq DEF CommitLines
<1>10. ASSUME AbortLines PROVE LineInv' /\ told' = {}
  <2>1. 1 \in 1..Len(saved)
    BY <1>0, <1>10, EmptySeq DEF AbortLines
  <2> QED
    BY <2>1, <1>10, UndoneInv, EmptySeq DEF AbortLines
<1> QED
  BY <1>1, <1>2, <1>3, <1>4, <1>5, <1>7, <1>8, <1>9, <1>10,
     CreateLineInv, WriteLinesInv, UnlinkLineInv DEF NextLines

\* A flush tells each owner once of every line that was created, deleted or has changed
\* since the one before, with the values it had then and has now, however often it was
\* written in between; and of nothing that was undone or is not configured.  The setting
\* they go by is the present one, except after the process has itself switched a model.
THEOREM HooksTellOwners == SpecLines => OwnersAreTold
<1>1. LineInv /\ [NextLines]_lineVars => LineInv'
  <2>1. LineInv /\ UNCHANGED lineVars => LineInv'
    BY DEF lineVars, LineInv, LineTypes, Following, Collected, Spheres, ValuesAndNotes, AtFirst,
       BornAndDied, NotesOf
  <2> QED
    BY <2>1, NextLinesInv
<1>2. LineInv /\ [NextLines]_lineVars =>
        [\A list \in told' : ToSet(list) = Due /\ Len(list) = Cardinality(Due)]_lineVars
  <2> SUFFICES ASSUME LineInv, NextLines, NEW list \in told'
               PROVE  ToSet(list) = Due /\ Len(list) = Cardinality(Due)
    OBVIOUS
  <2>1. list = Finalized
    BY NextLinesInv
  <2> QED
    BY <2>1, BeforeFinite, HooksTell
<1> QED
  BY <1>1, <1>2, InitLinesInv, PTL DEF SpecLines, OwnersAreTold

-----------------------------------------------------------------------------
(* Induction, with a set in the place of a predicate *)

\* A set of numbers that is not empty has a least one.
LEMMA NatLeast ==
  ASSUME NEW T \in SUBSET Nat, T # {}
  PROVE  \E n \in T : \A m \in T : n <= m
<1>1. \A x, y \in Nat : y < x => <<y, x>> \in OpToRel(<, Nat)
  BY DEF OpToRel
<1>2. PICK n \in T : \A m \in T : ~(<<m, n>> \in OpToRel(<, Nat))
  BY NatLessThanWellFounded, WFMin
<1>3. \A m \in T : m \in Nat /\ n \in Nat
  OBVIOUS
<1>4. \A m \in T : ~(m < n)
  BY <1>1, <1>2, <1>3, Zenon
<1> QED
  BY <1>3, <1>4

\* A set that has 0 and, with each number, the next one has them all.
LEMMA NatInduct ==
  ASSUME NEW T, 0 \in T, \A n \in Nat : n \in T => n + 1 \in T
  PROVE  \A n \in Nat : n \in T
<1> SUFFICES ASSUME \E n \in Nat : n \notin T PROVE FALSE
  OBVIOUS
<1> DEFINE U == {n \in Nat : n \notin T}
<1>1. PICK n \in U : \A m \in U : n <= m
  BY NatLeast
<1>2. n # 0 /\ n - 1 \in Nat /\ n - 1 \notin U
  BY <1>1
<1> QED
  BY <1>1, <1>2

\* The first value of the function is x and the others follow, each by its own
\* step, from the one before.
IsRecursive(g, k, x, F) ==
  g = [n \in 0..k |-> IF n = 0 THEN x ELSE F[<<n, g[n - 1]>>]]

\* What is defined by such a recursion exists.
LEMMA RecursionExists ==
  ASSUME NEW S, NEW x \in S, NEW k \in Nat, NEW F \in [(1..k) \X S -> S]
  PROVE  \E g \in [0..k -> S] : IsRecursive(g, k, x, F)
<1> DEFINE Steps(g, m) == [n \in 0..m |-> IF n = 0 THEN x ELSE F[<<n, g[n - 1]>>]]
           T == {m \in Nat : m <= k => \E g \in [0..m -> S] : g = Steps(g, m)}
<1>1. 0 \in T
  <2> DEFINE g == [n \in 0..0 |-> x]
  <2>1. g \in [0..0 -> S] /\ g = Steps(g, 0)
    OBVIOUS
  <2> QED
    BY <2>1
<1>2. ASSUME NEW m \in Nat, m \in T PROVE m + 1 \in T
  <2> SUFFICES ASSUME m + 1 <= k PROVE \E h \in [0..(m + 1) -> S] : h = Steps(h, m + 1)
    OBVIOUS
  <2>1. PICK g \in [0..m -> S] : g = Steps(g, m)
    BY <1>2
  <2> DEFINE h == Steps(g, m + 1)
  <2>2. ASSUME NEW n \in 0..(m + 1), n # 0 PROVE n - 1 \in 0..m /\ F[<<n, g[n - 1]>>] \in S
    <3>1. n - 1 \in 0..m /\ n \in 1..k
      BY <2>2
    <3>2. <<n, g[n - 1]>> \in (1..k) \X S
      BY <3>1
    <3> QED
      BY <3>1, <3>2
  <2>3. h \in [0..(m + 1) -> S]
    BY <2>2
  <2>4. \A n \in 0..m : h[n] = g[n]
    BY <2>1
  <2>5. h = Steps(h, m + 1)
    BY <2>2, <2>4
  <2> HIDE DEF h
  <2> QED
    BY <2>3, <2>5
<1>3. k \in T
  <2> HIDE DEF T
  <2> QED
    BY <1>1, <1>2, NatInduct
<1> QED
  BY <1>3 DEF IsRecursive

-----------------------------------------------------------------------------
(* Loading a file *)

\* The empty value is a string too; the provers do not know it.
Texts == STRING \cup {""}
RecordType == [Columns -> Texts]

\* Tables have such records.
LEMMA TablesAre == Tables \subseteq Seq(RecordType)
<1>1. Tables \subseteq Seq([Columns -> STRING])
  BY ImportAssumption
<1>2. [Columns -> STRING] \subseteq RecordType
  BY DEF RecordType, Texts
<1> QED
  BY <1>1, <1>2, SeqMonotonic

\* A record after a row was written to it
Filled(row, written, old) == [f \in Columns |-> IF f \in written THEN row[f] ELSE old[f]]
Blank == [f \in Columns |-> ""]

IsLoaded(g, t, file, targets, written) ==
  g = [n \in 0..Len(file.rows) |->
         IF n = 0 THEN t ELSE LoadRow(g[n - 1], file.rows[n], targets[n], written)]

\* Load is a recursion.
LEMMA LoadIs ==
  \A t, file, chosen :
    Load(t, file, chosen) =
      IF Refused(t, file, chosen) THEN t
      ELSE (CHOOSE g : IsLoaded(g, t, file, Targets(t, file, chosen), Written(file, chosen)))
             [Len(file.rows)]
BY DEF Load, IsLoaded

\* What a file is
LEMMA FileIs ==
  ASSUME NEW file \in Files
  PROVE  /\ Len(file.rows) \in Nat /\ DOMAIN file.rows = 1..Len(file.rows)
         /\ file.columns \subseteq Columns
         /\ \A n \in 1..Len(file.rows) :
              file.rows[n].id \in Nat /\ \A f \in file.columns : file.rows[n][f] \in STRING
<1>1. file.rows \in {x.rows : x \in Files}
  OBVIOUS
<1>2. Len(file.rows) \in Nat /\ DOMAIN file.rows = 1..Len(file.rows)
  BY <1>1, ImportAssumption
<1> QED
  BY <1>2, ImportAssumption

\* What a row makes of a table
RowDone(old, new, row, target, written) ==
  /\ Cardinality(target) = 1 =>
       /\ Len(new) = Len(old)
       /\ \A i \in 1..Len(old) :
            new[i] = IF i \in target THEN Filled(row, written, old[i]) ELSE old[i]
  /\ Cardinality(target) # 1 =>
       /\ Len(new) = Len(old) + 1
       /\ \A i \in 1..Len(old) : new[i] = old[i]
       /\ new[Len(old) + 1] = Filled(row, written, Blank)

\* The tables while a file is loaded
Loading(g, t, file, targets, written) ==
  /\ g \in [0..Len(file.rows) -> Seq(RecordType)]
  /\ g[0] = t
  /\ \A n \in 1..Len(file.rows) :
       RowDone(g[n - 1], g[n], file.rows[n], targets[n], written)

\* A row makes a table of a table.
LEMMA LoadRowIs ==
  ASSUME NEW t \in Seq(RecordType), NEW row, NEW target, NEW written,
         \A f \in written : row[f] \in Texts
  PROVE  /\ LoadRow(t, row, target, written) \in Seq(RecordType)
         /\ RowDone(t, LoadRow(t, row, target, written), row, target, written)
<1> DEFINE new(i) == IF i \in target THEN Filled(row, written, t[i]) ELSE t[i]
           after == [i \in 1..Len(t) |-> new(i)]
<1>1. Len(t) \in Nat /\ DOMAIN t = 1..Len(t) /\ \A i \in 1..Len(t) : t[i] \in RecordType
  BY LenProperties, ElementOfSeq
<1>2. \A old \in RecordType : Filled(row, written, old) \in RecordType
  BY DEF Filled, RecordType
<1>3. Blank \in RecordType
  BY DEF Blank, RecordType, Texts
<1>4. CASE Cardinality(target) = 1
  <2>1. LoadRow(t, row, target, written) = after
    BY <1>1, <1>4 DEF LoadRow, Filled
  <2>2. \A i \in 1..Len(t) : new(i) \in RecordType
    BY <1>1, <1>2
  <2> HIDE DEF new
  <2>3. after \in Seq(RecordType) /\ Len(after) = Len(t)
    BY <1>1, <2>2, IsASeq
  <2>4. \A i \in 1..Len(t) : after[i] = new(i)
    OBVIOUS
  <2> HIDE DEF after
  <2> QED
    BY <1>4, <2>1, <2>3, <2>4 DEF new, RowDone
<1>5. CASE Cardinality(target) # 1
  <2>1. LoadRow(t, row, target, written) = Append(t, Filled(row, written, Blank))
    BY <1>5 DEF LoadRow, Filled, Blank
  <2> QED
    BY <1>2, <1>3, <1>5, <2>1, AppendProperties DEF RowDone
<1> QED
  BY <1>4, <1>5

\* A file that is not refused makes tables, row by row.
LEMMA LoadedExists ==
  ASSUME NEW t \in Seq(RecordType), NEW file \in Files, NEW chosen, ~Refused(t, file, chosen)
  PROVE  \E g \in [0..Len(file.rows) -> Seq(RecordType)] :
           /\ Load(t, file, chosen) = g[Len(file.rows)]
           /\ g[0] = t
           /\ \A n \in 1..Len(file.rows) :
                g[n] = LoadRow(g[n - 1], file.rows[n], Targets(t, file, chosen)[n],
                               Written(file, chosen))
<1> DEFINE k == Len(file.rows)
           targets == Targets(t, file, chosen)
           written == Written(file, chosen)
           Tabs == Seq(RecordType)
           F == [u \in (1..k) \X Tabs |-> LoadRow(u[2], file.rows[u[1]], targets[u[1]], written)]
<1>1. k \in Nat
  BY FileIs
<1>2. \A n \in 1..k, u \in Tabs : LoadRow(u, file.rows[n], targets[n], written) \in Tabs
  <2> SUFFICES ASSUME NEW n \in 1..k, NEW u \in Tabs
               PROVE  LoadRow(u, file.rows[n], targets[n], written) \in Tabs
    OBVIOUS
  <2>1. \A f \in written : file.rows[n][f] \in Texts
    BY FileIs DEF Written, Texts
  <2> HIDE DEF targets, written
  <2> QED
    BY <2>1, LoadRowIs
<1> HIDE DEF targets, written, Tabs
<1>3. F \in [(1..k) \X Tabs -> Tabs]
  BY <1>2
<1>4. \A n \in 1..k, u \in Tabs : F[<<n, u>>] = LoadRow(u, file.rows[n], targets[n], written)
  OBVIOUS
<1> HIDE DEF F
<1>5. PICK h \in [0..k -> Tabs] : IsRecursive(h, k, t, F)
  BY <1>1, <1>3, RecursionExists DEF Tabs
<1>6. ASSUME NEW n \in 0..k
      PROVE  h[n] = IF n = 0 THEN t ELSE LoadRow(h[n - 1], file.rows[n], targets[n], written)
  <2>1. n # 0 => n \in 1..k /\ h[n - 1] \in Tabs
    BY <1>1
  <2>2. h[n] = IF n = 0 THEN t ELSE F[<<n, h[n - 1]>>]
    BY <1>5 DEF IsRecursive
  <2> QED
    BY <2>1, <2>2, <1>4
<1> DEFINE g == CHOOSE x : IsLoaded(x, t, file, targets, written)
<1>7. IsLoaded(h, t, file, targets, written)
  BY <1>6 DEF IsLoaded
<1>8. IsLoaded(g, t, file, targets, written)
  BY <1>7
<1>9. Load(t, file, chosen) = g[k]
  BY LoadIs DEF targets, written
<1> HIDE DEF g
<1>10. \A n \in 0..k : g[n] = IF n = 0 THEN t ELSE LoadRow(g[n - 1], file.rows[n], targets[n], written)
  BY <1>8 DEF IsLoaded
<1> DEFINE T == {n \in Nat : n <= k => g[n] \in Tabs}
<1>11. 0 \in T
  BY <1>1, <1>10 DEF Tabs
<1>12. ASSUME NEW n \in Nat, n \in T PROVE n + 1 \in T
  <2> SUFFICES ASSUME n + 1 <= k PROVE g[n + 1] \in Tabs
    OBVIOUS
  <2>1. n + 1 \in 1..k /\ n + 1 \in 0..k /\ (n + 1) - 1 = n /\ g[n] \in Tabs
    BY <1>1, <1>12
  <2>2. g[n + 1] = LoadRow(g[n], file.rows[n + 1], targets[n + 1], written)
    BY <1>10, <2>1
  <2> QED
    BY <1>2, <2>1, <2>2
<1>13. \A n \in 0..k : g[n] \in Tabs
  <2>1. \A n \in Nat : n \in T
    <3> HIDE DEF T
    <3> QED
      BY <1>11, <1>12, NatInduct
  <2> QED
    BY <1>1, <2>1
<1>14. g \in [0..k -> Tabs] /\ g[0] = t
  <2>1. g = [n \in 0..k |-> g[n]]
    BY <1>8 DEF IsLoaded
  <2>2. g \in [0..k -> Tabs]
    BY <1>13, <2>1
  <2>3. 0 \in 0..k
    BY <1>1
  <2> QED
    BY <1>10, <2>2, <2>3
<1>15. \A n \in 1..k : g[n] = LoadRow(g[n - 1], file.rows[n], targets[n], written)
  BY <1>1, <1>10
<1> QED
  BY <1>9, <1>14, <1>15 DEF targets, written, Tabs

\* The same, by what each row does to each record
LEMMA LoadedRows ==
  ASSUME NEW t \in Seq(RecordType), NEW file \in Files, NEW chosen, ~Refused(t, file, chosen)
  PROVE  \E g : /\ Loading(g, t, file, Targets(t, file, chosen), Written(file, chosen))
                /\ Load(t, file, chosen) = g[Len(file.rows)]
<1>1. \E g \in [0..Len(file.rows) -> Seq(RecordType)] :
        /\ Load(t, file, chosen) = g[Len(file.rows)]
        /\ g[0] = t
        /\ \A n \in 1..Len(file.rows) :
             g[n] = LoadRow(g[n - 1], file.rows[n], Targets(t, file, chosen)[n],
                            Written(file, chosen))
  BY LoadedExists, SMTT(30)
<1> DEFINE k == Len(file.rows)
           targets == Targets(t, file, chosen)
           written == Written(file, chosen)
<1>10. PICK g \in [0..k -> Seq(RecordType)] :
         /\ Load(t, file, chosen) = g[k] /\ g[0] = t
         /\ \A n \in 1..k : g[n] = LoadRow(g[n - 1], file.rows[n], targets[n], written)
  BY <1>1, Zenon
<1>2. k \in Nat
  BY FileIs
<1>3. \A n \in 1..k : \A f \in written : file.rows[n][f] \in Texts
  BY FileIs DEF Written, Texts
<1> HIDE DEF targets, written
<1>4. ASSUME NEW n \in 1..k
      PROVE  RowDone(g[n - 1], g[n], file.rows[n], targets[n], written)
  <2>1. g[n - 1] \in Seq(RecordType)
    <3>1. n - 1 \in 0..k
      BY <1>2
    <3> HIDE DEF k
    <3> QED
      BY <1>10, <3>1
  <2>2. g[n] = LoadRow(g[n - 1], file.rows[n], targets[n], written)
    BY <1>10
  <2>3. \A f \in written : file.rows[n][f] \in Texts
    BY <1>3
  <2> QED
    BY <2>1, <2>2, <2>3, LoadRowIs
<1> QED
  BY <1>10, <1>4 DEF targets, written, Loading

-----------------------------------------------------------------------------
(* Fields that users choose *)

\* Nothing is created, and what identifies records stays.
Kept(u, t, written) ==
  Len(u) = Len(t) /\ \A i \in 1..Len(t), f \in Columns \ written : u[i][f] = t[i][f]

LEMMA ChosenKeep ==
  ASSUME NEW t \in Seq(RecordType), NEW file \in Files, NEW g, NEW targets, NEW written,
         Loading(g, t, file, targets, written),
         \A n \in 1..Len(file.rows) : Cardinality(targets[n]) = 1
  PROVE  \A n \in 0..Len(file.rows) : Kept(g[n], t, written)
<1> DEFINE k == Len(file.rows)
           T == {n \in Nat : n <= k => Kept(g[n], t, written)}
<1>0. k \in Nat
  BY FileIs
<1>1. 0 \in T
  BY DEF Loading, Kept
<1>2. ASSUME NEW n \in Nat, n \in T PROVE n + 1 \in T
  <2> SUFFICES ASSUME n + 1 <= k PROVE Kept(g[n + 1], t, written)
    OBVIOUS
  <2>1. n + 1 \in 1..k /\ (n + 1) - 1 = n /\ Kept(g[n], t, written)
    BY <1>0, <1>2
  <2>2. RowDone(g[n], g[n + 1], file.rows[n + 1], targets[n + 1], written)
    BY <2>1 DEF Loading
  <2>3. /\ Len(g[n + 1]) = Len(g[n])
        /\ \A i \in 1..Len(g[n]) : g[n + 1][i] =
             IF i \in targets[n + 1] THEN Filled(file.rows[n + 1], written, g[n][i]) ELSE g[n][i]
    BY <2>1, <2>2 DEF RowDone
  <2>4. ASSUME NEW i \in 1..Len(t), NEW f \in Columns \ written PROVE g[n + 1][i][f] = t[i][f]
    <3>1. i \in 1..Len(g[n]) /\ g[n][i][f] = t[i][f]
      BY <2>1 DEF Kept
    <3>2. Filled(file.rows[n + 1], written, g[n][i])[f] = g[n][i][f]
      BY DEF Filled
    <3> QED
      BY <2>3, <3>1, <3>2
  <2> QED
    BY <2>1, <2>3, <2>4 DEF Kept
<1>3. \A n \in Nat : n \in T
  <2> HIDE DEF T
  <2> QED
    BY <1>1, <1>2, NatInduct
<1> QED
  BY <1>3

\* Fields that identify are not written: the second import finds what the first one found.
LEMMA ChosenAgain ==
  ASSUME NEW t \in Seq(RecordType), NEW once \in Seq(RecordType), NEW file \in Files, NEW chosen,
         chosen # NoChoice, chosen \cap file.columns # {},
         Kept(once, t, Written(file, chosen))
  PROVE  Targets(once, file, chosen) = Targets(t, file, chosen)
<1> DEFINE fields == chosen \cap file.columns
<1>1. fields \subseteq Columns \ Written(file, chosen)
  BY FileIs DEF Written
<1>2. DOMAIN t = 1..Len(t) /\ DOMAIN once = 1..Len(t)
  BY LenProperties DEF Kept
<1> HIDE DEF fields
<1>3. \A row : Agreeing(once, row, fields) = Agreeing(t, row, fields)
  BY <1>1, <1>2 DEF Agreeing, Kept
<1> QED
  BY <1>3 DEF Targets, fields

\* An import with fields that users choose
LEMMA ChosenIsIdempotent ==
  ASSUME NEW t \in Seq(RecordType), NEW file \in Files, NEW chosen,
         chosen # NoChoice, chosen \cap file.columns # {}
  PROVE  LET once == Load(t, file, chosen) IN
         Load(once, file, chosen) = once /\ Len(once) = Len(t)
<1> DEFINE once == Load(t, file, chosen)
           k == Len(file.rows)
           targets == Targets(t, file, chosen)
           written == Written(file, chosen)
<1>1. CASE Refused(t, file, chosen)
  <2>1. once = t
    BY <1>1, LoadIs
  <2> HIDE DEF once
  <2> QED
    BY <2>1 DEF once
<1>2. CASE ~Refused(t, file, chosen)
  <2>1. k \in Nat /\ DOMAIN file.rows = 1..k
    BY FileIs
  <2>2. \A n \in 1..k : Cardinality(targets[n]) = 1
    BY <1>2, <2>1 DEF Refused
  <2>3. PICK g : Loading(g, t, file, targets, written) /\ once = g[k]
    BY <1>2, LoadedRows
  <2> HIDE DEF once, targets, written
  <2>4. \A n \in 0..k : Kept(g[n], t, written)
    BY <2>2, <2>3, ChosenKeep
  <2>5. once \in Seq(RecordType) /\ Kept(once, t, written)
    BY <2>1, <2>3, <2>4 DEF Loading
  <2>6. Targets(once, file, chosen) = targets
    BY <2>5, ChosenAgain DEF written, targets
  <2>7. ~Refused(once, file, chosen)
    BY <1>2, <2>6 DEF Refused, targets
  <2>8. PICK h : Loading(h, once, file, targets, written) /\ Load(once, file, chosen) = h[k]
    BY <2>5, <2>6, <2>7, LoadedRows DEF written
  <2>9. \A n \in 0..k : Kept(h[n], once, written)
    BY <2>2, <2>5, <2>8, ChosenKeep
  <2>10. \A n \in 0..k : Len(g[n]) = Len(t) /\ Len(h[n]) = Len(t)
    BY <2>4, <2>5, <2>9 DEF Kept
  <2> DEFINE Hit(n, i) == \E m \in 1..n : i \in targets[m]
             Same(n) == \A i \in 1..Len(t) : h[n][i] = IF Hit(n, i) THEN g[n][i] ELSE once[i]
             T == {n \in Nat : n <= k => Same(n)}
  <2>11. 0 \in T
    BY <2>8 DEF Loading
  <2>12. ASSUME NEW n \in Nat, n \in T PROVE n + 1 \in T
    <3> SUFFICES ASSUME n + 1 <= k, NEW i \in 1..Len(t)
                 PROVE  h[n + 1][i] = IF Hit(n + 1, i) THEN g[n + 1][i] ELSE once[i]
      OBVIOUS
    <3> DEFINE row == file.rows[n + 1]
    <3>1. n + 1 \in 1..k /\ (n + 1) - 1 = n /\ n \in 0..k /\ Same(n)
      <4>1. n + 1 \in 1..k /\ (n + 1) - 1 = n /\ n \in 0..k /\ n <= k
        BY <2>1
      <4> HIDE DEF Same
      <4> QED
        BY <4>1, <2>12
    <3>2. /\ g[n + 1][i] = IF i \in targets[n + 1] THEN Filled(row, written, g[n][i]) ELSE g[n][i]
          /\ h[n + 1][i] = IF i \in targets[n + 1] THEN Filled(row, written, h[n][i]) ELSE h[n][i]
      <4>1. /\ RowDone(g[n], g[n + 1], row, targets[n + 1], written)
            /\ RowDone(h[n], h[n + 1], row, targets[n + 1], written)
        BY <2>3, <2>8, <3>1 DEF Loading
      <4>2. i \in 1..Len(g[n]) /\ i \in 1..Len(h[n]) /\ Cardinality(targets[n + 1]) = 1
        BY <2>2, <2>10, <3>1
      <4> QED
        BY <4>1, <4>2 DEF RowDone
    <3>3. CASE i \in targets[n + 1]
      <4>1. ASSUME NEW f \in Columns \ written PROVE h[n][i][f] = g[n][i][f]
        <5>1. g[n][i][f] = t[i][f] /\ once[i][f] = t[i][f]
          BY <2>4, <2>5, <3>1 DEF Kept
        <5>2. h[n][i][f] = once[i][f]
          BY <2>5, <2>9, <3>1 DEF Kept
        <5> QED
          BY <5>1, <5>2
      <4>2. Filled(row, written, h[n][i]) = Filled(row, written, g[n][i])
        BY <4>1 DEF Filled
      <4>3. Hit(n + 1, i)
        BY <3>1, <3>3
      <4> QED
        BY <3>2, <3>3, <4>2, <4>3
    <3>4. CASE i \notin targets[n + 1]
      <4>1. Hit(n + 1, i) <=> Hit(n, i)
        BY <3>1, <3>4
      <4>2. h[n][i] = IF Hit(n, i) THEN g[n][i] ELSE once[i]
        BY <3>1
      <4> HIDE DEF Hit
      <4> QED
        BY <3>2, <3>4, <4>1, <4>2
    <3> QED
      BY <3>3, <3>4
  <2>13. Same(k)
    <3>1. \A n \in Nat : n \in T
      <4> HIDE DEF T
      <4> QED
        BY <2>11, <2>12, NatInduct
    <3> QED
      BY <2>1, <3>1
  <2>14. Len(once) = Len(t) /\ \A i \in 1..Len(once) : h[k][i] = once[i]
    BY <2>3, <2>5, <2>13 DEF Kept
  <2>15. h[k] = once
    <3>1. h[k] \in Seq(RecordType) /\ Len(h[k]) = Len(once)
      BY <2>1, <2>8, <2>10, <2>14 DEF Loading
    <3> QED
      BY <2>5, <2>14, <3>1, SeqEqual
  <2> QED
    BY <2>8, <2>14, <2>15 DEF once
<1> QED
  BY <1>1, <1>2

-----------------------------------------------------------------------------
(* One rule that tells records and rows apart *)

\* What the second part of ImportsAreIdempotent asks for of a rule, a table and a file
Prevents(t, file) ==
  LET key == rules[1].fields IN
  /\ Len(rules) = 1 /\ rules[1].only_if = <<>> /\ key \subseteq file.columns
  /\ \A n \in DOMAIN file.rows : file.rows[n].id = 0
  /\ KeyedBy(t, key)

Agree(one, other, fields) == \A f \in fields : one[f] = other[f]

\* Such a rule finds the one record that agrees with a row, or none.
LEMMA RuleFinds ==
  ASSUME NEW t \in Seq(RecordType), NEW file \in Files, DOMAIN rules = 1..Len(rules),
         Prevents(t, file), NEW n \in 1..Len(file.rows)
  PROVE  LET found == Agreeing(t, file.rows[n], rules[1].fields) IN
         /\ Targets(t, file, NoChoice)[n] = found
         /\ found = {} => Cardinality(found) # 1
         /\ \A i \in found : found = {i} /\ Cardinality(found) = 1
<1> DEFINE key == rules[1].fields
           row == file.rows[n]
           found == Agreeing(t, row, key)
<1>1. DOMAIN file.rows = 1..Len(file.rows)
  BY FileIs
<1>2. row.id = 0 /\ key \subseteq file.columns /\ KeyedBy(t, key) /\ DOMAIN rules = {1}
  BY <1>1 DEF Prevents
<1>3. found = {} => Cardinality(found) # 1
  BY FS_EmptySet
<1>4. ASSUME NEW i \in found PROVE found = {i} /\ Cardinality(found) = 1
  <2>1. \A j \in found : j = i
    BY <1>2 DEF Agreeing, KeyedBy
  <2>2. found = {i}
    BY <2>1
  <2> HIDE DEF found
  <2> QED
    BY <2>2, FS_Singleton
<1>5. Targets(t, file, NoChoice)[n] = MatchFind(t, file, row)
  BY <1>1, <1>2 DEF Targets
<1>6. Usable(file) = {1} /\ Applicable(rules[1], row)
  <2>1. rules[1].only_if = <<>>
    BY DEF Prevents
  <2>2. Applicable(rules[1], row)
    BY <2>1 DEF Applicable
  <2> QED
    BY <1>2, <2>2 DEF Usable
<1>7. MatchFind(t, file, row) = IF Cardinality(found) = 1 THEN found ELSE {}
  <2> DEFINE finding == {m \in Usable(file) : Applicable(rules[m], row)
                            /\ Cardinality(Agreeing(t, row, rules[m].fields)) = 1}
  <2>1. MatchFind(t, file, row) =
          IF finding = {} THEN {} ELSE Agreeing(t, row, rules[Min(finding)].fields)
    BY DEF MatchFind
  <2>2. finding = IF Cardinality(found) = 1 THEN {1} ELSE {}
    BY <1>6
  <2>3. Min({1}) = 1
    BY DEF Min
  <2> HIDE DEF finding
  <2> QED
    BY <2>1, <2>2, <2>3
<1> HIDE DEF found
<1>8. found = {} \/ \E i \in found : TRUE
  OBVIOUS
<1> QED
  BY <1>3, <1>4, <1>5, <1>7, <1>8 DEF found

\* What there is after some rows: records keep their keys, new ones come from rows that
\* found none, and every row is there.
RowsIn(u, t, file, key, targets, n) ==
  /\ u \in Seq(RecordType)
  /\ Len(u) >= Len(t)
  /\ \A i \in 1..Len(t) : Agree(u[i], t[i], key)
  /\ \A i \in (Len(t) + 1)..Len(u) :
       \E m \in 1..n : targets[m] = {} /\ Agree(u[i], file.rows[m], key)
  /\ KeyedBy(u, key)
  /\ \A m \in 1..n : \E i \in 1..Len(u) : Agree(u[i], file.rows[m], file.columns)

\* One more row
LEMMA OneMoreRow ==
  ASSUME NEW t \in Seq(RecordType), NEW file \in Files, NEW key, key \subseteq file.columns,
         KeyedBy(file.rows, key), NEW targets,
         NEW n \in Nat, n + 1 <= Len(file.rows), NEW u, NEW v \in Seq(RecordType),
         RowsIn(u, t, file, key, targets, n),
         \A m \in 1..Len(file.rows) : targets[m] = Agreeing(t, file.rows[m], key),
         targets[n + 1] = {} => Cardinality(targets[n + 1]) # 1,
         \A i \in targets[n + 1] : targets[n + 1] = {i} /\ Cardinality(targets[n + 1]) = 1,
         RowDone(u, v, file.rows[n + 1], targets[n + 1], file.columns)
  PROVE  RowsIn(v, t, file, key, targets, n + 1)
<1> DEFINE row == file.rows[n + 1]
           target == targets[n + 1]
<1>1. /\ Len(file.rows) \in Nat /\ DOMAIN file.rows = 1..Len(file.rows)
      /\ file.columns \subseteq Columns
  BY FileIs
<1>2. n + 1 \in 1..Len(file.rows) /\ 1..n \subseteq 1..(n + 1)
      /\ \A m \in 1..n : m \in 1..Len(file.rows) /\ m # n + 1
  BY <1>1
<1>3. /\ Len(t) \in Nat /\ Len(u) \in Nat /\ Len(v) \in Nat
      /\ DOMAIN t = 1..Len(t) /\ DOMAIN u = 1..Len(u) /\ DOMAIN v = 1..Len(v)
  BY LenProperties DEF RowsIn
<1>4. ASSUME NEW m \in 1..n PROVE \E f \in key : file.rows[m][f] # row[f]
  <2>1. m \in DOMAIN file.rows /\ n + 1 \in DOMAIN file.rows /\ m # n + 1
    BY <1>1, <1>2
  <2> QED
    BY <2>1 DEF KeyedBy
<1>5. \A old, f : f \in file.columns => Filled(row, file.columns, old)[f] = row[f]
  BY <1>1 DEF Filled
<1>6. CASE target # {}
  <2>1. PICK i \in target : target = {i}
    BY <1>6
  <2>2. i \in 1..Len(t) /\ Agree(t[i], row, key)
    BY <1>2, <1>3, <2>1 DEF Agreeing, Agree
  <2>3. i \in 1..Len(u) /\ Agree(u[i], row, key)
    <3>1. i \in 1..Len(u) /\ Agree(u[i], t[i], key)
      BY <1>3, <2>2 DEF RowsIn
    <3> QED
      BY <2>2, <3>1 DEF Agree
  <2>4. /\ Len(v) = Len(u)
        /\ \A j \in 1..Len(u) : v[j] = IF j = i THEN Filled(row, file.columns, u[j]) ELSE u[j]
    BY <2>1 DEF RowDone
  <2>5. \A j \in 1..Len(u) : Agree(v[j], u[j], key)
    BY <1>5, <2>3, <2>4 DEF Agree
  <2>6. \A j \in 1..Len(t) : Agree(v[j], t[j], key)
    BY <1>3, <2>5 DEF RowsIn, Agree
  <2>7. \A j \in (Len(t) + 1)..Len(v) :
          \E m \in 1..(n + 1) : targets[m] = {} /\ Agree(v[j], file.rows[m], key)
    <3> SUFFICES ASSUME NEW j \in (Len(t) + 1)..Len(v)
                 PROVE  \E m \in 1..(n + 1) : targets[m] = {} /\ Agree(v[j], file.rows[m], key)
      OBVIOUS
    <3>1. j \in 1..Len(u) /\ j \in (Len(t) + 1)..Len(u)
      BY <1>3, <2>4
    <3>2. PICK m \in 1..n : targets[m] = {} /\ Agree(u[j], file.rows[m], key)
      BY <3>1 DEF RowsIn
    <3>3. Agree(v[j], file.rows[m], key)
      BY <2>5, <3>1, <3>2 DEF Agree
    <3> QED
      BY <1>2, <3>2, <3>3
  <2>8. KeyedBy(v, key)
    BY <1>3, <2>4, <2>5 DEF RowsIn, KeyedBy, Agree
  <2>9. ASSUME NEW m \in 1..(n + 1)
        PROVE  \E j \in 1..Len(v) : Agree(v[j], file.rows[m], file.columns)
    <3>1. CASE m = n + 1
      <4>1. Agree(v[i], row, file.columns)
        BY <1>5, <2>3, <2>4 DEF Agree
      <4> QED
        BY <2>3, <2>4, <3>1, <4>1
    <3>2. CASE m # n + 1
      <4>1. m \in 1..n
        BY <3>2
      <4>2. PICK j \in 1..Len(u) : Agree(u[j], file.rows[m], file.columns)
        BY <4>1 DEF RowsIn
      <4>3. j # i
        BY <1>4, <2>3, <4>1, <4>2 DEF Agree
      <4> QED
        BY <2>4, <4>2, <4>3
    <3> QED
      BY <3>1, <3>2
  <2> QED
    BY <2>4, <2>6, <2>7, <2>8, <2>9 DEF RowsIn
<1>7. CASE target = {}
  <2> DEFINE new == Len(u) + 1
  <2>1. /\ Len(v) = new
        /\ \A j \in 1..Len(u) : v[j] = u[j]
        /\ v[new] = Filled(row, file.columns, Blank)
    BY <1>7 DEF RowDone
  <2>2. Agree(v[new], row, file.columns) /\ Agree(v[new], row, key)
    BY <1>5, <2>1 DEF Agree
  <2>3. ASSUME NEW j \in 1..Len(u) PROVE ~Agree(u[j], row, key)
    <3>1. CASE j \in 1..Len(t)
      <4>1. j \notin Agreeing(t, row, key)
        BY <1>2, <1>7
      <4>2. ~Agree(t[j], row, key)
        BY <1>3, <3>1, <4>1 DEF Agreeing, Agree
      <4> QED
        BY <3>1, <4>2 DEF RowsIn, Agree
    <3>2. CASE j \notin 1..Len(t)
      <4>1. j \in (Len(t) + 1)..Len(u)
        BY <1>3, <3>2
      <4>2. PICK m \in 1..n : Agree(u[j], file.rows[m], key)
        BY <4>1 DEF RowsIn
      <4> QED
        BY <1>4, <4>2 DEF Agree
    <3> QED
      BY <3>1, <3>2
  <2>4. \A j \in 1..Len(v) : j \in 1..Len(u) \/ j = new
    BY <1>3, <2>1
  <2>5. \A j \in 1..Len(t) : j \in 1..Len(u) /\ v[j] = u[j]
    BY <1>3, <2>1 DEF RowsIn
  <2>6. \A j \in 1..Len(t) : Agree(v[j], t[j], key)
    BY <2>5 DEF RowsIn
  <2>7. \A j \in (Len(t) + 1)..Len(v) :
          \E m \in 1..(n + 1) : targets[m] = {} /\ Agree(v[j], file.rows[m], key)
    <3> SUFFICES ASSUME NEW j \in (Len(t) + 1)..Len(v)
                 PROVE  \E m \in 1..(n + 1) : targets[m] = {} /\ Agree(v[j], file.rows[m], key)
      OBVIOUS
    <3>1. CASE j = new
      <4>1. n + 1 \in 1..(n + 1)
        OBVIOUS
      <4> QED
        BY <1>7, <2>2, <3>1, <4>1
    <3>2. CASE j # new
      <4>1. j \in 1..Len(u) /\ j \in (Len(t) + 1)..Len(u)
        BY <1>3, <2>1, <3>2
      <4>2. PICK m \in 1..n : targets[m] = {} /\ Agree(u[j], file.rows[m], key)
        BY <4>1 DEF RowsIn
      <4> QED
        BY <1>2, <2>1, <4>1, <4>2
    <3> QED
      BY <3>1, <3>2
  <2>8. KeyedBy(v, key)
    <3> SUFFICES ASSUME NEW i \in 1..Len(v), NEW j \in 1..Len(v), Agree(v[i], v[j], key)
                 PROVE  i = j
      BY <1>3 DEF KeyedBy, Agree
    <3>1. CASE i \in 1..Len(u) /\ j \in 1..Len(u)
      <4>1. KeyedBy(u, key) /\ i \in DOMAIN u /\ j \in DOMAIN u
        BY <1>3, <3>1 DEF RowsIn
      <4>2. \A f \in key : u[i][f] = u[j][f]
        BY <2>1, <3>1 DEF Agree
      <4> QED
        BY <4>1, <4>2 DEF KeyedBy
    <3>2. CASE i = new /\ j \in 1..Len(u)
      <4>1. Agree(u[j], row, key)
        BY <2>1, <2>2, <3>2 DEF Agree
      <4> QED
        BY <2>3, <3>2, <4>1
    <3>3. CASE j = new /\ i \in 1..Len(u)
      <4>1. Agree(u[i], row, key)
        BY <2>1, <2>2, <3>3 DEF Agree
      <4> QED
        BY <2>3, <3>3, <4>1
    <3> QED
      BY <2>4, <3>1, <3>2, <3>3
  <2>9. ASSUME NEW m \in 1..(n + 1)
        PROVE  \E j \in 1..Len(v) : Agree(v[j], file.rows[m], file.columns)
    <3>1. CASE m = n + 1
      <4>1. new \in 1..Len(v)
        BY <1>3, <2>1
      <4> QED
        BY <2>2, <3>1, <4>1
    <3>2. CASE m # n + 1
      <4>1. m \in 1..n
        BY <3>2
      <4>2. PICK j \in 1..Len(u) : Agree(u[j], file.rows[m], file.columns)
        BY <4>1 DEF RowsIn
      <4>3. j \in 1..Len(v) /\ v[j] = u[j]
        BY <1>3, <2>1
      <4> QED
        BY <4>2, <4>3
    <3> QED
      BY <3>1, <3>2
  <2>10. Len(v) >= Len(t)
    BY <1>3, <2>1 DEF RowsIn
  <2> HIDE DEF new
  <2> QED
    BY <2>6, <2>7, <2>8, <2>9, <2>10 DEF RowsIn
<1> QED
  BY <1>6, <1>7

\* A row that is written to the record that has it changes nothing.
LEMMA FilledSame ==
  ASSUME NEW old \in RecordType, NEW row, NEW columns, columns \subseteq Columns,
         Agree(old, row, columns)
  PROVE  Filled(row, columns, old) = old
BY DEF Filled, RecordType, Agree

\* An import by one rule that tells records and rows apart
LEMMA RuleIsIdempotent ==
  ASSUME NEW t \in Seq(RecordType), NEW file \in Files, DOMAIN rules = 1..Len(rules),
         Prevents(t, file), KeyedBy(file.rows, rules[1].fields)
  PROVE  LET once == Load(t, file, NoChoice) IN
         Load(once, file, NoChoice) = once /\ KeyedBy(once, rules[1].fields)
<1> DEFINE once == Load(t, file, NoChoice)
           k == Len(file.rows)
           key == rules[1].fields
           targets == Targets(t, file, NoChoice)
<1>1. k \in Nat /\ DOMAIN file.rows = 1..k /\ key \subseteq file.columns /\ file.columns \subseteq Columns
  BY FileIs DEF Prevents
<1>2. \A u : ~Refused(u, file, NoChoice)
  BY DEF Refused
<1>3. Written(file, NoChoice) = file.columns
  BY DEF Written
<1>4. PICK g : Loading(g, t, file, targets, file.columns) /\ once = g[k]
  BY <1>2, <1>3, LoadedRows
<1>5. ASSUME NEW n \in 1..k
      PROVE  /\ targets[n] = Agreeing(t, file.rows[n], key)
             /\ targets[n] = {} => Cardinality(targets[n]) # 1
             /\ \A i \in targets[n] : targets[n] = {i} /\ Cardinality(targets[n]) = 1
  <2> DEFINE found == Agreeing(t, file.rows[n], key)
  <2>1. /\ targets[n] = found
        /\ found = {} => Cardinality(found) # 1
        /\ \A i \in found : found = {i} /\ Cardinality(found) = 1
    BY RuleFinds
  <2> HIDE DEF found, targets
  <2>2. /\ targets[n] = {} => Cardinality(targets[n]) # 1
        /\ \A i \in targets[n] : targets[n] = {i} /\ Cardinality(targets[n]) = 1
    BY <2>1
  <2> QED
    BY <2>1, <2>2 DEF found
<1> HIDE DEF once, targets
<1> DEFINE T == {n \in Nat : n <= k => RowsIn(g[n], t, file, key, targets, n)}
<1>6. 0 \in T
  <2>1. g[0] = t /\ Len(t) \in Nat /\ KeyedBy(t, key)
    BY <1>4, LenProperties DEF Loading, Prevents
  <2> QED
    BY <2>1 DEF RowsIn, Agree
<1>7. ASSUME NEW n \in Nat, n \in T PROVE n + 1 \in T
  <2> SUFFICES ASSUME n + 1 <= k PROVE RowsIn(g[n + 1], t, file, key, targets, n + 1)
    OBVIOUS
  <2>1. n + 1 \in 1..k /\ n + 1 \in 0..k /\ (n + 1) - 1 = n /\ n <= k
    BY <1>1
  <2>2. RowsIn(g[n], t, file, key, targets, n)
    BY <1>7, <2>1
  <2>3. RowDone(g[n], g[n + 1], file.rows[n + 1], targets[n + 1], file.columns)
    BY <1>4, <2>1 DEF Loading
  <2>4. g[n + 1] \in Seq(RecordType)
    BY <1>4, <2>1 DEF Loading
  <2> HIDE DEF key
  <2> QED
    BY <1>1, <1>5, <2>1, <2>2, <2>3, <2>4, OneMoreRow DEF key
<1>8. RowsIn(once, t, file, key, targets, k)
  <2>1. \A n \in Nat : n \in T
    <3> HIDE DEF T
    <3> QED
      BY <1>6, <1>7, NatInduct
  <2> QED
    BY <1>1, <1>4, <2>1
<1>9. once \in Seq(RecordType) /\ KeyedBy(once, key) /\ DOMAIN once = 1..Len(once)
  BY <1>8, LenProperties DEF RowsIn
<1> DEFINE again == Targets(once, file, NoChoice)
<1>10. PICK h : Loading(h, once, file, again, file.columns) /\ Load(once, file, NoChoice) = h[k]
  BY <1>2, <1>3, <1>9, LoadedRows
<1>11. ASSUME NEW n \in 1..k
       PROVE  \E i \in 1..Len(once) :
                again[n] = {i} /\ Cardinality(again[n]) = 1
                /\ Agree(once[i], file.rows[n], file.columns)
  <2>1. PICK i \in 1..Len(once) : Agree(once[i], file.rows[n], file.columns)
    BY <1>8 DEF RowsIn
  <2>2. i \in Agreeing(once, file.rows[n], key)
    BY <1>1, <1>9, <2>1 DEF Agree, Agreeing
  <2>3. Prevents(once, file)
    BY <1>9 DEF Prevents
  <2>4. again[n] = {i} /\ Cardinality(again[n]) = 1
    BY <1>9, <2>2, <2>3, RuleFinds
  <2> QED
    BY <2>1, <2>4
<1> HIDE DEF again
<1> DEFINE U == {n \in Nat : n <= k => h[n] = once}
<1>12. 0 \in U
  BY <1>10 DEF Loading
<1>13. ASSUME NEW n \in Nat, n \in U PROVE n + 1 \in U
  <2> SUFFICES ASSUME n + 1 <= k PROVE h[n + 1] = once
    OBVIOUS
  <2>1. n + 1 \in 1..k /\ n + 1 \in 0..k /\ (n + 1) - 1 = n /\ n <= k
    BY <1>1
  <2>2. h[n] = once
    BY <1>13, <2>1
  <2>3. RowDone(once, h[n + 1], file.rows[n + 1], again[n + 1], file.columns)
    BY <1>10, <2>1, <2>2 DEF Loading
  <2>4. h[n + 1] \in Seq(RecordType)
    BY <1>10, <2>1 DEF Loading
  <2>5. PICK i \in 1..Len(once) :
          again[n + 1] = {i} /\ Cardinality(again[n + 1]) = 1
          /\ Agree(once[i], file.rows[n + 1], file.columns)
    BY <1>11, <2>1
  <2>6. once[i] \in RecordType
    BY <1>9, ElementOfSeq
  <2>7. Filled(file.rows[n + 1], file.columns, once[i]) = once[i]
    BY <1>1, <2>5, <2>6, FilledSame
  <2>8. Len(h[n + 1]) = Len(once) /\ \A j \in 1..Len(once) : h[n + 1][j] = once[j]
    BY <2>3, <2>5, <2>7 DEF RowDone
  <2> QED
    BY <1>9, <2>4, <2>8, SeqEqual
<1>14. h[k] = once
  <2>1. \A n \in Nat : n \in U
    <3> HIDE DEF U
    <3> QED
      BY <1>12, <1>13, NatInduct
  <2> QED
    BY <1>1, <2>1
<1> QED
  BY <1>9, <1>10, <1>14 DEF once

-----------------------------------------------------------------------------

\* The table is one of records, whatever was imported.
ImportInv ==
  /\ records \in Seq(RecordType)
  /\ DOMAIN rules = 1..Len(rules)

\* Imports keep it.
LEMMA ImportKeeps ==
  ASSUME ImportInv, [ImportFile]_<<records, rules, imports>>
  PROVE  ImportInv'
<1>1. CASE ImportFile
  <2>1. PICK file \in Files, chosen \in Selections : records' = Load(records, file, chosen)
    BY <1>1 DEF ImportFile
  <2>2. CASE Refused(records, file, chosen)
    <3>1. records' = records
      BY <2>1, <2>2, LoadIs
    <3> QED
      BY <1>1, <3>1 DEF ImportInv, ImportFile
  <2>3. CASE ~Refused(records, file, chosen)
    <3>1. Len(file.rows) \in Nat
      BY FileIs
    <3>2. records' \in Seq(RecordType)
      BY <2>1, <2>3, <3>1, LoadedRows DEF ImportInv, Loading
    <3> QED
      BY <1>1, <3>2 DEF ImportInv, ImportFile
  <2> QED
    BY <2>2, <2>3
<1>2. CASE UNCHANGED <<records, rules, imports>>
  BY <1>2 DEF ImportInv
<1> QED
  BY <1>1, <1>2

\* A file that is imported again changes nothing: with one rule that applies to all rows
\* and tells the records and the rows apart, and with fields that users choose.
THEOREM ImportedOnce == SpecImport => []ImportsAreIdempotent
<1>1. InitImport => ImportInv
  BY TablesAre, ImportAssumption DEF InitImport, ImportInv
<1>2. ImportInv /\ [ImportFile]_<<records, rules, imports>> => ImportInv'
  BY ImportKeeps
<1>3. ImportInv => ImportsAreIdempotent
  <2> SUFFICES ASSUME ImportInv PROVE ImportsAreIdempotent
    OBVIOUS
  <2>1. ASSUME NEW file \in Files, Prevents(records, file), KeyedBy(file.rows, rules[1].fields)
        PROVE  LET once == Load(records, file, NoChoice) IN
               Load(once, file, NoChoice) = once /\ KeyedBy(once, rules[1].fields)
    BY <2>1, RuleIsIdempotent DEF ImportInv
  <2>2. ASSUME NEW file \in Files, NEW chosen \in Selections \ {NoChoice},
               chosen \cap file.columns # {}
        PROVE  LET once == Load(records, file, chosen) IN
               Load(once, file, chosen) = once /\ Len(once) = Len(records)
    BY <2>2, ChosenIsIdempotent DEF ImportInv
  <2> QED
    BY <2>1, <2>2 DEF ImportsAreIdempotent, Prevents
<1> QED
  BY <1>1, <1>2, <1>3, PTL DEF SpecImport

=============================================================================
