----------------------------- MODULE LineTracking -----------------------------
(***************************************************************************)
(* Changes of lines told to the record that owns them (tracking_manager).   *)
(* The changes of a transaction are collected in data of its cursor: values *)
(* before the first write of a line, notes on lines that are created and    *)
(* deleted.  A hook that runs before the commit, and whenever the cursor is *)
(* flushed for a savepoint, compares, and logs one message for each owner.  *)
(* What is tracked is configured by model and field, and cached.            *)
(*                                                                          *)
(* A line has an owner, a quantity, and a rank computed from it, which is   *)
(* readonly.  The transactions are those of one process; what other         *)
(* processes configure arrives between them, and clears its cache.          *)
(***************************************************************************)
EXTENDS Integers, SequencesExt

CONSTANTS
  LineIds,        \* ids of lines; none is used twice
  Owners, NoOwner,
  Quantities,
  FirstLines,    \* the lines there are at the beginning
  FirstSettings, \* what may be configured then
  Automatic,     \* fields of the line that match the domain of "Automatic configuration"
  MaxSteps       \* bound: what users do

ASSUME LineAssumption ==
  /\ IsFiniteSet(LineIds)
  /\ FirstLines \in UNION {[S -> [owner : Owners \cup {NoOwner}, quantity : Quantities,
                                 rank : {"large", "small"}]] : S \in SUBSET LineIds}

VARIABLES
  lines,    \* [id |-> line], as the transaction sees them
  setting,  \* what is configured
  known,    \* what the cache says of it, or nothing
  before,   \* tracking.manager.before: [id |-> [field |-> value]]
  notes,    \* tracking.manager.data: what is to be told
  saved,    \* lines at the beginning of the transaction and of its savepoint
  told,     \* the list of what the last step told, if it was a flush
  was, born, died,  \* history: lines after the last flush; those created, deleted since
  inForce,  \* history: what was configured when the cache was last filled or cleared
  steps

lineVars == <<lines, setting, known, before, notes, saved, told, was, born, died, inForce, steps>>

Rank(quantity) == IF quantity > 1 THEN "large" ELSE "small"
Line(owner, quantity) == [owner |-> owner, quantity |-> quantity, rank |-> Rank(quantity)]
LineFieldsAll == {"owner", "quantity", "rank"}
Nobody == {}

-----------------------------------------------------------------------------
(* Configuration.  owner, lines: active_custom_tracking of the two models;  *)
(* list: custom_tracking of the one2many field; fields: that of the line's. *)

\* _get_custom_tracked_fields_per_model; a model that is not active is tracked by all
\* fields that can be written.
FieldsOfLines(s) == IF s.lines THEN s.fields ELSE {"owner", "quantity"}

\* _get_model_tracked_by_o2m, for the model of the lines
TrackedByO2m(s) ==
  IF s.owner /\ s.list THEN [on |-> TRUE, fields |-> FieldsOfLines(s)]
  ELSE [on |-> FALSE, fields |-> {}]

\* It is cached.
Tracked == IF known = Nobody THEN TrackedByO2m(setting) ELSE CHOOSE k \in known : TRUE

Between == saved = <<>> /\ steps < MaxSteps /\ steps' = steps + 1

Configure(new) ==
  /\ Between
  /\ setting' = new /\ told' = {}
  /\ UNCHANGED <<lines, before, notes, saved, was, born, died>>

\* The cache is filled with the setting s.
Caches(s) == known' = {TrackedByO2m(s)} /\ inForce' = s

\* write of ir.model: it clears the cache, and then writes, and any write asks the cache
\* whether its own model is tracked.  So the setting from before the write is cached.
Activate(model) == Configure([setting EXCEPT ![model] = ~@]) /\ Caches(setting)

\* write of ir.model.fields, which has written custom_tracking when it asks
ConfigureFields(new) == Configure(new) /\ Caches(new)
TrackField(f) ==
  ConfigureFields([setting EXCEPT !.fields = IF f \in @ THEN @ \ {f} ELSE @ \cup {f}])
TrackList == ConfigureFields([setting EXCEPT !.list = ~@])

UpdateCustomTracking == ConfigureFields([setting EXCEPT !.fields = Automatic])

\* Another process has activated a model, or cleared the caches for a reason of its own.
ConfiguredElsewhere(new) == Configure(new) /\ known' = Nobody /\ inForce' = new

-----------------------------------------------------------------------------
(* What is collected                                                        *)

\* _tm_notify_owner
NotesOn(id, line, mode, changes) ==
  IF ~Tracked.on \/ line.owner = NoOwner THEN <<>>
  ELSE << [to |-> line.owner, line |-> id, mode |-> mode, changes |-> changes] >>

\* MUTANT: each write keeps the values it finds.
PreparedAgain(ids) ==
  [id \in DOMAIN before \cup ids |->
     IF id \in ids THEN Restrict(lines[id], Tracked.fields) ELSE before[id]]

\* _tm_prepare_o2m_tracking: the values that the first write finds are kept.
Prepared(ids) ==
  [id \in DOMAIN before \cup ids |->
     IF id \in DOMAIN before THEN before[id] ELSE Restrict(lines[id], Tracked.fields)]

\* _tm_get_changes
ChangesOf(values, line) == {<<f, values[f], line[f]>> : f \in {g \in DOMAIN values : values[g] # line[g]}}

\* _tm_finalize_o2m_tracking: lines that are deleted meanwhile are passed over.
Finalized ==
  LET note(all, id) ==
        IF id \notin DOMAIN lines \/ ChangesOf(before[id], lines[id]) = {} THEN all
        ELSE all \o NotesOn(id, lines[id], "update", ChangesOf(before[id], lines[id]))
  IN  FoldSet(LAMBDA id, all : note(all, id), notes, DOMAIN before)

-----------------------------------------------------------------------------
(* A transaction                                                            *)

Step ==
  /\ steps < MaxSteps /\ steps' = steps + 1
  /\ saved' = IF saved = <<>> THEN <<lines>> ELSE saved
  /\ known' = {Tracked}
  /\ told' = {}
  /\ UNCHANGED <<setting, inForce, was>>

CreateLine(id, owner, quantity) ==
  /\ Step
  /\ id \notin DOMAIN lines \cup DOMAIN died \cup DOMAIN was
  /\ lines' = [i \in DOMAIN lines \cup {id} |-> IF i = id THEN Line(owner, quantity) ELSE lines[i]]
  /\ notes' = notes \o NotesOn(id, Line(owner, quantity), "create", {})
  /\ born' = [i \in DOMAIN born \cup {id} |-> IF i = id THEN Line(owner, quantity) ELSE born[i]]
  /\ UNCHANGED <<before, died>>

\* write, of one or more lines
WriteLinesOf(ids, owner, quantity) ==
  /\ Step
  /\ before' = IF Tracked.on THEN Prepared(ids) ELSE before
  /\ lines' = [i \in DOMAIN lines |->
                 IF i \notin ids THEN lines[i]
                 ELSE Line(IF owner = {} THEN lines[i].owner ELSE CHOOSE o \in owner : TRUE,
                           IF quantity = {} THEN lines[i].quantity ELSE CHOOSE q \in quantity : TRUE)]
  /\ UNCHANGED <<notes, born, died>>

UnlinkLine(id) ==
  /\ Step
  /\ id \in DOMAIN lines
  /\ lines' = [i \in DOMAIN lines \ {id} |-> lines[i]]
  /\ notes' = notes \o NotesOn(id, lines[id], "unlink", {})
  /\ died' = [i \in DOMAIN died \cup {id} |-> IF i = id THEN lines[id] ELSE died[i]]
  /\ UNCHANGED <<before, born>>

\* The hooks run.
RunHooks ==
  /\ told' = {Finalized}
  /\ before' = <<>> /\ notes' = <<>>
  /\ was' = lines /\ born' = <<>> /\ died' = <<>>
  /\ UNCHANGED <<lines, setting, known, inForce>>

BeginSavepoint ==
  /\ Len(saved) = 1 /\ saved' = Append(saved, lines)
  /\ steps < MaxSteps /\ steps' = steps + 1
  /\ RunHooks

ReleaseSavepoint == Len(saved) = 2 /\ saved' = Front(saved) /\ RunHooks /\ UNCHANGED steps

\* What was collected since the savepoint began is forgotten.
RollbackSavepoint ==
  /\ Len(saved) = 2 /\ saved' = Front(saved)
  /\ lines' = saved[2] /\ was' = saved[2]
  /\ before' = <<>> /\ notes' = <<>> /\ born' = <<>> /\ died' = <<>>
  /\ told' = {}
  /\ UNCHANGED <<setting, known, inForce, steps>>

CommitLines == Len(saved) = 1 /\ saved' = <<>> /\ RunHooks /\ UNCHANGED steps

AbortLines ==
  /\ saved # <<>> /\ saved' = <<>>
  /\ lines' = saved[1] /\ was' = saved[1]
  /\ before' = <<>> /\ notes' = <<>> /\ born' = <<>> /\ died' = <<>>
  /\ told' = {}
  /\ UNCHANGED <<setting, known, inForce, steps>>

InitLines ==
  /\ lines = FirstLines /\ was = FirstLines
  /\ setting \in FirstSettings /\ known = Nobody /\ inForce = setting
  /\ before = <<>> /\ notes = <<>> /\ saved = <<>> /\ told = {}
  /\ born = <<>> /\ died = <<>> /\ steps = 0

Maybe(S) == {{}} \cup {{x} : x \in S}

NextLines ==
  \/ \E model \in {"owner", "lines"} : Activate(model)
  \/ \E f \in LineFieldsAll : TrackField(f)
  \/ TrackList \/ UpdateCustomTracking
  \/ \E model \in {"owner", "lines"} : ConfiguredElsewhere([setting EXCEPT ![model] = ~@])
  \/ ConfiguredElsewhere(setting)
  \/ \E id \in LineIds, o \in Owners \cup {NoOwner}, q \in Quantities : CreateLine(id, o, q)
  \/ \E ids \in SUBSET DOMAIN lines, o \in Maybe(Owners \cup {NoOwner}), q \in Maybe(Quantities) :
       ids # {} /\ WriteLinesOf(ids, o, q)
  \/ \E id \in LineIds : UnlinkLine(id)
  \/ BeginSavepoint \/ ReleaseSavepoint \/ RollbackSavepoint \/ CommitLines \/ AbortLines

SpecLines == InitLines /\ [][NextLines]_lineVars

-----------------------------------------------------------------------------

\* What owners should be told of lines now: those created for them and deleted from
\* them since the last flush, and what differs, in the fields that are configured, of
\* the lines they have.  What is configured is what was when the cache was last cleared:
\* a model that the process itself has activated is not tracked before something else
\* clears the cache again, and one it has deactivated still is.
Due ==
  LET s == TrackedByO2m(inForce)
      first(id) == IF id \in DOMAIN born THEN born[id] ELSE was[id]
      diff(id) == {<<f, first(id)[f], lines[id][f]>> :
                     f \in {g \in s.fields : first(id)[g] # lines[id][g]}}
      of(f, mode) == {[to |-> f[id].owner, line |-> id, mode |-> mode, changes |-> {}] :
                        id \in {i \in DOMAIN f : f[i].owner # NoOwner}}
      updates == {[to |-> lines[id].owner, line |-> id, mode |-> "update", changes |-> diff(id)] :
                    id \in {i \in DOMAIN lines : lines[i].owner # NoOwner /\ diff(i) # {}}}
  IN  IF s.on THEN of(born, "create") \cup of(died, "unlink") \cup updates ELSE {}

\* A flush tells each owner once of every line that was created, deleted or has changed
\* since the one before, with the values it had then and has now, however often it was
\* written in between; and of nothing that was undone or is not configured.  The setting
\* they go by is the present one, except after the process has itself switched a model.
OwnersAreTold ==
  [][\A list \in told' : ToSet(list) = Due /\ Len(list) = Cardinality(Due)]_lineVars
=============================================================================
