----------------------------- MODULE ImportMatch -----------------------------
(***************************************************************************)
(* Imports that update the records which match their rows                   *)
(* (base_import_match).  A row without an id is given that of the record    *)
(* it matches, by the rules configured for the model or by the fields that  *)
(* users choose for the import; the import of Odoo then updates the records *)
(* of rows with an id and creates records for the others.                   *)
(*                                                                          *)
(* A record is its place in the table, which stands for its database id and *)
(* its external id; 0 is no id.  The empty value is False in the table.     *)
(***************************************************************************)
EXTENDS Integers, SequencesExt

CONSTANTS
  Columns,     \* the fields of the model
  Tables,      \* the records there are before
  Files,       \* files: [columns |-> those of the file, rows |-> a sequence]
  RuleSets,    \* sequences of rules: [fields |-> a set, only_if |-> conditions on some]
  MaxImports   \* bound: imports after one another

ASSUME ImportAssumption ==
  /\ Tables \subseteq Seq([Columns -> STRING])
  /\ \A seq \in RuleSets \cup {file.rows : file \in Files} :
       Len(seq) \in Nat /\ DOMAIN seq = 1..Len(seq)
  /\ \A file \in Files :
       /\ file.columns \subseteq Columns
       /\ \A n \in DOMAIN file.rows :
            file.rows[n].id \in Nat /\ \A f \in file.columns : file.rows[n][f] \in STRING

VARIABLES
  records,  \* the table
  rules,    \* the matching rules, in their order
  imports

NoChoice == {"by rules"}

\* _usable_rules: those whose fields are all in the file, by their places
Usable(file) == {n \in DOMAIN rules : rules[n].fields \subseteq file.columns}

Agreeing(t, row, fields) == {i \in DOMAIN t : \A f \in fields : t[i][f] = row[f]}

\* Conditional fields of the rule have the value it asks for.
Applicable(rule, row) == \A f \in DOMAIN rule.only_if : row[f] = rule.only_if[f]

\* _match_find: the first rule that finds a single record
MatchFind(t, file, row) ==
  LET finding == {n \in Usable(file) :
                    /\ Applicable(rules[n], row)
                    /\ Cardinality(Agreeing(t, row, rules[n].fields)) = 1}
  IN  IF finding = {} THEN {} ELSE Agreeing(t, row, rules[Min(finding)].fields)

\* MUTANT: only rows that come with an id are identified.
TargetsOfIds(t, file, chosen) ==
  [n \in DOMAIN file.rows |-> IF file.rows[n].id = 0 THEN {} ELSE {file.rows[n].id}]

\* The records found for each row: one if it is identified
Targets(t, file, chosen) ==
  [n \in DOMAIN file.rows |->
     LET row == file.rows[n] IN
     IF row.id # 0 THEN {row.id}
     ELSE IF chosen # NoChoice
     THEN IF chosen \cap file.columns = {} THEN {}
          ELSE Agreeing(t, row, chosen \cap file.columns)
     ELSE MatchFind(t, file, row)]

\* With fields chosen by users, a row that does not match exactly one record is an
\* error of the whole import.  (If none of them is in the file the rules are not used
\* either.)
Refused(t, file, chosen) ==
  /\ chosen # NoChoice /\ chosen \cap file.columns # {}
  /\ \E n \in DOMAIN file.rows : Cardinality(Targets(t, file, chosen)[n]) # 1

\* Columns that are written: those chosen for the match only identify.
Written(file, chosen) == IF chosen = NoChoice THEN file.columns ELSE file.columns \ chosen

\* load of Odoo, for one row: the records after it
LoadRow(done, row, target, written) ==
  LET value(old) == [f \in Columns |-> IF f \in written THEN row[f] ELSE old[f]] IN
  IF Cardinality(target) = 1
  THEN [i \in DOMAIN done |-> IF i \in target THEN value(done[i]) ELSE done[i]]
  ELSE Append(done, value([f \in Columns |-> ""]))

\* For all of them, in their order; what they match is looked for before.
Load(t, file, chosen) ==
  LET targets == Targets(t, file, chosen)
      loaded[n \in 0..Len(file.rows)] ==
        IF n = 0 THEN t
        ELSE LoadRow(loaded[n - 1], file.rows[n], targets[n], Written(file, chosen))
  IN  IF Refused(t, file, chosen) THEN t ELSE loaded[Len(file.rows)]

Selections == {NoChoice} \cup (SUBSET Columns \ {{}})

InitImport ==
  /\ records \in Tables
  /\ rules \in RuleSets
  /\ imports = 0

ImportFile ==
  /\ imports < MaxImports /\ imports' = imports + 1
  /\ \E file \in Files, chosen \in Selections :
       /\ \A n \in DOMAIN file.rows : file.rows[n].id \in 0..Len(records)
       /\ records' = Load(records, file, chosen)
  /\ UNCHANGED rules

SpecImport == InitImport /\ [][ImportFile]_<<records, rules, imports>>

-----------------------------------------------------------------------------

\* No two of a sequence agree on the fields.
KeyedBy(seq, fields) ==
  \A m, n \in DOMAIN seq : (\A f \in fields : seq[m][f] = seq[n][f]) => m = n

\* "Prevent duplicates": a file that is imported again changes nothing.  By rules this
\* needs one rule that applies to all rows, whose fields tell the records apart and the
\* rows of the file too, and then they still do; by fields that users choose it needs
\* nothing, and nothing is created.
ImportsAreIdempotent ==
  /\ \A file \in Files :
       LET key == rules[1].fields IN
       /\ Len(rules) = 1 /\ rules[1].only_if = <<>> /\ key \subseteq file.columns
       /\ \A n \in DOMAIN file.rows : file.rows[n].id = 0
       /\ KeyedBy(records, key) /\ KeyedBy(file.rows, key)
       => LET once == Load(records, file, NoChoice) IN
          Load(once, file, NoChoice) = once /\ KeyedBy(once, key)
  /\ \A file \in Files, chosen \in Selections \ {NoChoice} :
       /\ chosen \cap file.columns # {}
       /\ \A n \in DOMAIN file.rows : file.rows[n].id \in 0..Len(records)
       => LET once == Load(records, file, chosen) IN
          Load(once, file, chosen) = once /\ Len(once) = Len(records)
=============================================================================
