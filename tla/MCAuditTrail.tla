---------------------------- MODULE MCAuditTrail ----------------------------
(* Rules for the run of AuditTrail.                                        *)
EXTENDS AuditTrail, TLC

\* All changes in full, or fast; reads, exports and deletions only.
SomeRules ==
  { [logs |-> {"create", "write", "unlink"}, type |-> "full"],
    [logs |-> {"create", "write", "unlink"}, type |-> "fast"],
    [logs |-> {"read", "export_data", "unlink"}, type |-> "full"] }

\* Records, and processes, do not differ (only safety is checked).
Interchangeable == Permutations(Recs) \cup Permutations(Procs)
=============================================================================
