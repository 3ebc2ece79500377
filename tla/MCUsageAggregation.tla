------------------------- MODULE MCUsageAggregation -------------------------
(* UsageAggregation on two rows and up to three events. *)
EXTENDS UsageAggregation
CONSTANTS e1, e2, e3, b1, b2

\* e2 corrects e1, and e3 corrects nothing or e2.
Once == [e \in {e1, e2, e3} |-> IF e = e2 THEN e1 ELSE None]
Twice == [e \in {e1, e2, e3} |-> CASE e = e1 -> None [] e = e2 -> e1 [] e = e3 -> e2]

\* All in one row, e2 in another, or e2 excluded by the meter's filters.
OneRow == [e \in {e1, e2, e3} |-> b1]
Moved == [e \in {e1, e2, e3} |-> IF e = e2 THEN b2 ELSE b1]
Excluded == [e \in {e1, e2, e3} |-> IF e = e2 THEN None ELSE b1]

\* In turn: a replacement in another row beside a repair; a replacement that is itself
\* reversed; a reversal beside another event, and retention; a meter that needs the
\* properties retention removes; a run, claimed again, on events that lose them.
MCSettings ==
  { [sent |-> {e1, e2}, of |-> Once, reversals |-> {}, bucket |-> Moved,
     erased |-> "counted", occurs |-> {"repair"}],
    [sent |-> {e1, e2, e3}, of |-> Twice, reversals |-> {e3}, bucket |-> OneRow,
     erased |-> "counted", occurs |-> {"loss"}],
    [sent |-> {e1, e2, e3}, of |-> Once, reversals |-> {e2}, bucket |-> OneRow,
     erased |-> "counted", occurs |-> {"retain", "loss"}],
    [sent |-> {e1, e3}, of |-> Once, reversals |-> {e2}, bucket |-> OneRow,
     erased |-> "rejected", occurs |-> {"rebuild", "retain"}],
    [sent |-> {e1, e2}, of |-> Once, reversals |-> {}, bucket |-> Excluded,
     erased |-> "counted", occurs |-> {"reconcile", "retain", "loss"}] }

\* A reversal, with nothing else going on.
ReversalSettings ==
  { [sent |-> {e1, e2}, of |-> Once, reversals |-> {e2}, bucket |-> OneRow,
     erased |-> "counted", occurs |-> {}] }

\* Two events, and a repair.
RepairSettings ==
  { [sent |-> {e1, e3}, of |-> Once, reversals |-> {e2}, bucket |-> OneRow,
     erased |-> "counted", occurs |-> {"repair"}] }
=============================================================================
