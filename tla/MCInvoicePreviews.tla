------------------------- MODULE MCInvoicePreviews --------------------------
(* InvoicePreviews on one series with up to three late events and one export. *)
EXTENDS InvoicePreviews
CONSTANTS e1, e2, e3

\* e3 corrects e1.
Once == [e \in {e1, e2, e3} |-> IF e = e3 THEN e1 ELSE None]

\* In turn: a late event, a repair and an export; a repair under retention; a reversal;
\* late events under retention; an export under lost handlers; one that cannot be built.
MCSettings ==
  { [sent |-> {e1}, of |-> Once, reversals |-> {}, occurs |-> {"repair", "export"}],
    [sent |-> {e1}, of |-> Once, reversals |-> {}, occurs |-> {"repair", "retain"}],
    [sent |-> {e1, e3}, of |-> Once, reversals |-> {e3}, occurs |-> {}],
    [sent |-> {e1, e2}, of |-> Once, reversals |-> {}, occurs |-> {"retain"}],
    [sent |-> {e1}, of |-> Once, reversals |-> {}, occurs |-> {"export", "loss"}],
    [sent |-> {}, of |-> Once, reversals |-> {},
     occurs |-> {"export", "unexportable", "loss"}] }

\* Two events, and nothing else going on.
LateSettings ==
  { [sent |-> {e1, e2}, of |-> Once, reversals |-> {}, occurs |-> {}] }
=============================================================================
