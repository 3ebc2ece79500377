---------------------------- MODULE MCRetention ----------------------------
(* Retention with a server, two workers, two requests and two events. *)
EXTENDS Retention, TLC
CONSTANTS s, w1, w2, r1, r2, e1, e2

Received(first, second) == [e \in Events |-> IF e = e1 THEN first ELSE second]

\* An event that does not arrive.
Never == 9

Serving ==
  [days |-> r1 :> 1, received |-> Received(0, Never), corrected |-> {}, open |-> {s, w1, w2},
   starts |-> {}, signals |-> 0, faults |-> 0, until |-> 2]

MCSettings ==
  { \* The policy is made and changed by two requests at once while two workers scan.
    [Serving EXCEPT !.days = r1 :> 1 @@ r2 :> 2, !.until = 1],
    [Serving EXCEPT !.days = r1 :> 1 @@ r2 :> None],
    \* Two events expire at once, and one of them is being corrected.
    [Serving EXCEPT !.received = Received(0, 0), !.corrected = {e2}],
    \* Scans are repeated, and lose their answers and their leases.
    [Serving EXCEPT !.faults = 2, !.until = 1],
    \* The server starts, and is told to stop, more than once, while it has requests.
    [Serving EXCEPT !.days = r1 :> None @@ r2 :> 1, !.received = Received(Never, Never),
                    !.open = {}, !.starts = {s}, !.signals = 2, !.faults = 2, !.until = 0],
    \* Workers start, are told to stop and are killed while they scan.
    [Serving EXCEPT !.open = {s, w2}, !.starts = {w1}, !.signals = 2, !.until = 1] }
=============================================================================
