---------------------------- MODULE JobLifecycle ----------------------------
(***************************************************************************)
(* What a producer and an operator see of a durable job: it is open until  *)
(* it settles, it settles once per generation, and an operator may reopen  *)
(* a retryable failure a bounded number of times.  Leases, attempts,       *)
(* workers and the clock do not appear.                                    *)
(***************************************************************************)
EXTENDS Naturals

CONSTANTS Jobs, MaxGenerations

VARIABLES outcome, generation

vars == <<outcome, generation>>

Settled == {"completed", "retryable", "permanent"}

Init ==
  /\ outcome = [j \in Jobs |-> "absent"]
  /\ generation = [j \in Jobs |-> 0]

Accept(j) ==
  /\ outcome[j] = "absent"
  /\ outcome' = [outcome EXCEPT ![j] = "open"]
  /\ UNCHANGED generation

Settle(j) ==
  /\ outcome[j] = "open"
  /\ \E result \in Settled : outcome' = [outcome EXCEPT ![j] = result]
  /\ UNCHANGED generation

Reopen(j) ==
  /\ outcome[j] = "retryable" /\ generation[j] < MaxGenerations
  /\ outcome' = [outcome EXCEPT ![j] = "open"]
  /\ generation' = [generation EXCEPT ![j] = @ + 1]

Next == \E j \in Jobs : Accept(j) \/ Settle(j) \/ Reopen(j)

Spec == Init /\ [][Next]_vars

\* Every open job settles: no crash, overrun or lost answer strands it.
FairSpec == Spec /\ \A j \in Jobs : WF_vars(Settle(j))
=============================================================================
