----------------------------- MODULE MCJobQueue -----------------------------
(* Instances of JobQueue for TLC. *)
EXTENDS JobQueue, TLC

\* Jobs and workers are interchangeable in every safety property.
Symmetry == Permutations(Jobs) \union Permutations(Workers)
=============================================================================
