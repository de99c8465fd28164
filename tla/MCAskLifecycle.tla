-------------------------- MODULE MCAskLifecycle --------------------------
(***************************************************************************)
(* AskLifecycle for TLC.  The model values of each set are interchangeable *)
(* in every safety property; the liveness run does without the symmetry.   *)
(***************************************************************************)
EXTENDS AskLifecycle, TLC

Symmetry == Permutations(Waits) \cup Permutations(Handlers)
              \cup Permutations(Answers) \cup Permutations(Grants)
=============================================================================
