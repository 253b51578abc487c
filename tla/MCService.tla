----------------------------- MODULE MCService -----------------------------
(* Service on small instances: symmetry of the interchangeable sets.       *)
EXTENDS ServiceInv

Symmetry ==
  Permutations(Jobs) \cup Permutations(Keys)
    \cup Permutations(Workers) \cup Permutations(Cancellers)
=============================================================================
