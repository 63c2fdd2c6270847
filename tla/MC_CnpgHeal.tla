----------------------------- MODULE MC_CnpgHeal -----------------------------
(* Model-checking instance of CnpgHeal: instances and workers are model    *)
(* values and interchangeable, so both sets are symmetry sets.             *)
EXTENDS CnpgHeal, TLC

MCSymmetry == Permutations(Instances) \cup Permutations(Workers)
=============================================================================
