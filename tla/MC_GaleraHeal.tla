---------------------------- MODULE MC_GaleraHeal ----------------------------
(* Model-checking instance of GaleraHeal; the bounds are in the cfg files. *)
EXTENDS GaleraHeal, TLC
=============================================================================
