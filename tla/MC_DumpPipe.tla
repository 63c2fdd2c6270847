----------------------------- MODULE MC_DumpPipe -----------------------------
(* Model-checking instance of DumpPipe; the bound is in the cfg files.     *)
EXTENDS DumpPipe, TLC
=============================================================================
