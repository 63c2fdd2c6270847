---------------------------- MODULE MC_CnpgRepair ----------------------------
(* Model-checking instance of CnpgRepair: the triage bounds of             *)
(* MC_CnpgTriage, every combination of --instance, --force and             *)
(* --no-escrow, and every success or failure of the calls Repair makes.    *)
EXTENDS CnpgRepair, TLC

MCTLDigits == "1" :> 1 @@ "2" :> 2

(* "0/1" < "1/0" only through the high word.                                *)
MCLSNWords == "0/1" :> <<0, 1>> @@ "1/0" :> <<1, 0>>

MCSymmetry == Permutations(Instances \ {Primary})
=============================================================================
