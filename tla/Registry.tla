------------------------------- MODULE Registry -------------------------------
(***************************************************************************)
(* What the operator promises about registration (src/controller): each   *)
(* database CR is registered with exactly the effective config it         *)
(* resolves to, or not at all when it is deleted, unannotated or          *)
(* excluded.  A CR naming a BackupPolicy that cannot be read keeps        *)
(* whatever registration it had.  An operator restart forgets everything, *)
(* and the registration then catches up again.                            *)
(*                                                                         *)
(* Scheduler implements this module under the mapping                      *)
(*   reg[k] = managed[k].db, or NotManaged when s.managed has no entry.    *)
(***************************************************************************)
CONSTANTS
    Keys, Configs, NotManaged,
    Absent, NoPolicy, Excluded, PolicyMissing

CRStates == {Absent, NoPolicy, Excluded, PolicyMissing} \cup Configs

VARIABLES
    cr,    \* the CR of each key
    reg    \* the config each key is registered with, or NotManaged

absVars == <<cr, reg>>

(* The registration a CR calls for.                                       *)
Desired(k) ==
    IF cr[k] \in Configs THEN cr[k]
    ELSE IF cr[k] = PolicyMissing THEN reg[k]
    ELSE NotManaged

(* The CR is created, edited, deleted or re-created.                      *)
Edit(k) ==
    /\ \E v \in CRStates \ {cr[k]} : cr' = [cr EXCEPT ![k] = v]
    /\ UNCHANGED reg

(* The registration of a key catches up with its CR.                      *)
Apply(k) ==
    /\ reg' = [reg EXCEPT ![k] = Desired(k)]
    /\ UNCHANGED cr

(* A restart drops every registration.                                    *)
Forget ==
    /\ reg' = [k \in Keys |-> NotManaged]
    /\ UNCHANGED cr

AbsInit ==
    /\ cr \in [Keys -> CRStates]
    /\ reg = [k \in Keys |-> NotManaged]

AbsNext == \/ \E k \in Keys : Edit(k) \/ Apply(k)
           \/ Forget

(* A registration that differs from its CR is eventually brought in line. *)
AbsSpec == AbsInit /\ [][AbsNext]_absVars /\ \A k \in Keys : WF_absVars(Apply(k))
====
