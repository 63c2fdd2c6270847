------------------------------ MODULE GaleraHeal ------------------------------
(***************************************************************************)
(* healNode of the Galera engine (src/unnamed/part_016): suspend the       *)
(* MariaDB CR, scale the StatefulSet down, wait for the target pod to go,  *)
(* wipe grastate.dat with a helper pod on the storage volume, remove the   *)
(* bootstrap config with a second helper on the galera volume, scale back  *)
(* up, resume the CR and wait for the pod.  Every failure after the        *)
(* suspend runs the rescue closure.                                        *)
(*                                                                         *)
(* The environment: the StatefulSet controller stops pods at or above the  *)
(* replica count and starts the ones below it; the mariadb-operator, while *)
(* the CR is not suspended, resets the replica count to spec.replicas; the *)
(* kubelet runs a helper pod, which may fail.  A helper is not kept off a  *)
(* volume a running pod still holds: ReadWriteOnce only binds a volume to  *)
(* a node, and the helper has no node constraint.  Every API call may      *)
(* fail, as it does on a transient error or once ctx is cancelled.         *)
(***************************************************************************)
EXTENDS Naturals, FiniteSets

CONSTANTS
    Replicas,     \* spec.replicas of the MariaDB CR (e.replicas)
    DeletePolls,  \* deleteTimeout/5: polls of the wait for the pod to go
    HelperPolls,  \* the 30 polls of runHelperPod
    HealPolls     \* healTimeout/10: polls of the final readiness wait

ASSUME Replicas \in Nat \ {0} /\ \A b \in {DeletePolls, HelperPolls, HealPolls} : b \in Nat \ {0}

Ordinals == 0 .. Replicas - 1
Kinds == {"storage", "galera"}         \* storage-<pod> and galera-<pod> helpers
HelperPhases == {"None", "Pending", "Running", "Succeeded", "Failed"}

VARIABLES
    crSuspend,     \* spec.suspend of the MariaDB CR
    stsReplicas,   \* spec.replicas of the StatefulSet
    podUp,         \* podUp[n]: pod <cluster>-n exists and holds its volumes
    helper,        \* phase of the storage and galera helper pods
    target,        \* instanceNum
    hasGaleraPVC,  \* the galera-<pod> PVC exists
    pc,            \* the step healNode is at
    kind,          \* the helper runHelperPod is running
    iter,          \* iterations of the current wait loop
    suspended,     \* healNode's local flags read by rescue
    scaledDown,
    result,        \* "none", "ok" or "err"
    droppedErr     \* a call whose error the code drops has failed

vars == <<crSuspend, stsReplicas, podUp, helper, target, hasGaleraPVC, pc, kind,
          iter, suspended, scaledDown, result, droppedErr>>

(* Mutation: the partial strategy scales to one past the target.          *)
scaleTargetPastTarget == IF target = Replicas - 1 THEN target + 1 ELSE 0

(* Partial strategy for the last ordinal, otherwise scale to 0.            *)
scaleTarget == IF target = Replicas - 1 THEN target ELSE 0

Goto(l) == pc' = l /\ iter' = 0

(* rescue(): delete both helpers (grace 0), restore the scale if           *)
(* scaledDown, resume the CR if suspended; each call may fail, and its     *)
(* error is dropped.  healNode then returns the original error.            *)
(* Every failing step after the suspend goes to "rescue".                  *)
Rescue ==
    /\ pc = "rescue"
    /\ \E delOk, scaleOk, resumeOk \in BOOLEAN :
         /\ helper' = [k \in Kinds |->
                         IF delOk /\ (k = "storage" \/ hasGaleraPVC) THEN "None" ELSE helper[k]]
         /\ stsReplicas' = IF scaledDown /\ scaleOk THEN Replicas ELSE stsReplicas
         /\ crSuspend' = IF suspended /\ resumeOk THEN FALSE ELSE crSuspend
         /\ droppedErr' = (droppedErr \/ ~(delOk /\ (scaleOk \/ ~scaledDown) /\ (resumeOk \/ ~suspended)))
    /\ result' = "err" /\ Goto("done")
    /\ UNCHANGED <<podUp, target, hasGaleraPVC, kind, suspended, scaledDown>>

-----------------------------------------------------------------------------
(* STEP 1: suspendCR; its failure returns at once, nothing to undo.        *)
SuspendCR ==
    /\ pc = "suspend"
    /\ \/ /\ crSuspend' = TRUE /\ suspended' = TRUE /\ Goto("scaleDown")
          /\ UNCHANGED result
       \/ /\ result' = "err" /\ Goto("done")
          /\ UNCHANGED <<crSuspend, suspended>>
    /\ UNCHANGED <<stsReplicas, podUp, helper, target, hasGaleraPVC, kind, scaledDown, droppedErr>>

(* Mutation: scaledDown not recorded, so rescue does not restore scale.    *)
ScaleDownNoFlag ==
    /\ pc = "scaleDown"
    /\ stsReplicas' = scaleTarget /\ Goto("waitGone")
    /\ UNCHANGED <<crSuspend, podUp, helper, target, hasGaleraPVC, kind, suspended,
                   scaledDown, result, droppedErr>>

(* STEP 2: scaleStatefulSet(scaleTarget) (GetScale and UpdateScale).       *)
ScaleDown ==
    /\ pc = "scaleDown"
    /\ stsReplicas' = scaleTarget /\ scaledDown' = TRUE /\ Goto("waitGone")
    /\ UNCHANGED <<crSuspend, podUp, helper, target, hasGaleraPVC, kind, suspended,
                   result, droppedErr>>

(* An error of the step at l: healNode calls rescue() and returns it.      *)
ToRescue(l) ==
    /\ pc = l /\ Goto("rescue")
    /\ UNCHANGED <<crSuspend, stsReplicas, podUp, helper, target, hasGaleraPVC, kind,
                   suspended, scaledDown, result, droppedErr>>

ScaleDownErr == ToRescue("scaleDown")

(* Mutation: the wait has no poll bound.                                   *)
WaitGoneUnbounded ==
    /\ pc = "waitGone"
    /\ \E getErr \in BOOLEAN :
         IF getErr \/ ~podUp[target]
         THEN kind' = "storage" /\ Goto("create")
         ELSE iter' = iter + 1 /\ UNCHANGED <<pc, kind>>
    /\ UNCHANGED <<crSuspend, stsReplicas, podUp, helper, target, hasGaleraPVC,
                   suspended, scaledDown, result, droppedErr>>

(* One poll of the wait for the target pod: any GET error, not only        *)
(* NotFound, ends the wait; so does the last poll, without an error.       *)
WaitGone ==
    /\ pc = "waitGone"
    /\ \E getErr \in BOOLEAN :
         IF getErr \/ ~podUp[target] \/ iter + 1 = DeletePolls
         THEN kind' = "storage" /\ Goto("create")
         ELSE iter' = iter + 1 /\ UNCHANGED <<pc, kind>>
    /\ UNCHANGED <<crSuspend, stsReplicas, podUp, helper, target, hasGaleraPVC,
                   suspended, scaledDown, result, droppedErr>>

(* runHelperPod: Create.  A create error is returned, and healNode rescues. *)
CreateHelper ==
    /\ pc = "create"
    /\ helper' = [helper EXCEPT ![kind] = "Pending"] /\ Goto("poll")
    /\ UNCHANGED <<crSuspend, stsReplicas, podUp, target, hasGaleraPVC, kind,
                   suspended, scaledDown, result, droppedErr>>

CreateHelperErr == ToRescue("create")

(* The step after a helper succeeded: the galera helper if its PVC exists, *)
(* then STEP 5.                                                            *)
AfterHelper ==
    IF kind = "storage" /\ hasGaleraPVC THEN kind' = "galera" /\ Goto("create")
    ELSE Goto("scaleUp") /\ UNCHANGED kind

(* One poll of runHelperPod.  A GET error only uses up the iteration;      *)
(* Succeeded deletes the helper and goes on; Failed, or the last poll,     *)
(* deletes it (the delete may fail, unseen) and healNode rescues.          *)
PollHelper ==
    /\ pc = "poll"
    /\ \E getErr, delOk \in BOOLEAN :
         LET phase == helper[kind]
             gone  == [helper EXCEPT ![kind] = IF delOk THEN "None" ELSE @]
             drop  == droppedErr' = (droppedErr \/ ~delOk)
         IN
         \/ /\ ~getErr /\ phase = "Succeeded"
            /\ helper' = gone /\ drop /\ AfterHelper
         \/ /\ ~getErr /\ phase = "Failed"
            /\ helper' = gone /\ drop /\ Goto("rescue") /\ UNCHANGED kind
         \/ /\ getErr \/ phase \notin {"Succeeded", "Failed"}
            /\ IF iter + 1 < HelperPolls
               THEN iter' = iter + 1 /\ UNCHANGED <<helper, pc, kind, droppedErr>>
               ELSE helper' = gone /\ drop /\ Goto("rescue") /\ UNCHANGED kind
    /\ UNCHANGED <<crSuspend, stsReplicas, podUp, target, hasGaleraPVC, suspended,
                   scaledDown, result>>
(* STEP 5: deleteRecoveryPods (best effort, no state modelled), then      *)
(* scaleStatefulSet(originalReplicas); scaledDown is cleared on success.   *)
ScaleUp ==
    /\ pc = "scaleUp"
    /\ stsReplicas' = Replicas /\ scaledDown' = FALSE /\ Goto("resume")
    /\ UNCHANGED <<crSuspend, podUp, helper, target, hasGaleraPVC, kind, suspended,
                   result, droppedErr>>

ScaleUpErr == ToRescue("scaleUp")

ResumeCR ==
    /\ pc = "resume"
    /\ crSuspend' = FALSE /\ suspended' = FALSE /\ Goto("waitReady")
    /\ UNCHANGED <<stsReplicas, podUp, helper, target, hasGaleraPVC, kind, scaledDown,
                   result, droppedErr>>

ResumeCRErr == ToRescue("resume")

(* Mutation: the loop counter is never advanced.                           *)
WaitReadyNoIncrement ==
    /\ pc = "waitReady"
    /\ \E getErr \in BOOLEAN :
         IF (~getErr /\ podUp[target]) \/ iter + 1 = HealPolls
         THEN result' = "ok" /\ Goto("done")
         ELSE UNCHANGED <<iter, pc, result>>
    /\ UNCHANGED <<crSuspend, stsReplicas, podUp, helper, target, hasGaleraPVC, kind,
                   suspended, scaledDown, droppedErr>>

(* One poll of the readiness wait.  healNode returns nil whether the pod   *)
(* became ready or the polls ran out (it only warns).                      *)
WaitReady ==
    /\ pc = "waitReady"
    /\ \E getErr \in BOOLEAN :
         IF (~getErr /\ podUp[target]) \/ iter + 1 = HealPolls
         THEN result' = "ok" /\ Goto("done")
         ELSE iter' = iter + 1 /\ UNCHANGED <<pc, result>>
    /\ UNCHANGED <<crSuspend, stsReplicas, podUp, helper, target, hasGaleraPVC, kind,
                   suspended, scaledDown, droppedErr>>

Worker ==
    \/ SuspendCR \/ ScaleDown \/ ScaleDownErr \/ WaitGone \/ CreateHelper
    \/ CreateHelperErr \/ PollHelper \/ ScaleUp \/ ScaleUpErr \/ ResumeCR
    \/ ResumeCRErr \/ WaitReady \/ Rescue

-----------------------------------------------------------------------------
(* Environment.  The StatefulSet controller stops a pod whose ordinal is   *)
(* not below the replica count and starts one that is.                     *)
StsStopPod(n) ==
    /\ podUp[n] /\ n >= stsReplicas
    /\ podUp' = [podUp EXCEPT ![n] = FALSE]
    /\ UNCHANGED <<crSuspend, stsReplicas, helper, target, hasGaleraPVC, kind, iter,
                   pc, suspended, scaledDown, result, droppedErr>>

StsStartPod(n) ==
    /\ ~podUp[n] /\ n < stsReplicas
    /\ podUp' = [podUp EXCEPT ![n] = TRUE]
    /\ UNCHANGED <<crSuspend, stsReplicas, helper, target, hasGaleraPVC, kind, iter,
                   pc, suspended, scaledDown, result, droppedErr>>

(* The mariadb-operator reconciles the StatefulSet unless spec.suspend.    *)
OperatorReconcile ==
    /\ ~crSuspend /\ stsReplicas # Replicas
    /\ stsReplicas' = Replicas
    /\ UNCHANGED <<crSuspend, podUp, helper, target, hasGaleraPVC, kind, iter, pc,
                   suspended, scaledDown, result, droppedErr>>

(* The kubelet starts a helper, and the helper's script ends.             *)
HelperStarts(k) ==
    /\ helper[k] = "Pending"
    /\ helper' = [helper EXCEPT ![k] = "Running"]
    /\ UNCHANGED <<crSuspend, stsReplicas, podUp, target, hasGaleraPVC, kind, iter, pc,
                   suspended, scaledDown, result, droppedErr>>

HelperEnds(k) ==
    /\ helper[k] = "Running"
    /\ \E ph \in {"Succeeded", "Failed"} : helper' = [helper EXCEPT ![k] = ph]
    /\ UNCHANGED <<crSuspend, stsReplicas, podUp, target, hasGaleraPVC, kind, iter, pc,
                   suspended, scaledDown, result, droppedErr>>

Environment ==
    \/ \E n \in Ordinals : StsStopPod(n) \/ StsStartPod(n)
    \/ OperatorReconcile
    \/ \E k \in Kinds : HelperStarts(k) \/ HelperEnds(k)

Init ==
    /\ crSuspend = FALSE
    /\ stsReplicas = Replicas
    /\ podUp = [n \in Ordinals |-> TRUE]
    /\ helper = [k \in Kinds |-> "None"]
    /\ target \in Ordinals
    /\ hasGaleraPVC \in BOOLEAN
    /\ pc = "suspend" /\ kind = "storage" /\ iter = 0
    /\ suspended = FALSE /\ scaledDown = FALSE
    /\ result = "none" /\ droppedErr = FALSE

(* healNode has returned; the cluster may still move.                      *)
Terminated == pc = "done" /\ UNCHANGED vars

Next == Worker \/ Environment \/ Terminated

(* The worker's sleeps end; nothing is assumed of the cluster.             *)
Spec == Init /\ [][Next]_vars /\ WF_vars(Worker)
-----------------------------------------------------------------------------
Steps == {"suspend", "scaleDown", "waitGone", "create", "poll", "scaleUp", "resume",
          "waitReady", "rescue", "done"}

TypeOK ==
    /\ crSuspend \in BOOLEAN /\ stsReplicas \in 0 .. Replicas
    /\ podUp \in [Ordinals -> BOOLEAN] /\ helper \in [Kinds -> HelperPhases]
    /\ target \in Ordinals /\ hasGaleraPVC \in BOOLEAN
    /\ pc \in Steps /\ kind \in Kinds
    /\ iter \in 0 .. (DeletePolls + HelperPolls + HealPolls)
    /\ suspended \in BOOLEAN /\ scaledDown \in BOOLEAN
    /\ result \in {"none", "ok", "err"} /\ droppedErr \in BOOLEAN

(* While a helper pod runs on the target's volumes, the CR is suspended    *)
(* and the StatefulSet is scaled below the target's ordinal, so neither    *)
(* the operator nor the StatefulSet controller can start the target on     *)
(* them: the scale strategy, the helper waits and the rescue keep this,    *)
(* unless a helper delete whose error the code drops has failed.           *)
HelperIsolated ==
    \A k \in Kinds :
        helper[k] = "Running" /\ ~droppedErr => crSuspend /\ stsReplicas <= target

(* P-NO-LEAK: when healNode has returned, on success or on any handled     *)
(* error, the CR is resumed, the StatefulSet has its original replicas and *)
(* no helper pod is left, as long as no call whose error is dropped (the   *)
(* helper deletes, the rescue's own calls) failed.                         *)
NoLeakAfterReturn ==
    pc = "done" /\ ~droppedErr =>
        /\ ~crSuspend /\ stsReplicas = Replicas
        /\ \A k \in Kinds : helper[k] = "None"

(* Every healNode call returns: all its waits are bounded.                 *)
AllReturn == <>(pc = "done")

(* Spec 4.6: the storage helper rewrites grastate.dat only after the       *)
(* target pod is gone ("wait <= deleteTimeout for target pod gone"; on     *)
(* expiry the operation fails).                                            *)
WipeOnlyWhileDown == helper["storage"] = "Running" => ~podUp[target]
====
