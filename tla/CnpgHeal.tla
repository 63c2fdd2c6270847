------------------------------- MODULE CnpgHeal -------------------------------
(***************************************************************************)
(* The Postgres (CNPG) replica heal of src/engine/cnpg/heal.go:            *)
(* healInstance with fenceInstance / unfenceInstance, run by one or more   *)
(* operator workers, against the two actors it races with: the kubelet     *)
(* (heal-pod phases, the single-attach data volume) and the CNPG operator  *)
(* (which recreates a deleted instance pod).                               *)
(*                                                                         *)
(* The fence annotation cnpg.io/fencedInstances is a set of instance names *)
(* (parseFencedInstances turns the JSON array into a list, fenceInstance   *)
(* never appends a duplicate).  fenceInstance and unfenceInstance are a    *)
(* GET followed by a merge PATCH that writes the whole list computed from  *)
(* what the GET returned, so they are two steps each.                      *)
(***************************************************************************)
EXTENDS Naturals, FiniteSets

CONSTANTS
    Workers,        \* concurrent healInstance calls (operator goroutines / CLI runs)
    Instances,      \* CNPG instance pods of one cluster
    DeleteTimeout,  \* iterations of the STEP 3 delete loop (e.cfg.DeleteTimeout)
    HealPolls,      \* iterations of the STEP 4 wait (healTimeout/10)
    ReadyPolls,     \* iterations of the final readiness wait (30 in the code)
    MaxCrashes      \* operator process crashes (eviction, OOM) in one behaviour

ASSUME DeleteTimeout \in Nat \ {0} /\ HealPolls \in Nat \ {0} /\ ReadyPolls \in Nat
ASSUME MaxCrashes \in Nat

VARIABLES
    fence,          \* instances listed in the cnpg.io/fencedInstances annotation
    instPod,        \* instance pod: "Up" (holds its data volume) or "Gone"
    healPod,        \* phase of each worker's heal pod, "None" when it does not exist
    target,         \* the instance each worker heals (targetPod)
    pc,             \* where each worker is in healInstance
    read,           \* fence list returned by the worker's last GET of the cluster
    fenceApplied,   \* healInstance's local flag
    healPodCreated, \* healInstance's local flag
    iter,           \* loop counter of the current wait loop
    result,         \* "none" while running, then "ok" or "err"
    warned,         \* unfenceInstance failed and was only logged
    dropped,        \* a Delete of this call's heal pod failed and its error was dropped
    orphan,         \* phase of the heal pod a crashed run of the worker left behind
    orphanTarget,   \* the instance whose data volume that orphan mounts
    crashes         \* crashes so far

vars == <<fence, instPod, healPod, target, pc, read, fenceApplied,
          healPodCreated, iter, result, warned, dropped, orphan, orphanTarget, crashes>>
crashVars == <<orphan, orphanTarget, crashes>>

Phases == {"None", "Pending", "Running", "Succeeded", "Failed"}
Labels == {"fenceGet", "fencePatch", "create", "deleteLoop", "healWait",
           "unfenceGet", "unfencePatch", "waitReady", "done"}

TypeOK ==
    /\ fence \subseteq Instances
    /\ instPod \in [Instances -> {"Up", "Gone"}]
    /\ healPod \in [Workers -> Phases]
    /\ target \in [Workers -> Instances]
    /\ pc \in [Workers -> Labels]
    /\ read \in [Workers -> SUBSET Instances]
    /\ fenceApplied \in [Workers -> BOOLEAN]
    /\ healPodCreated \in [Workers -> BOOLEAN]
    /\ iter \in [Workers -> 0..(DeleteTimeout + HealPolls + ReadyPolls)]
    /\ result \in [Workers -> {"none", "ok", "err"}]
    /\ warned \in [Workers -> BOOLEAN] /\ dropped \in [Workers -> BOOLEAN]
    /\ orphan \in [Workers -> Phases] /\ orphanTarget \in [Workers -> Instances]
    /\ crashes \in 0 .. MaxCrashes

Init ==
    /\ fence \in SUBSET Instances    \* other instances may be fenced by hand
    /\ instPod = [i \in Instances |-> "Up"]
    /\ healPod = [w \in Workers |-> "None"]
    /\ target \in [Workers -> Instances]
    /\ pc = [w \in Workers |-> "fenceGet"]
    /\ read = [w \in Workers |-> {}]
    /\ fenceApplied = [w \in Workers |-> FALSE]
    /\ healPodCreated = [w \in Workers |-> FALSE]
    /\ iter = [w \in Workers |-> 0]
    /\ result = [w \in Workers |-> "none"]
    /\ warned = [w \in Workers |-> FALSE] /\ dropped = [w \in Workers |-> FALSE]
    /\ orphan = [w \in Workers |-> "None"] /\ orphanTarget = target /\ crashes = 0

Goto(w, l) == pc' = [pc EXCEPT ![w] = l]

(* Mutation: cleanup() that forgets the heal pod.                         *)
cleanupKeepsPod(w) ==
    /\ UNCHANGED <<healPod, dropped>>
    /\ result' = [result EXCEPT ![w] = "err"]
    /\ Goto(w, "done")

(* DeletePod: the Delete of the heal pod either removes it or fails; the   *)
(* code discards the error (_ =), so a failed Delete leaves the pod, still  *)
(* in its phase, and is recorded only in dropped.                          *)
DeletePod(w) ==
    \/ healPod' = [healPod EXCEPT ![w] = "None"] /\ UNCHANGED dropped
    \/ dropped' = [dropped EXCEPT ![w] = TRUE] /\ UNCHANGED healPod

(* cleanup(): delete the heal pod if this call created it; the fence is    *)
(* left in place.  Every error return after STEP 1 goes through it.        *)
cleanup(w) ==
    /\ IF healPodCreated[w] THEN DeletePod(w) ELSE UNCHANGED <<healPod, dropped>>
    /\ result' = [result EXCEPT ![w] = "err"]
    /\ Goto(w, "done")

(* Any error return: the error aborts healInstance through cleanup.        *)
Fail(w) ==
    /\ cleanup(w)
    /\ UNCHANGED <<fence, instPod, target, read, fenceApplied, healPodCreated,
                   iter, warned>>

-----------------------------------------------------------------------------
(* STEP 1, fenceInstance: GET the cluster.  A GET error returns before      *)
(* fenceApplied is set; an instance already listed returns nil at once.   *)
FenceGet(w) ==
    /\ pc[w] = "fenceGet"
    /\ \/ /\ result' = [result EXCEPT ![w] = "err"]
          /\ Goto(w, "done")
          /\ UNCHANGED <<read, fenceApplied>>
       \/ /\ target[w] \in fence
          /\ fenceApplied' = [fenceApplied EXCEPT ![w] = TRUE]
          /\ Goto(w, "create")
          /\ UNCHANGED <<read, result>>
       \/ /\ target[w] \notin fence
          /\ read' = [read EXCEPT ![w] = fence]
          /\ Goto(w, "fencePatch")
          /\ UNCHANGED <<fenceApplied, result>>
    /\ UNCHANGED <<fence, instPod, healPod, target, healPodCreated, iter, warned>>

(* fenceInstance: merge-PATCH the list read by the GET plus the target.    *)
FencePatchOk(w) ==
    /\ pc[w] = "fencePatch"
    /\ fence' = read[w] \cup {target[w]}
    /\ fenceApplied' = [fenceApplied EXCEPT ![w] = TRUE]
    /\ Goto(w, "create")
    /\ UNCHANGED <<instPod, healPod, target, read, healPodCreated, iter,
                   result, warned>>

(* Mutation: a failed fence PATCH is ignored and the heal goes on.        *)
FencePatchErrIgnored(w) ==
    /\ pc[w] = "fencePatch"
    /\ fenceApplied' = [fenceApplied EXCEPT ![w] = TRUE]
    /\ Goto(w, "create")
    /\ UNCHANGED <<fence, instPod, healPod, target, read, healPodCreated,
                   iter, result, warned>>

FencePatchErr(w) ==
    /\ pc[w] = "fencePatch"
    /\ result' = [result EXCEPT ![w] = "err"]
    /\ Goto(w, "done")
    /\ UNCHANGED <<fence, instPod, healPod, target, read, fenceApplied,
                   healPodCreated, iter, warned>>

(* STEP 2: create the heal pod; on error cleanup() and return.             *)
CreateHealPod(w) ==
    /\ pc[w] = "create"
    /\ healPod' = [healPod EXCEPT ![w] = "Pending"]
    /\ healPodCreated' = [healPodCreated EXCEPT ![w] = TRUE]
    /\ iter' = [iter EXCEPT ![w] = 0]
    /\ Goto(w, "deleteLoop")
    /\ UNCHANGED <<fence, instPod, target, read, fenceApplied, result, warned>>

CreateHealPodErr(w) == pc[w] = "create" /\ Fail(w)

(* Mutation: the delete loop without its deleteTimeout bound.             *)
DeleteLoopUnbounded(w) ==
    /\ pc[w] = "deleteLoop"
    /\ \/ /\ healPod[w] \in {"Running", "Succeeded"}
          /\ iter' = [iter EXCEPT ![w] = 0]
          /\ Goto(w, "healWait")
          /\ UNCHANGED instPod
       \/ /\ healPod[w] \notin {"Running", "Succeeded", "Failed"}
          /\ \E deleted \in BOOLEAN :
                instPod' = IF deleted THEN [instPod EXCEPT ![target[w]] = "Gone"]
                                      ELSE instPod
          /\ iter' = [iter EXCEPT ![w] = @ + 1]
          /\ UNCHANGED pc
    /\ UNCHANGED <<fence, healPod, target, read, fenceApplied, healPodCreated,
                   result, warned>>

(* STEP 3, one iteration of the delete loop.  The heal pod's phase is read *)
(* (a GET error reads as "Pending"); Running/Succeeded ends the loop,       *)
(* Failed fails through cleanup(), anything else deletes the target pod    *)
(* (the delete may fail) and loops.  After DeleteTimeout iterations the    *)
(* loop ends unacquired and the call fails through cleanup().              *)
DeleteLoop(w) ==
    /\ pc[w] = "deleteLoop"
    /\ iter[w] < DeleteTimeout
    /\ \/ /\ healPod[w] \in {"Running", "Succeeded"}
          /\ iter' = [iter EXCEPT ![w] = 0]
          /\ Goto(w, "healWait")
          /\ UNCHANGED instPod
       \/ /\ healPod[w] \notin {"Running", "Succeeded", "Failed"}
          /\ \E deleted \in BOOLEAN :
                instPod' = IF deleted THEN [instPod EXCEPT ![target[w]] = "Gone"]
                                      ELSE instPod
          /\ iter' = [iter EXCEPT ![w] = @ + 1]
          /\ UNCHANGED pc
    /\ UNCHANGED <<fence, healPod, target, read, fenceApplied, healPodCreated,
                   result, warned>>

(* A GET error in the loop reads as "Pending": the target is deleted again *)
(* even though the heal pod may already be running.                        *)
DeleteLoopGetErr(w) ==
    /\ pc[w] = "deleteLoop"
    /\ iter[w] < DeleteTimeout
    /\ healPod[w] \in {"Running", "Succeeded", "Failed"}
    /\ instPod' = [instPod EXCEPT ![target[w]] = "Gone"]
    /\ iter' = [iter EXCEPT ![w] = @ + 1]
    /\ UNCHANGED <<fence, healPod, target, pc, read, fenceApplied,
                   healPodCreated, result, warned>>

DeleteLoopFail(w) ==
    /\ pc[w] = "deleteLoop"
    /\ \/ iter[w] = DeleteTimeout
       \/ iter[w] < DeleteTimeout /\ healPod[w] = "Failed"
    /\ Fail(w)

(* STEP 4, one poll of the heal pod: Succeeded moves on, Failed or the last *)
(* poll without success fails through cleanup(); a GET error just polls on. *)
HealWait(w) ==
    /\ pc[w] = "healWait"
    /\ iter[w] < HealPolls
    /\ healPod[w] /= "Failed"
    /\ \/ /\ healPod[w] = "Succeeded"
          /\ DeletePod(w)
          /\ healPodCreated' = [healPodCreated EXCEPT ![w] = FALSE]
          /\ Goto(w, "unfenceGet")
          /\ UNCHANGED iter
       \/ /\ iter' = [iter EXCEPT ![w] = @ + 1]
          /\ UNCHANGED <<healPod, healPodCreated, pc, dropped>>
    /\ UNCHANGED <<fence, instPod, target, read, fenceApplied, result, warned>>

HealWaitFail(w) ==
    /\ pc[w] = "healWait"
    /\ \/ iter[w] = HealPolls
       \/ iter[w] < HealPolls /\ healPod[w] = "Failed"
    /\ Fail(w)

(* After STEP 5 the target pod is deleted (error ignored) to clear its    *)
(* CrashLoopBackOff history, and the readiness wait starts.               *)
DeleteTarget(w) ==
    /\ instPod' = [instPod EXCEPT ![target[w]] = "Gone"]
    /\ Goto(w, "waitReady")

(* STEP 5, unfenceInstance: GET the cluster.  An error is only logged, and *)
(* healInstance goes on with fenceApplied = false.                          *)
UnfenceGet(w) ==
    /\ pc[w] = "unfenceGet"
    /\ \/ /\ read' = [read EXCEPT ![w] = fence]
          /\ Goto(w, "unfencePatch")
          /\ UNCHANGED <<instPod, fenceApplied, warned>>
       \/ /\ warned' = [warned EXCEPT ![w] = TRUE]
          /\ fenceApplied' = [fenceApplied EXCEPT ![w] = FALSE]
          /\ DeleteTarget(w)
          /\ UNCHANGED read
    /\ iter' = [iter EXCEPT ![w] = 0]
    /\ UNCHANGED <<fence, healPod, target, healPodCreated, result>>

(* unfenceInstance: PATCH the list read minus the target (null when empty, *)
(* the same empty list); an error is only logged.                          *)
UnfencePatch(w) ==
    /\ pc[w] = "unfencePatch"
    /\ \/ /\ fence' = read[w] \ {target[w]}
          /\ UNCHANGED warned
       \/ /\ warned' = [warned EXCEPT ![w] = TRUE]
          /\ UNCHANGED fence
    /\ fenceApplied' = [fenceApplied EXCEPT ![w] = FALSE]
    /\ DeleteTarget(w)
    /\ UNCHANGED <<healPod, target, read, healPodCreated, iter, result>>

(* The final readiness wait: the call returns nil whether or not the pod   *)
(* comes back ready within ReadyPolls polls.                               *)
(* Mutation: the readiness wait never counts its polls.                    *)
WaitReadyUncounted(w) ==
    /\ pc[w] = "waitReady"
    /\ \/ /\ ~(instPod[target[w]] = "Up" /\ target[w] \notin fence)
          /\ UNCHANGED <<pc, result, iter>>
       \/ /\ instPod[target[w]] = "Up" /\ target[w] \notin fence
          /\ result' = [result EXCEPT ![w] = "ok"]
          /\ Goto(w, "done")
          /\ UNCHANGED iter
    /\ UNCHANGED <<fence, instPod, healPod, target, read, fenceApplied,
                   healPodCreated, warned>>

WaitReady(w) ==
    /\ pc[w] = "waitReady"
    /\ \/ /\ iter[w] < ReadyPolls
          /\ ~(instPod[target[w]] = "Up" /\ target[w] \notin fence)
          /\ iter' = [iter EXCEPT ![w] = @ + 1]
          /\ UNCHANGED <<pc, result>>
       \/ /\ \/ iter[w] = ReadyPolls
             \/ instPod[target[w]] = "Up" /\ target[w] \notin fence
          /\ result' = [result EXCEPT ![w] = "ok"]
          /\ Goto(w, "done")
          /\ UNCHANGED iter
    /\ UNCHANGED <<fence, instPod, healPod, target, read, fenceApplied,
                   healPodCreated, warned>>

-----------------------------------------------------------------------------
(* Environment.  The kubelet starts a Pending heal pod only once the       *)
(* target's instance pod, and any other heal pod, has released the         *)
(* single-attach data volume; the pod may fail at any time before it       *)
(* completes.  An orphaned heal pod goes on in the same way: it has        *)
(* RestartPolicyNever and nobody deletes it.                               *)
VolumeHeld(i) ==
    \E v \in Workers :
        \/ target[v] = i /\ healPod[v] = "Running"
        \/ orphanTarget[v] = i /\ orphan[v] = "Running"

HealPodStarts(w) ==
    /\ healPod[w] = "Pending"
    /\ instPod[target[w]] = "Gone" /\ ~VolumeHeld(target[w])
    /\ healPod' = [healPod EXCEPT ![w] = "Running"]
    /\ UNCHANGED <<fence, instPod, target, pc, read, fenceApplied,
                   healPodCreated, iter, result, warned, dropped>> /\ UNCHANGED crashVars

HealPodEnds(w) ==
    /\ \/ healPod[w] = "Running" /\ healPod' = [healPod EXCEPT ![w] = "Succeeded"]
       \/ healPod[w] \in {"Pending", "Running"} /\ healPod' = [healPod EXCEPT ![w] = "Failed"]
    /\ UNCHANGED <<fence, instPod, target, pc, read, fenceApplied,
                   healPodCreated, iter, result, warned, dropped>> /\ UNCHANGED crashVars

OrphanStarts(w) ==
    /\ orphan[w] = "Pending"
    /\ instPod[orphanTarget[w]] = "Gone" /\ ~VolumeHeld(orphanTarget[w])
    /\ orphan' = [orphan EXCEPT ![w] = "Running"]
    /\ UNCHANGED <<fence, instPod, healPod, target, pc, read, fenceApplied,
                   healPodCreated, iter, result, warned, dropped, orphanTarget, crashes>>

OrphanEnds(w) ==
    /\ \/ orphan[w] = "Running" /\ orphan' = [orphan EXCEPT ![w] = "Succeeded"]
       \/ orphan[w] \in {"Pending", "Running"} /\ orphan' = [orphan EXCEPT ![w] = "Failed"]
    /\ UNCHANGED <<fence, instPod, healPod, target, pc, read, fenceApplied,
                   healPodCreated, iter, result, warned, dropped, orphanTarget, crashes>>

(* The CNPG operator recreates a deleted instance pod; it can attach the   *)
(* volume only while no running heal pod holds it.                         *)
RecreateInstancePod(i) ==
    /\ instPod[i] = "Gone"
    /\ ~VolumeHeld(i)
    /\ instPod' = [instPod EXCEPT ![i] = "Up"]
    /\ UNCHANGED <<fence, healPod, target, pc, read, fenceApplied,
                   healPodCreated, iter, result, warned, dropped>> /\ UNCHANGED crashVars

(* The operator process dies while a healInstance call is running (pod    *)
(* eviction, OOM kill, node loss): nothing of the call's state survives,   *)
(* the fence and the heal pod stay where they are, and no code resumes    *)
(* or cleans up.  After the restart the next auto-repair, or an operator  *)
(* by hand, calls healInstance again for whichever instance triage marks. *)
Crash(w) ==
    /\ crashes < MaxCrashes /\ pc[w] # "done" /\ orphan[w] = "None"
    /\ orphan' = [orphan EXCEPT ![w] = healPod[w]]
    /\ orphanTarget' = [orphanTarget EXCEPT ![w] = target[w]]
    /\ crashes' = crashes + 1
    /\ healPod' = [healPod EXCEPT ![w] = "None"]
    /\ \E t \in Instances : target' = [target EXCEPT ![w] = t]
    /\ pc' = [pc EXCEPT ![w] = "fenceGet"]
    /\ read' = [read EXCEPT ![w] = {}]
    /\ fenceApplied' = [fenceApplied EXCEPT ![w] = FALSE]
    /\ healPodCreated' = [healPodCreated EXCEPT ![w] = FALSE]
    /\ iter' = [iter EXCEPT ![w] = 0]
    /\ dropped' = [dropped EXCEPT ![w] = FALSE]
    /\ UNCHANGED <<fence, instPod, result, warned>>

Worker(w) ==
    \/ CreateHealPodErr(w) \/ DeleteLoopFail(w) \/ HealWait(w) \/ HealWaitFail(w)
    \/ /\ \/ FenceGet(w) \/ FencePatchOk(w) \/ FencePatchErr(w) \/ CreateHealPod(w)
          \/ DeleteLoop(w) \/ DeleteLoopGetErr(w)
          \/ UnfenceGet(w) \/ UnfencePatch(w) \/ WaitReady(w)
       /\ UNCHANGED dropped

WorkerStep(w) == Worker(w) /\ UNCHANGED crashVars

Environment ==
    \/ \E w \in Workers : HealPodStarts(w) \/ HealPodEnds(w)
    \/ \E w \in Workers : OrphanStarts(w) \/ OrphanEnds(w)
    \/ \E i \in Instances : RecreateInstancePod(i)

Finished == \A w \in Workers : pc[w] = "done"

(* Once every call has returned the cluster keeps running; stuttering.     *)
Terminated == Finished /\ UNCHANGED vars

Next == (\E w \in Workers : WorkerStep(w) \/ Crash(w)) \/ Environment \/ Terminated

(* Each healInstance call keeps running (its sleeps end); the kubelet      *)
(* eventually settles a heal pod.  No fairness for CNPG recreation: it      *)
(* only affects readiness, which the code does not wait for forever.       *)
Fairness ==
    /\ \A w \in Workers : WF_vars(WorkerStep(w))
    /\ \A w \in Workers : WF_vars(HealPodStarts(w)) /\ WF_vars(HealPodEnds(w))
    /\ \A w \in Workers : WF_vars(OrphanStarts(w)) /\ WF_vars(OrphanEnds(w))

Spec == Init /\ [][Next]_vars /\ Fairness

-----------------------------------------------------------------------------
(* Properties.                                                             *)

HealPodHoldsVolume(w) == healPod[w] = "Running"

(* The heal pod wipes pgdata and runs pg_basebackup only while its target  *)
(* is listed in cnpg.io/fencedInstances, so the CNPG operator does not     *)
(* manage (restart, promote, re-clone) the instance whose data is being    *)
(* replaced.  Broken when fenceInstance / unfenceInstance of another call  *)
(* overwrites the annotation from a stale GET.                             *)
WipeOnlyWhileFenced ==
    \A w \in Workers : HealPodHoldsVolume(w) => target[w] \in fence

(* The same rule for a heal pod a crashed call left behind: it may still   *)
(* wipe and re-clone its instance only while that instance is fenced.      *)
(* Nothing deletes the orphan, and healInstance run again after the       *)
(* restart names a new heal pod (the name carries time.Now().Unix()).     *)
OrphanWipeOnlyWhileFenced ==
    \A w \in Workers : orphan[w] = "Running" => orphanTarget[w] \in fence

(* P-NO-LEAK for healInstance: a call that has returned has deleted its    *)
(* heal pod, unless a Delete of it failed and the error was dropped; on    *)
(* success, unless unfenceInstance failed and was only        *)
(* warned about, its target is no longer fenced; on an error after the     *)
(* fence was applied the fence is deliberately left in place.              *)
NoLeakAfterReturn ==
    \A w \in Workers : pc[w] = "done" =>
        /\ healPod[w] = "None" \/ dropped[w]
        /\ result[w] = "ok" /\ ~warned[w] => target[w] \notin fence
        /\ result[w] = "err" /\ fenceApplied[w] => target[w] \in fence

(* Every call returns: the delete loop, the heal wait and the readiness    *)
(* wait are all bounded.                                                   *)
AllReturn == <>Finished
=============================================================================
