----------------------------- MODULE GaleraRepair -----------------------------
(***************************************************************************)
(* Engine.Repair of the Galera engine (src/unnamed/part_015) on top of the *)
(* triage it runs first (GaleraTriage): the donor gate of Phase 2, the     *)
(* escrow backup and diverged captures of Phases 2.5 and 2.6, then         *)
(* repairTargeted or repairUntargeted with their gates.  One worker runs   *)
(* the repair and nothing else acts meanwhile, so each function is one     *)
(* step.  healNode (modelled in GaleraHeal), BackupDump (DumpPipe) and the *)
(* PVC read are calls whose success or failure is chosen with \E.          *)
(***************************************************************************)
EXTENDS GaleraTriage

CONSTANTS
    None,     \* InstanceNumber is nil: untargeted repair
    NoPod     \* an InstanceNumber naming no node of the cluster

Targets == Nodes \cup {NoPod}

(* The CLI flags Repair reads: --instance, --force, --no-escrow.           *)
Flags == [target : Targets \cup {None}, force : BOOLEAN, noEscrow : BOOLEAN]

VARIABLES
    flags,          \* the flags of the call, "unread" until Repair reads them
    rpc,            \* "prepare" (Phase 1 running), "heal" (Phase 3), "done"
    escrowed,       \* the pre-repair escrow snapshot was taken
    divergedTried,  \* nodes BackupDump was called on in Phase 2.6
    diverged,       \* the diverged captures that succeeded
    healed,         \* repairResult.HealedInstances
    skipped,        \* repairResult.SkippedInstances
    postTriaged,    \* repairResult.PostTriageResult was attached
    outcome         \* what Repair returned: "none", "ok", "err"

repairVars == <<flags, rpc, escrowed, divergedTried, diverged, healed, skipped,
                postTriaged, outcome>>
allVars == <<vars, repairVars>>

(* Repair returns an error; nothing later runs.                            *)
Fail == rpc' = "done" /\ outcome' = "err"

(* Phase 2's donor: an assessment that is running and ready.               *)
HasDonor == \E i \in Nodes : assessment[i].isRunning /\ assessment[i].isReady

(* Mutation: Phase 2.6 taken when the cluster is safe to heal.             *)
RepairPrepareSafeCapture ==
    /\ analyzed /\ rpc = "prepare"
    /\ \E fl \in Flags :
          /\ flags' = fl
          /\ \/ /\ ~HasDonor /\ Fail
                /\ UNCHANGED <<escrowed, divergedTried, diverged>>
             \/ /\ HasDonor /\ ~fl.noEscrow /\ Fail
                /\ UNCHANGED <<escrowed, divergedTried, diverged>>
             \/ LET tried == IF comparison.safeToHeal /\ ~fl.noEscrow
                             THEN {i \in Nodes : assessment[i].isRunning /\ assessment[i].isReady}
                             ELSE {}
                IN /\ HasDonor
                   /\ escrowed' = (~fl.noEscrow /\ comparison.primaryMembers # {})
                   /\ rpc' = "heal" /\ UNCHANGED outcome
                   /\ divergedTried' = tried /\ \E ok \in SUBSET tried : diverged' = ok
    /\ UNCHANGED <<healed, skipped, postTriaged>> /\ UNCHANGED vars

(* Repair up to Phase 3.  No running-ready assessment: abort.  Unless      *)
(* --no-escrow, a missing --backups-path or restic password, or a failed   *)
(* escrow BackupDump from the first primary member, aborts (the second     *)
(* disjunct); with no primary member the escrow is skipped with a warning. *)
(* In split-brain with escrow, each running-ready assessment gets a        *)
(* diverged BackupDump whose failure is only logged ("ok" are those that   *)
(* succeed).                                                                *)
RepairPrepare ==
    /\ analyzed /\ rpc = "prepare"
    /\ \E fl \in Flags :
          /\ flags' = fl
          /\ \/ /\ ~HasDonor /\ Fail
                /\ UNCHANGED <<escrowed, divergedTried, diverged>>
             \/ /\ HasDonor /\ ~fl.noEscrow /\ Fail
                /\ UNCHANGED <<escrowed, divergedTried, diverged>>
             \/ LET tried == IF ~comparison.safeToHeal /\ ~fl.noEscrow
                             THEN {i \in Nodes : assessment[i].isRunning /\ assessment[i].isReady}
                             ELSE {}
                IN /\ HasDonor
                   /\ escrowed' = (~fl.noEscrow /\ comparison.primaryMembers # {})
                   /\ rpc' = "heal" /\ UNCHANGED outcome
                   /\ divergedTried' = tried /\ \E ok \in SUBSET tried : diverged' = ok
    /\ UNCHANGED <<healed, skipped, postTriaged>> /\ UNCHANGED vars

-----------------------------------------------------------------------------
(* repairTargeted's hard stops: the target is in no assessment, or the     *)
(* cluster is in split-brain and --force is not set.  A healthy member of  *)
(* the primary component only draws a warning.                             *)
TargetedAbort ==
    /\ rpc = "heal" /\ flags.target \notin {None}
    /\ \/ flags.target \notin Nodes
       \/ ~comparison.safeToHeal /\ ~flags.force
    /\ Fail
    /\ UNCHANGED <<escrowed, divergedTried, diverged, healed, skipped, postTriaged, flags>>
    /\ UNCHANGED vars

(* A target that needs no heal is skipped unless --force.                  *)
TargetedSkip ==
    /\ rpc = "heal" /\ flags.target \in Nodes
    /\ comparison.safeToHeal \/ flags.force
    /\ ~assessment[flags.target].needsHeal /\ ~flags.force
    /\ skipped' = {flags.target} /\ rpc' = "done" /\ outcome' = "ok"
    /\ UNCHANGED <<escrowed, divergedTried, diverged, healed, postTriaged, flags>>
    /\ UNCHANGED vars

(* Mutation: the heal runs without the lookup of the target's assessment.  *)
TargetedHealUnchecked ==
    /\ rpc = "heal" /\ flags.target \in Targets
    /\ flags.target = NoPod
       \/ /\ comparison.safeToHeal \/ flags.force
          /\ assessment[flags.target].needsHeal \/ flags.force
    /\ \E ok \in BOOLEAN :
          \/ ok /\ healed' = {flags.target} /\ rpc' = "done" /\ outcome' = "ok"
          \/ ~ok /\ Fail /\ UNCHANGED healed
    /\ UNCHANGED <<escrowed, divergedTried, diverged, skipped, postTriaged, flags>>
    /\ UNCHANGED vars

(* Otherwise the storage PVC is read and healNode runs; either error is    *)
(* returned ("ok" is both succeeding).  displayFinalStatus only reads.     *)
TargetedHeal ==
    /\ rpc = "heal" /\ flags.target \in Nodes
    /\ comparison.safeToHeal \/ flags.force
    /\ assessment[flags.target].needsHeal \/ flags.force
    /\ \E ok \in BOOLEAN :
          \/ ok /\ healed' = {flags.target} /\ rpc' = "done" /\ outcome' = "ok"
          \/ ~ok /\ Fail /\ UNCHANGED healed
    /\ UNCHANGED <<escrowed, divergedTried, diverged, skipped, postTriaged, flags>>
    /\ UNCHANGED vars

repairTargeted == TargetedAbort \/ TargetedSkip \/ TargetedHeal

-----------------------------------------------------------------------------
(* repairUntargeted: split-brain is a hard stop.  Otherwise the needsHeal  *)
(* assessments are the targets, the others are skipped, and healNode runs  *)
(* on each in the assessments' order, the first error returned; that      *)
(* order is grastateData's, so the nodes healed before a failure can be   *)
(* any proper subset of the targets.  After the heals: the 30 s wait,      *)
(* waitForAllReady (bounded, it only reads), the CR re-read and the        *)
(* re-triage, attached whatever its error.                                 *)
UntargetedStop ==
    /\ rpc = "heal" /\ flags.target = None /\ ~comparison.safeToHeal
    /\ Fail
    /\ UNCHANGED <<escrowed, divergedTried, diverged, healed, skipped, postTriaged, flags>>
    /\ UNCHANGED vars

(* Mutation: a heal error is logged and the loop goes on to return nil.   *)
UntargetedHealIgnoreErr ==
    /\ rpc = "heal" /\ flags.target = None /\ comparison.safeToHeal
    /\ LET targets == {i \in Nodes : assessment[i].needsHeal} IN
          /\ skipped' = Nodes \ targets
          /\ rpc' = "done" /\ outcome' = "ok"
          /\ \/ targets = {} /\ UNCHANGED <<healed, postTriaged>>
             \/ /\ targets # {}
                /\ \E h \in SUBSET targets : healed' = h
                /\ postTriaged' = TRUE
    /\ UNCHANGED <<escrowed, divergedTried, diverged, flags>>
    /\ UNCHANGED vars

UntargetedHeal ==
    /\ rpc = "heal" /\ flags.target = None /\ comparison.safeToHeal
    /\ LET targets == {i \in Nodes : assessment[i].needsHeal} IN
          /\ skipped' = Nodes \ targets
          /\ \/ /\ targets = {} /\ rpc' = "done" /\ outcome' = "ok"
                /\ UNCHANGED <<healed, postTriaged>>
             \/ /\ targets # {} /\ healed' = targets /\ postTriaged' = TRUE
                /\ rpc' = "done" /\ outcome' = "ok"
             \/ /\ \E h \in SUBSET targets : h # targets /\ healed' = h
                /\ Fail /\ UNCHANGED postTriaged
    /\ UNCHANGED <<escrowed, divergedTried, diverged, flags>>
    /\ UNCHANGED vars

repairUntargeted == UntargetedStop \/ UntargetedHeal

-----------------------------------------------------------------------------
RepairInit ==
    /\ Init
    /\ flags = "unread" /\ rpc = "prepare" /\ escrowed = FALSE
    /\ divergedTried = {} /\ diverged = {} /\ healed = {} /\ skipped = {}
    /\ postTriaged = FALSE /\ outcome = "none"

(* Triage returned an error: Repair returns "triage failed" before any    *)
(* flag is read or anything is written.                                    *)
TriageFailed ==
    /\ collectErr /\ rpc = "prepare"
    /\ Fail
    /\ UNCHANGED <<flags, escrowed, divergedTried, diverged, healed, skipped, postTriaged>>
    /\ UNCHANGED vars

(* Phase 1 is the triage; Repair returns after Phase 3.                   *)
RepairDone == rpc = "done" /\ UNCHANGED allVars

RepairNext ==
    \/ triageAnalyze /\ UNCHANGED repairVars
    \/ triageCollectFailed /\ UNCHANGED repairVars
    \/ TriageFailed
    \/ RepairPrepare \/ repairTargeted \/ repairUntargeted
    \/ RepairDone

RepairSpec == RepairInit /\ [][RepairNext]_allVars

-----------------------------------------------------------------------------
TypeOK ==
    /\ TriageTypeOK
    /\ IF rpc = "prepare" \/ ~analyzed THEN flags = "unread" ELSE flags \in Flags
    /\ rpc \in {"prepare", "heal", "done"} /\ outcome \in {"none", "ok", "err"}
    /\ escrowed \in BOOLEAN /\ postTriaged \in BOOLEAN
    /\ divergedTried \subseteq Nodes /\ diverged \subseteq divergedTried
    /\ healed \subseteq Nodes /\ skipped \subseteq Nodes

(* The gates of Repair composed with the triage behind them: a node is    *)
(* healed only after the escrow snapshot (unless --no-escrow waived it)   *)
(* and, unless --force overrode the gates, only when no split-brain was   *)
(* seen and some member of the primary component holds data at least as  *)
(* fresh as the node's: no unforced heal wipes the newest copy.           *)
HealGated ==
    \A i \in healed :
        /\ flags.noEscrow \/ escrowed
        /\ flags.force \/ /\ comparison.safeToHeal
                          /\ \E m \in primaryMembers : effectiveSeqno(m) >= effectiveSeqno(i)

(* Spec section 4.7 step 4: in split-brain with escrow enabled, before    *)
(* Phase 3 every node whose pod is running and whose wsrep reports Synced *)
(* has had a diverged capture attempt.                                    *)
DivergedCaptured ==
    rpc # "prepare" /\ escrowed /\ ~comparison.safeToHeal =>
        {i \in Nodes : ev[i].pod = "running" /\ ev[i].ws.state = 4} \subseteq divergedTried

(* An untargeted repair that returns success has healed every node the    *)
(* triage marked needsHeal and re-triaged after healing: a failed heal is *)
(* never reported as a successful repair.                                 *)
RepairOkOnlyIfAllHealed ==
    outcome = "ok" /\ flags.target = None =>
        /\ healed = {i \in Nodes : assessment[i].needsHeal}
        /\ healed # {} => postTriaged
====
