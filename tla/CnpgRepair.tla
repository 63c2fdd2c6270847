------------------------------ MODULE CnpgRepair ------------------------------
(***************************************************************************)
(* Engine.Repair of src/engine/cnpg/repair.go on top of the triage it runs *)
(* first (CnpgTriage): the prerequisites of Phase 2, the escrow backup and *)
(* the diverged captures of Phase 2.5 and 2.6, then repairTargeted or      *)
(* repairUntargeted with their safety gates.  One worker runs the repair   *)
(* and nothing else acts meanwhile, so each function is one step.          *)
(*                                                                         *)
(* The heals themselves (healInstance, modelled in CnpgHeal), BackupDump   *)
(* (DumpPipe) and the pod and PVC reads are calls whose success or failure *)
(* is chosen with \E.                                                      *)
(***************************************************************************)
EXTENDS CnpgTriage

CONSTANTS
    None,     \* InstanceNumber is nil: untargeted repair
    NoPod     \* an InstanceNumber naming no pod of the cluster

Targets == Instances \cup {NoPod}

(* The CLI flags Repair reads: --instance, --force, --no-escrow.           *)
Flags == [target : Targets \cup {None}, force : BOOLEAN, noEscrow : BOOLEAN]

(* The flags before Repair has read them.                                  *)
Unread == [read |-> FALSE]

VARIABLES
    flags,          \* the flags of the call, Unread until Repair reads them
    rpc,            \* "prepare" (Phase 1 running), "heal" (Phase 3), "done"
    escrowed,       \* the pre-repair escrow snapshot was taken
    divergedTried,  \* instances BackupDump was called on in Phase 2.6
    diverged,       \* the diverged captures that succeeded
    healed,         \* repairResult.HealedInstances
    skipped,        \* repairResult.SkippedInstances
    postTriaged,    \* repairResult.PostTriageResult was attached
    outcome         \* what Repair returned: "none", "ok", "err"

repairVars == <<flags, rpc, escrowed, divergedTried, diverged, healed, skipped,
                postTriaged, outcome>>
allVars == <<vars, repairVars>>

(* Repair returns an error; nothing later runs.                            *)
Fail == rpc' = "done" /\ outcome' = "err"

(* Mutation: a failed escrow backup is logged and the repair goes on.       *)
RepairPrepareNoEscrowCheck ==
    /\ analyzed /\ rpc = "prepare"
    /\ \/ /\ Fail
          /\ UNCHANGED <<flags, escrowed, divergedTried, diverged>>
       \/ /\ phase[Primary] = "ready" /\ Fail
          /\ UNCHANGED <<flags, escrowed, divergedTried, diverged>>
       \/ /\ phase[Primary] = "ready"
          /\ \E fl \in Flags, escrowOk \in BOOLEAN :
                LET tried == IF ~comparison.safeToHeal /\ ~fl.noEscrow
                             THEN {i \in Instances : assessment[i].isRunningReady} ELSE {}
                IN /\ flags' = fl /\ escrowed' = (~fl.noEscrow /\ escrowOk)
                   /\ rpc' = "heal" /\ UNCHANGED outcome
                   /\ divergedTried' = tried /\ \E ok \in SUBSET tried : diverged' = ok
    /\ UNCHANGED <<healed, skipped, postTriaged>> /\ UNCHANGED vars

(* Repair up to Phase 3: the primary's pod must be Running with its first *)
(* container ready; the UID/GID probes fall back to 26 and change nothing  *)
(* here.  Unless --no-escrow, a failed escrow BackupDump (or a missing     *)
(* repository) aborts.  In split-brain with escrow, each assessment that   *)
(* is running and ready gets a diverged BackupDump, whose failure is only  *)
(* logged ("ok" are the captures that succeed).  The first disjunct is    *)
(* the primary's GET failing or its pod not running and ready, the second *)
(* the escrow failing, which only happens without --no-escrow; neither     *)
(* reaches the --instance and --force flags, so flags stays Unread.        *)
RepairPrepare ==
    /\ analyzed /\ rpc = "prepare"
    /\ \/ /\ Fail                                       \* primary GET or readiness
          /\ UNCHANGED <<flags, escrowed, divergedTried, diverged>>
       \/ /\ phase[Primary] = "ready" /\ Fail            \* escrow failed
          /\ UNCHANGED <<flags, escrowed, divergedTried, diverged>>
       \/ /\ phase[Primary] = "ready"
          /\ \E fl \in Flags :
                LET tried == IF ~comparison.safeToHeal /\ ~fl.noEscrow
                             THEN {i \in Instances : assessment[i].isRunningReady} ELSE {}
                IN /\ flags' = fl /\ escrowed' = ~fl.noEscrow
                   /\ rpc' = "heal" /\ UNCHANGED outcome
                   /\ divergedTried' = tried /\ \E ok \in SUBSET tried : diverged' = ok
    /\ UNCHANGED <<healed, skipped, postTriaged>> /\ UNCHANGED vars

-----------------------------------------------------------------------------
(* repairTargeted's hard stops: the target is the primary, it is in no     *)
(* assessment, or the cluster is in split-brain and --force is not set.    *)
TargetedAbort ==
    /\ rpc = "heal" /\ flags.target # None
    /\ \/ flags.target = Primary
       \/ flags.target \notin Instances
       \/ ~comparison.safeToHeal /\ ~flags.force
    /\ Fail
    /\ UNCHANGED <<escrowed, divergedTried, diverged, healed, skipped, postTriaged, flags>>
    /\ UNCHANGED vars

(* A target that needs no heal is skipped unless --force.                  *)
TargetedSkip ==
    /\ rpc = "heal" /\ flags.target \in Instances \ {Primary}
    /\ comparison.safeToHeal \/ flags.force
    /\ ~assessment[flags.target].needsHeal /\ ~flags.force
    /\ skipped' = {flags.target} /\ rpc' = "done" /\ outcome' = "ok"
    /\ UNCHANGED <<escrowed, divergedTried, diverged, healed, postTriaged, flags>>
    /\ UNCHANGED vars

(* Otherwise the target's PVC is read and healInstance runs; either error *)
(* is returned ("ok" is both succeeding).  displayFinalStatus only reads.  *)
TargetedHeal ==
    /\ rpc = "heal" /\ flags.target \in Instances \ {Primary}
    /\ comparison.safeToHeal \/ flags.force
    /\ assessment[flags.target].needsHeal \/ flags.force
    /\ \E ok \in BOOLEAN :
          \/ ok /\ healed' = {flags.target} /\ rpc' = "done" /\ outcome' = "ok"
          \/ ~ok /\ Fail /\ UNCHANGED healed
    /\ UNCHANGED <<escrowed, divergedTried, diverged, skipped, postTriaged, flags>>
    /\ UNCHANGED vars

repairTargeted == TargetedAbort \/ TargetedSkip \/ TargetedHeal

-----------------------------------------------------------------------------
(* repairUntargeted: split-brain is a hard stop.  Otherwise every         *)
(* assessment marked needsHeal is a target, the others are skipped, and   *)
(* the targets are healed one after another in the assessments' order;    *)
(* the first heal error is returned.  That order is the controlData order, *)
(* which can be any, so the instances healed before a failure can be any   *)
(* proper subset of the targets.  After all heals: the 30 s wait,          *)
(* waitForAllReady (bounded, it only reads), the cluster re-read and the   *)
(* re-triage, whose result is attached whatever its error.                 *)
UntargetedStop ==
    /\ rpc = "heal" /\ flags.target = None /\ ~comparison.safeToHeal
    /\ Fail
    /\ UNCHANGED <<escrowed, divergedTried, diverged, healed, skipped, postTriaged, flags>>
    /\ UNCHANGED vars

(* Mutation: a heal error is logged and the loop goes on to return nil.   *)
UntargetedHealIgnoreErr ==
    /\ rpc = "heal" /\ flags.target = None /\ comparison.safeToHeal
    /\ LET targets == {i \in Instances : assessment[i].needsHeal} IN
          /\ skipped' = Instances \ targets
          /\ rpc' = "done" /\ outcome' = "ok"
          /\ \/ targets = {} /\ UNCHANGED <<healed, postTriaged>>
             \/ /\ targets # {}
                /\ \E h \in SUBSET targets : healed' = h
                /\ postTriaged' = TRUE
    /\ UNCHANGED <<escrowed, divergedTried, diverged, flags>>
    /\ UNCHANGED vars

UntargetedHeal ==
    /\ rpc = "heal" /\ flags.target = None /\ comparison.safeToHeal
    /\ LET targets == {i \in Instances : assessment[i].needsHeal} IN
          /\ skipped' = Instances \ targets
          /\ \/ /\ targets = {} /\ rpc' = "done" /\ outcome' = "ok"
                /\ UNCHANGED <<healed, postTriaged>>
             \/ /\ targets # {} /\ healed' = targets /\ postTriaged' = TRUE
                /\ rpc' = "done" /\ outcome' = "ok"
             \/ /\ \E h \in SUBSET targets : h # targets /\ healed' = h
                /\ Fail /\ UNCHANGED postTriaged
    /\ UNCHANGED <<escrowed, divergedTried, diverged, flags>>
    /\ UNCHANGED vars

repairUntargeted == UntargetedStop \/ UntargetedHeal

-----------------------------------------------------------------------------
RepairInit ==
    /\ Init
    /\ flags = Unread /\ rpc = "prepare" /\ escrowed = FALSE
    /\ divergedTried = {} /\ diverged = {} /\ healed = {} /\ skipped = {}
    /\ postTriaged = FALSE /\ outcome = "none"

(* Phase 1: Triage returned the collection's error.                      *)
TriageFailed ==
    /\ collected = "err" /\ rpc = "prepare"
    /\ Fail
    /\ UNCHANGED <<flags, escrowed, divergedTried, diverged, healed, skipped, postTriaged>>
    /\ UNCHANGED vars

(* Phase 1 is the triage; Repair returns after Phase 3.                   *)
RepairDone == rpc = "done" /\ UNCHANGED allVars

RepairNext ==
    \/ (triageCollect \/ triageCollectErr \/ triageAnalyze) /\ UNCHANGED repairVars
    \/ TriageFailed
    \/ RepairPrepare \/ repairTargeted \/ repairUntargeted
    \/ RepairDone

RepairSpec == RepairInit /\ [][RepairNext]_allVars

-----------------------------------------------------------------------------
TypeOK ==
    /\ TriageTypeOK
    /\ IF rpc = "prepare" THEN flags = Unread ELSE flags \in {Unread} \cup Flags
    /\ rpc = "heal" => flags \in Flags
    /\ rpc \in {"prepare", "heal", "done"} /\ outcome \in {"none", "ok", "err"}
    /\ escrowed \in BOOLEAN /\ postTriaged \in BOOLEAN
    /\ divergedTried \subseteq Instances /\ diverged \subseteq divergedTried
    /\ healed \subseteq Instances /\ skipped \subseteq Instances

(* The gates of Repair, composed with the triage behind them: an instance *)
(* is healed only after the escrow snapshot (unless --no-escrow waived    *)
(* it), never the primary, and, unless --force overrode the gates, only   *)
(* in a cluster safe to heal and only when the (timeline, LSN) on its PVC  *)
(* is strictly older than on the primary's: no heal wipes the freshest     *)
(* copy unasked.                                                           *)
HealGated ==
    \A i \in healed :
        /\ flags.noEscrow \/ escrowed
        /\ i # Primary
        /\ flags.force \/ (comparison.safeToHeal /\ LexGreater(TrueFresh(Primary), TrueFresh(i)))

(* An untargeted repair that returns success has healed every instance   *)
(* the triage marked needsHeal, and re-triaged after healing: a failed    *)
(* heal is never reported as a successful repair.                         *)
RepairOkOnlyIfAllHealed ==
    outcome = "ok" /\ flags.target = None =>
        /\ healed = {i \in Instances : assessment[i].needsHeal}
        /\ healed # {} => postTriaged

(* Spec section 4.7 step 4: in split-brain with escrow enabled, every     *)
(* running-ready instance gets a diverged capture attempt before Phase 3; *)
(* Phase 2 has just checked that the primary is running and ready.        *)
DivergedCaptureAttempted ==
    rpc # "prepare" /\ escrowed /\ ~comparison.safeToHeal => Primary \in divergedTried
====
