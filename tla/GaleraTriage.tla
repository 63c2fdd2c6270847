----------------------------- MODULE GaleraTriage -----------------------------
(***************************************************************************)
(* The Galera triage (src/unnamed/part_013): the evidence triageCollect    *)
(* gathers, the effective seqnos and primary members it derives from it,   *)
(* and triageAnalyze (crossInstanceComparison, then buildAssessments).     *)
(* The evidence of each node is chosen in Init: the kind of its pod, the   *)
(* grastate.dat seqno if a source answered, and, for a running pod, the    *)
(* wsrep status its query returned; one step runs triageAnalyze on it.     *)
(*                                                                         *)
(* Cluster UUIDs enter only through what the comparison tests, whether it  *)
(* collected more than one.  The operator's galeraRecovery seqnos are the  *)
(* constant CrSeqno; disk percentages and notes only feed the output.      *)
(***************************************************************************)
EXTENDS Integers, FiniteSets, FiniteSetsExt

CONSTANTS
    Nodes,        \* the expected nodes <cluster>-0 .. <cluster>-(replicas-1)
    Seqnos,       \* seqno values of grastate.dat and wsrep, -1 included
    WsStatuses,   \* [state, connected, ready, status, committed] rows a query parses to
    CrSeqno,      \* galeraRecovery's best recovered/state seqno per node, -1 if none
    NoData        \* the grastate entry has Source "none"

(* A failed wsrep query stores &wsrepStatus{}: every field keeps Go's zero *)
(* value, so LastCommitted is 0, not the -1 parseWsrepStatus starts from,  *)
(* and ClusterStatus is "".                                                 *)
FailedQuery == [state |-> 0, connected |-> "", ready |-> "", status |-> "", committed |-> 0]

(* What buildAssessments reads for a node absent from the wsrep map.       *)
NoWs == [state |-> 0, connected |-> "OFF", ready |-> "OFF", status |-> "unknown",
         committed |-> -1]

(* Pod kinds triageCollect tells apart: phase Running with the first       *)
(* container ready, Running without it (crash-looping, with a disk-full    *)
(* line in its log or not), another phase, or no pod for the name.         *)
PodKinds == {"running", "crashloop", "crashloopDiskFull", "stopped", "missing"}

ASSUME /\ -1 \in Seqnos /\ NoData \notin Seqnos /\ CrSeqno \in [Nodes -> Seqnos]
       /\ FailedQuery \notin WsStatuses /\ NoWs \notin WsStatuses

(* What triageCollect holds of one node's grastate.dat: parseGrastate's   *)
(* seqno ("-1" when the text has no seqno line) of an exec's output, or,   *)
(* when that exec failed or was not tried, of runPVCProbes' log of a probe *)
(* pod mounting the storage PVC; NoData when the probe's Create failed,    *)
(* its GetLogs failed or returned nothing (the "none" filler).             *)
GrastateEntries == Seqnos \cup {NoData}

(* Only running pods that are not crash-looping are queried for wsrep.     *)
Evidence == {e \in [pod : PodKinds, gs : GrastateEntries,
                    ws : WsStatuses \cup {FailedQuery, NoWs}] :
                (e.pod = "running") <=> (e.ws # NoWs)}

VARIABLES
    ev,             \* the evidence per node
    multipleUUIDs,  \* the UUIDs of grastate.dat and wsrep are more than one
    comparison,     \* crossInstanceComparison's DataComparison
    assessment,     \* buildAssessments' result per node
    analyzed,       \* triageAnalyze has run
    collectErr      \* triageCollect returned an error instead of its data

vars == <<ev, multipleUUIDs, comparison, assessment, analyzed, collectErr>>

-----------------------------------------------------------------------------
(* The effective seqno: the largest of wsrep_last_committed (-1 without a  *)
(* wsrep entry), the galeraRecovery seqnos and the grastate seqno, never   *)
(* below -1.                                                                *)
effectiveSeqno(i) ==
    LET wsCommitted == ev[i].ws.committed
        grastateSeqno == IF ev[i].gs = NoData THEN -1 ELSE ev[i].gs
    IN Max({-1, wsCommitted, CrSeqno[i], grastateSeqno})

(* The wsrep map's nodes whose wsrep_cluster_status is "Primary".           *)
primaryMembers == {i \in Nodes : ev[i].ws.status = "Primary"}

(* Mutation: the best seqno taken over every node, not the members only.  *)
bestPrimarySeqnoAll == Max({-2} \cup {effectiveSeqno(i) : i \in Nodes})

bestPrimarySeqno == Max({-2} \cup {effectiveSeqno(m) : m \in primaryMembers})

(* crossInstanceComparison's split-brain flags besides several UUIDs: a    *)
(* wsrep entry whose cluster status is set and not "Primary", and, when    *)
(* there are primary members, a non-member whose positive effective seqno  *)
(* exceeds the best member's.                                              *)
splitBrain ==
    {i \in Nodes : ev[i].ws \notin {NoWs} /\ ev[i].ws.status \notin {"", "Primary"}}
    \cup {i \in Nodes \ primaryMembers :
              primaryMembers # {} /\ effectiveSeqno(i) > bestPrimarySeqno
              /\ effectiveSeqno(i) > 0}

crossInstanceComparison ==
    [primaryMembers |-> primaryMembers, bestPrimarySeqno |-> bestPrimarySeqno,
     splitBrain |-> splitBrain, safeToHeal |-> ~multipleUUIDs /\ splitBrain = {}]

(* buildAssessments' switch for one node: the branch taken (standing for   *)
(* its notes and recommendation) and needsHeal.  The "ws == nil" case of   *)
(* the code cannot be taken: every running pod has a wsrep entry, the      *)
(* empty status of a failed query included.                                *)
Assess(i, cmp) ==
    LET w == ev[i].ws
        pod == ev[i].pod
        isRunning == pod = "running"
        isCrashloop == pod \in {"crashloop", "crashloopDiskFull"}
        hasData == ev[i].gs # NoData
        best == cmp.bestPrimarySeqno
        nodeSeqno == effectiveSeqno(i)
        seqnoLag == IF best > 0 /\ nodeSeqno > 0 THEN best - nodeSeqno ELSE -1
        dataCurrent == nodeSeqno > 0 /\ best > 0 /\ seqnoLag <= 0
        ahead == i \notin cmp.primaryMembers /\ nodeSeqno > best /\ nodeSeqno > 0
    IN CASE ~cmp.safeToHeal /\ ahead   -> [branch |-> "ahead", needsHeal |-> FALSE]
         [] ~cmp.safeToHeal /\ ~hasData -> [branch |-> "noData", needsHeal |-> FALSE]
         [] ~cmp.safeToHeal            -> [branch |-> "splitBrain", needsHeal |-> FALSE]
         [] isRunning /\ w.state = 4 /\ w.connected = "ON" /\ w.ready = "ON"
               /\ w.status = "Primary" -> [branch |-> "synced", needsHeal |-> FALSE]
         [] isRunning /\ w.state \in 1 .. 3 /\ w.connected = "ON"
                                       -> [branch |-> "transitional", needsHeal |-> FALSE]
         [] isRunning /\ (w.connected = "OFF" \/ w.ready = "OFF")
                                       -> [branch |-> "disconnected", needsHeal |-> TRUE]
         [] isRunning /\ w.status \notin {"Primary", "unknown"}
                                       -> [branch |-> "nonPrimary", needsHeal |-> TRUE]
         [] pod = "crashloopDiskFull"  -> [branch |-> "crashloopDiskFull", needsHeal |-> TRUE]
         [] isCrashloop /\ dataCurrent -> [branch |-> "crashloopCurrent", needsHeal |-> FALSE]
         [] isCrashloop                -> [branch |-> "crashloopStale", needsHeal |-> TRUE]
         [] pod = "missing" /\ hasData /\ dataCurrent
                                       -> [branch |-> "missingCurrent", needsHeal |-> FALSE]
         [] pod = "missing" /\ hasData -> [branch |-> "missingStale", needsHeal |-> TRUE]
         [] pod = "missing"            -> [branch |-> "missingNoData", needsHeal |-> FALSE]
         [] OTHER                      -> [branch |-> "unknown", needsHeal |-> FALSE]

(* The InstanceAssessment of a node: IsRunning excludes crash-looping      *)
(* pods, IsReady is IsRunning with wsrep state 4 (Synced).                 *)
buildAssessments(cmp) ==
    [i \in Nodes |-> LET a == Assess(i, cmp) IN
        [branch |-> a.branch, needsHeal |-> a.needsHeal,
         isRunning |-> ev[i].pod = "running",
         isReady |-> ev[i].pod = "running" /\ ev[i].ws.state = 4]]

-----------------------------------------------------------------------------
(* The bundles triageCollect can produce.  Several UUIDs need at least two *)
(* of them collected: a grastate.dat read or a parsed wsrep status.         *)
UUIDSources(f) == {<<i, "grastate">> : i \in {n \in Nodes : f[n].gs # NoData}}
                  \cup {<<i, "wsrep">> : i \in {n \in Nodes : f[n].ws \in WsStatuses}}

Init ==
    /\ ev \in [Nodes -> Evidence]
    /\ multipleUUIDs \in BOOLEAN
    /\ multipleUUIDs => Cardinality(UUIDSources(ev)) >= 2
    /\ comparison = [primaryMembers |-> {}, bestPrimarySeqno |-> -2, splitBrain |-> {},
                     safeToHeal |-> TRUE]
    /\ assessment = [i \in Nodes |-> [branch |-> "unknown", needsHeal |-> FALSE,
                                      isRunning |-> FALSE, isReady |-> FALSE]]
    /\ analyzed = FALSE
    /\ collectErr = FALSE

(* triageCollect returns an error and Triage with it: the pod List failed, *)
(* or some storage-<node> PVC's Get failed and the "Missing storage PVCs"  *)
(* abort ran.  No analysis follows.                                        *)
triageCollectFailed ==
    /\ ~analyzed /\ ~collectErr
    /\ collectErr' = TRUE
    /\ UNCHANGED <<ev, multipleUUIDs, comparison, assessment, analyzed>>

(* triageAnalyze: the comparison, then the assessments that read it.       *)
triageAnalyze ==
    /\ ~analyzed /\ ~collectErr
    /\ comparison' = crossInstanceComparison
    /\ assessment' = buildAssessments(comparison')
    /\ analyzed' = TRUE
    /\ UNCHANGED <<ev, multipleUUIDs, collectErr>>

-----------------------------------------------------------------------------
Branches == {"ahead", "noData", "splitBrain", "synced", "transitional", "disconnected",
             "nonPrimary", "crashloopDiskFull", "crashloopCurrent", "crashloopStale",
             "missingCurrent", "missingStale", "missingNoData", "unknown"}

TriageTypeOK ==
    /\ ev \in [Nodes -> Evidence] /\ multipleUUIDs \in BOOLEAN /\ analyzed \in BOOLEAN
    /\ collectErr \in BOOLEAN /\ ~(collectErr /\ analyzed)
    /\ comparison.primaryMembers \subseteq Nodes
    /\ comparison.splitBrain \subseteq Nodes /\ comparison.safeToHeal \in BOOLEAN
    /\ assessment \in [Nodes -> [branch : Branches, needsHeal : BOOLEAN,
                                 isRunning : BOOLEAN, isReady : BOOLEAN]]
====
