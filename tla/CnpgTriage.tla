------------------------------ MODULE CnpgTriage ------------------------------
(***************************************************************************)
(* The CNPG triage of src/engine/cnpg/triage.go: triageCollect gathers    *)
(* the evidence (pod phases, pg_controldata by exec or from a probe pod    *)
(* on the PVC, the primary's pg_stat_replication), and triageAnalyze runs  *)
(* crossInstanceComparison and buildAssessments on it, in every order the  *)
(* controlData slice can have.                                             *)
(*                                                                         *)
(* What the cluster really is (each pod's phase, the pg_control on each    *)
(* PVC) is chosen in Init and does not change while the triage runs.       *)
(* triageCollect is one step: each exec, log read, probe pod and psql      *)
(* query in it succeeds or fails, and the replicas the primary reports as  *)
(* streaming are chosen with \E among those that can stream.               *)
(*                                                                         *)
(* Timelines and LSNs stay the text pg_controldata printed.  TLDigits and  *)
(* LSNWords give what strconv.ParseInt reads from a well-formed text; any  *)
(* other text parses as 0, as the code's error branches do.  parseLSNValue *)
(* computes hi * 2^32 + lo; the model's low word is below LoRange, so      *)
(* hi * LoRange + lo orders LSNs the same way.                             *)
(***************************************************************************)
EXTENDS Integers, Sequences, FiniteSets, SequencesExt

CONSTANTS
    Instances,   \* the expected instance pods
    Primary,     \* status.currentPrimary
    TLTexts,     \* timeline texts an entry may carry, "unknown" included
    TLDigits,    \* the number a well-formed timeline text denotes
    LSNTexts,    \* checkpoint-location texts, "unknown" included
    LSNWords,    \* <<hi, lo>> of a well-formed "hi/lo" text
    LoRange      \* bound of the low word in the model

Unknown == "unknown"

ASSUME /\ Primary \in Instances /\ Unknown \in TLTexts /\ Unknown \in LSNTexts
       /\ DOMAIN TLDigits \subseteq TLTexts \ {Unknown}
       /\ DOMAIN LSNWords \subseteq LSNTexts \ {Unknown}
       /\ \A t \in DOMAIN LSNWords : LSNWords[t][2] < LoRange

(* What triageCollect knows of the pod: running and streaming (listed in   *)
(* pg_stat_replication), running, crash-looping (with a disk-full crash    *)
(* reason or not), not running, or absent.                                  *)
PodStates == {"streaming", "running", "crashloop", "crashloopDiskFull",
              "stopped", "missing"}

(* What the pod list shows of an instance: Running with its first         *)
(* container ready, Running and not ready (a crash loop to the triage),    *)
(* another phase, or no pod at all.                                        *)
Phases == {"ready", "notReady", "pending", "absent"}

VARIABLES
    phase,       \* the phase of each instance's pod
    ctl,         \* the pg_control on each instance's PVC: [tl, lsn]
    collected,   \* triageCollect has run: "no", "ok", or "err"
    cd,          \* controlData per instance: [tl, lsn, hasData, pod]
    comparison,  \* crossInstanceComparison's DataComparison
    assessment,  \* buildAssessments' result per instance
    analyzed     \* triageAnalyze has run

truthVars == <<phase, ctl>>
vars == <<phase, ctl, collected, cd, comparison, assessment, analyzed>>

(* Mutation: "unknown" read as the -1 sentinel the Galera triage uses.     *)
parseTimelineIntSentinel(tl) == IF tl \in DOMAIN TLDigits THEN TLDigits[tl] ELSE -1

parseTimelineInt(tl) == IF tl \in DOMAIN TLDigits THEN TLDigits[tl] ELSE 0

parseLSNValue(lsn) ==
    IF lsn \in DOMAIN LSNWords THEN LSNWords[lsn][1] * LoRange + LSNWords[lsn][2]
    ELSE 0

(* (timeline, LSN) ordered as spec section 4.4 orders freshness.          *)
LexGreater(a, b) == a[1] > b[1] \/ (a[1] = b[1] /\ a[2] > b[2])

(* The freshness of the pg_control really on an instance's PVC.           *)
TrueFresh(i) == <<parseTimelineInt(ctl[i].tl), parseLSNValue(ctl[i].lsn)>>

-----------------------------------------------------------------------------
(* triageCollect: the primary's entry gives primaryTimeline and its        *)
(* controldata; an entry with Source "none" has both values "unknown".      *)
primaryTimeline == cd[Primary].tl
pLSN == cd[Primary].lsn

(* Mutation CompareStepGE: a replica on the running timeline moves
   mostAdvanced and is flagged without an LSN comparison. *)
CompareStepGE(st, i) ==
    IF i = Primary \/ cd[i].tl = Unknown THEN st
    ELSE LET instTL == parseTimelineInt(cd[i].tl) IN
         IF instTL >= st.mostAdvancedTL
         THEN [st EXCEPT !.mostAdvanced = i, !.mostAdvancedTL = instTL,
                         !.mostAdvancedLSN = cd[i].lsn, !.splitBrain = @ \cup {i}]
         ELSE st

(* One iteration of crossInstanceComparison's loop.  mostAdvanced moves    *)
(* only on a higher timeline; a same-timeline LSN lead flags split-brain   *)
(* against the primary's LSN.                                              *)
CompareStep(st, i) ==
    IF i = Primary \/ cd[i].tl = Unknown THEN st
    ELSE LET instTL == parseTimelineInt(cd[i].tl) IN
         IF instTL > st.mostAdvancedTL
         THEN [st EXCEPT !.mostAdvanced = i, !.mostAdvancedTL = instTL,
                         !.mostAdvancedLSN = cd[i].lsn, !.splitBrain = @ \cup {i}]
         ELSE IF /\ instTL = st.mostAdvancedTL
                 /\ cd[i].lsn # Unknown /\ pLSN # Unknown
                 /\ parseLSNValue(cd[i].lsn) > parseLSNValue(pLSN)
         THEN [st EXCEPT !.splitBrain = @ \cup {i}]
         ELSE st

crossInstanceComparison(order) ==
    LET pTL == parseTimelineInt(primaryTimeline)
        res == FoldLeft(CompareStep,
                        [mostAdvanced |-> Primary, mostAdvancedTL |-> pTL,
                         mostAdvancedLSN |-> pLSN, splitBrain |-> {}],
                        order)
    IN [mostAdvanced |-> res.mostAdvanced, mostAdvancedValue |-> res.mostAdvancedTL,
        checkpointLocation |-> res.mostAdvancedLSN, splitBrain |-> res.splitBrain,
        safeToHeal |-> res.splitBrain = {}]

(* buildAssessments' switch for one instance: the branch taken (standing   *)
(* for notes and recommendation) and needsHeal.                            *)
Assess(i, safe) ==
    LET pTL == primaryTimeline
        instTL == cd[i].tl
        instLSNVal == parseLSNValue(cd[i].lsn)
        pLSNVal == parseLSNValue(pLSN)
        sameTL == instTL = pTL /\ instTL # Unknown
        behindTL == instTL # Unknown /\ pTL # Unknown
                    /\ parseTimelineInt(instTL) < parseTimelineInt(pTL)
        behindLSN == sameTL /\ instLSNVal < pLSNVal
        pod == cd[i].pod
        diskFull == pod = "crashloopDiskFull"
    IN CASE i = Primary                        -> [branch |-> "primary", needsHeal |-> FALSE]
         [] ~safe                              -> [branch |-> "splitBrain", needsHeal |-> FALSE]
         [] ~cd[i].hasData                     -> [branch |-> "noData", needsHeal |-> FALSE]
         [] behindTL                           -> [branch |-> "behindTL", needsHeal |-> TRUE]
         [] sameTL /\ behindLSN /\ pod = "streaming" -> [branch |-> "streaming", needsHeal |-> FALSE]
         [] sameTL /\ behindLSN /\ diskFull    -> [branch |-> "diskFull", needsHeal |-> TRUE]
         [] sameTL /\ behindLSN /\ pod = "missing" -> [branch |-> "missing", needsHeal |-> FALSE]
         [] sameTL /\ behindLSN /\ pod = "crashloop" -> [branch |-> "crashloop", needsHeal |-> FALSE]
         [] sameTL /\ behindLSN                -> [branch |-> "notStreaming", needsHeal |-> TRUE]
         [] sameTL                             -> [branch |-> "current", needsHeal |-> FALSE]
         [] OTHER                              -> [branch |-> "timelineUnknown", needsHeal |-> FALSE]

(* The InstanceAssessment appended for an instance: the branch only picks *)
(* notes and a recommendation (text), so NeedsHeal is what is kept.       *)
(* IsRunning and IsReady are not set, so they keep Go's zero value, false. *)
Assessment(a) == [needsHeal |-> a.needsHeal, isRunningReady |-> FALSE]

(* Mutation: the assessments built as if the comparison had found no risk. *)
buildAssessmentsUnsafe(safe) == [i \in Instances |-> Assessment(Assess(i, TRUE))]

buildAssessments(safe) == [i \in Instances |-> Assessment(Assess(i, safe))]

-----------------------------------------------------------------------------
(* triageCollect's pieces.  Data is what pg_controldata can print.        *)
Data == [tl : TLTexts \ {Unknown}, lsn : LSNTexts \ {Unknown}]

Results == [tl : TLTexts, lsn : LSNTexts, hasData : BOOLEAN]

WithPod(e, p) == [tl |-> e.tl, lsn |-> e.lsn, hasData |-> e.hasData, pod |-> p]

Running(i) == phase[i] \in {"ready", "notReady"}

(* parseControlData of output that prints the fields, of output that does  *)
(* not (pg_controldata failed in the probe: Source "pvc_probe" with every  *)
(* field "unknown"), and the Source "none" entry.                          *)
DataEntry(i) == [tl |-> ctl[i].tl, lsn |-> ctl[i].lsn, hasData |-> TRUE]
BlankEntry == [tl |-> Unknown, lsn |-> Unknown, hasData |-> TRUE]
NoneEntry == [tl |-> Unknown, lsn |-> Unknown, hasData |-> FALSE]

(* The instances without exec'd controldata.  Only those whose PVC reads   *)
(* as Bound get a probe; the others get the "none" entry, which a probe    *)
(* can also end in, so all of them are treated as probed.                  *)
probeTargets(healthy) == Instances \ healthy

(* waitAndCollectProbe: at most 30 polls, then the logs whatever the phase *)
(* is: pg_controldata's fields, the error a failed pg_controldata printed, *)
(* or no logs at all (never scheduled, GET or log error), which gives      *)
(* Source "none".                                                          *)
waitAndCollectProbe(i) == {DataEntry(i), BlankEntry, NoneEntry}

(* runPVCProbes: one probe pod per target; a failed Create skips the       *)
(* target, which then gets the "none" entry of an instance never probed.   *)
runPVCProbes(T) ==
    {f \in [T -> Results] : \A i \in T : f[i] \in waitAndCollectProbe(i) \cup {NoneEntry}}

(* The replicas pg_stat_replication can list as "streaming": a replica     *)
(* streams only while its pod and the primary's run, and a standby's       *)
(* checkpoint never passes the primary's.                                  *)
Streamable ==
    {i \in Instances \ {Primary} :
        Running(i) /\ Running(Primary) /\ ~LexGreater(TrueFresh(i), TrueFresh(Primary))}

(* collectReplicationStatus: the application names of the rows in state    *)
(* "streaming", queried only when the primary's pod runs; a failed query   *)
(* is a warning and leaves the list empty.                                 *)
collectReplicationStatus(replOK, rows) == IF Running(Primary) /\ replOK THEN rows ELSE {}

(* What buildAssessments reads of the pod, in the order its switch tests   *)
(* it: in the streaming list, a crash loop (Running, not ready) whose logs *)
(* mention low disk space, no pod (missingInstances), a crash loop, ready, *)
(* or another phase.                                                       *)
podState(i, streaming, diskFull) ==
    CASE i \in streaming                         -> "streaming"
      [] phase[i] = "notReady" /\ i \in diskFull -> "crashloopDiskFull"
      [] phase[i] = "absent"                     -> "missing"
      [] phase[i] = "notReady"                   -> "crashloop"
      [] phase[i] = "ready"                      -> "running"
      [] OTHER                                   -> "stopped"

-----------------------------------------------------------------------------
Entries == [tl : TLTexts, lsn : LSNTexts, hasData : BOOLEAN, pod : PodStates]

TriageTypeOK ==
    /\ phase \in [Instances -> Phases] /\ ctl \in [Instances -> Data]
    /\ collected \in {"no", "ok", "err"}
    /\ cd \in [Instances -> Entries]
    /\ analyzed \in BOOLEAN
    /\ analyzed => /\ comparison.mostAdvanced \in Instances
                   /\ comparison.mostAdvancedValue \in Nat
                   /\ comparison.safeToHeal \in BOOLEAN
                   /\ comparison.splitBrain \subseteq Instances \ {Primary}
                   /\ assessment \in [Instances -> [needsHeal : BOOLEAN,
                                                   isRunningReady : BOOLEAN]]

(* A cluster as the triage can find it: any pod phases and pg_control     *)
(* contents.  A primary pod in another phase and no primary pod lead to    *)
(* the same steps (no exec, a probe, Repair's readiness abort), so only    *)
(* the second is kept.                                                     *)
Init ==
    /\ phase \in {f \in [Instances -> Phases] : f[Primary] # "pending"}
    /\ ctl \in [Instances -> Data]
    /\ collected = "no"
    /\ cd = [i \in Instances |-> WithPod(NoneEntry, "missing")]
    /\ comparison = [mostAdvanced |-> Primary, mostAdvancedValue |-> 0,
                     checkpointLocation |-> Unknown, splitBrain |-> {}, safeToHeal |-> TRUE]
    /\ assessment = [i \in Instances |-> Assessment([branch |-> "primary", needsHeal |-> FALSE])]
    /\ analyzed = FALSE

(* triageCollect: pg_controldata by exec on the ready pods (an exec error  *)
(* skips the pod), probe pods for the rest, the crash-loop pods' logs, and *)
(* the primary's replication rows.  The controlData slice lists each       *)
(* expected instance once, exec'd ones first and probed ones in map order, *)
(* so triageAnalyze may see any order.                                     *)
triageCollect ==
    /\ collected = "no"
    /\ \E healthy \in SUBSET {i \in Instances : phase[i] = "ready"},
          diskFull \in SUBSET {i \in Instances : phase[i] = "notReady"},
          replOK \in BOOLEAN, rows \in SUBSET Streamable :
          \E probed \in runPVCProbes(probeTargets(healthy)) :
             cd' = [i \in Instances |->
                      WithPod(IF i \in healthy THEN DataEntry(i) ELSE probed[i],
                              podState(i, collectReplicationStatus(replOK, rows), diskFull))]
    /\ collected' = "ok"
    /\ UNCHANGED <<truthVars, comparison, assessment, analyzed>>

(* The pod List fails: triageCollect, and Triage, return the error.       *)
triageCollectErr ==
    /\ collected = "no"
    /\ collected' = "err"
    /\ UNCHANGED <<truthVars, cd, comparison, assessment, analyzed>>

(* triageAnalyze: the comparison, then the assessments that read it, over  *)
(* the controlData slice in whatever order triageCollect produced it.      *)
triageAnalyze ==
    /\ collected = "ok" /\ ~analyzed
    /\ \E order \in SetToSeqs(Instances) :
          comparison' = crossInstanceComparison(order)
    /\ assessment' = buildAssessments(comparison'.safeToHeal)
    /\ analyzed' = TRUE
    /\ UNCHANGED <<truthVars, collected, cd>>

Done == (analyzed \/ collected = "err") /\ UNCHANGED vars

Next == triageCollect \/ triageCollectErr \/ triageAnalyze \/ Done

Spec == Init /\ [][Next]_vars

-----------------------------------------------------------------------------
(* A replica the comparison can see ahead of the primary: a known timeline *)
(* above the primary's, or the same one with both LSNs known and its own   *)
(* greater.                                                                *)
VisiblyAhead(i) ==
    /\ i # Primary
    /\ cd[i].tl # Unknown
    /\ \/ parseTimelineInt(cd[i].tl) > parseTimelineInt(primaryTimeline)
       \/ /\ parseTimelineInt(cd[i].tl) = parseTimelineInt(primaryTimeline)
          /\ cd[i].lsn # Unknown /\ pLSN # Unknown
          /\ parseLSNValue(cd[i].lsn) > parseLSNValue(pLSN)

(* I-SAFE: safeToHeal is false exactly when some replica is ahead of the   *)
(* primary, whatever order controlData lists the instances in, although    *)
(* the loop compares each replica against the running mostAdvanced         *)
(* timeline rather than the primary's.                                     *)
SafeToHealIffNoneAhead ==
    analyzed => (comparison.safeToHeal <=> ~\E i \in Instances : VisiblyAhead(i))

(* buildAssessments marks an instance needsHeal only when the cluster is   *)
(* safe to heal, it is not the primary, and the pg_control on its PVC is   *)
(* strictly older than the one on the primary's, whichever execs, probe    *)
(* pods and queries of triageCollect failed: evidence the collection lost  *)
(* never makes a heal wipe the freshest copy.                              *)
NeedsHealOnlyBehind ==
    analyzed =>
        \A i \in Instances : assessment[i].needsHeal =>
            /\ i # Primary
            /\ comparison.safeToHeal
            /\ LexGreater(TrueFresh(Primary), TrueFresh(i))
=============================================================================
