------------------------------- MODULE Retention ------------------------------
(***************************************************************************)
(* Snapshot retention of `hasteward prune` (src/controller/               *)
(* triage_scheduler.go, pruneCmd): restic's own forget for type=backup     *)
(* snapshots and the group-aware ForgetGrouped of src/restic/restore.go    *)
(* for type=diverged snapshots, with GroupByJob and ApplyGroupRetention as *)
(* operators.                                                              *)
(*                                                                         *)
(* A snapshot is a model value; its type tag, job tag and time are chosen  *)
(* in Init.  Time is a tick; DayOf, WeekOf and MonthOf stand for the UTC   *)
(* "2006-01-02", ISO year-week and "2006-01" keys the code formats, and    *)
(* only their equality and their order matter to the code.                 *)
(***************************************************************************)
EXTENDS Naturals, Sequences, FiniteSets, SequencesExt

CONSTANTS
    Snap,           \* snapshot ids in the repository
    Jobs,           \* values of the job=<JOBID> tag
    NoJob,          \* a snapshot without a job tag
    Times,          \* snapshot times (ticks)
    DayOf(_), WeekOf(_), MonthOf(_),
    Policies,       \* RetentionPolicy values the prune flags can give
    PruneTypes,     \* values of --type
    MaxRetries      \* how often a failed prune command is run again

ASSUME NoJob \notin Jobs /\ MaxRetries \in Nat
ASSUME \A t, u \in Times : t <= u =>
          DayOf(t) <= DayOf(u) /\ WeekOf(t) <= WeekOf(u) /\ MonthOf(t) <= MonthOf(u)

VARIABLES
    kind,       \* type tag of each snapshot: "backup" or "diverged"
    job,        \* job tag of each snapshot, NoJob when absent
    time,       \* time of each snapshot
    repo,       \* snapshots present in the repository
    policy,     \* the RetentionPolicy of this prune
    pruneType,  \* --type of this prune
    pc,         \* where pruneCmd is
    order,      \* GroupByJob's result: job groups, newest first
    decision,   \* ApplyGroupRetention's result [keep, remove]
    queue,      \* snapshots ForgetGrouped still has to forget
    removeCount,\* ForgetGrouped's removeCount
    unpruned,   \* snapshots were forgotten and no prune has run since
    result,     \* "none" while running, then "ok" or "err"
    retries     \* runs of the prune command after the first

vars == <<kind, job, time, repo, policy, pruneType, pc, order, decision,
          queue, removeCount, unpruned, result, retries>>

-----------------------------------------------------------------------------
(* GroupByJob: snapshots sharing a job tag form one group; a snapshot      *)
(* without one is a group of its own ("ungrouped-" + ShortID).             *)
JobGroupOf(s, S) == IF job[s] = NoJob THEN {s} ELSE {t \in S : job[t] = job[s]}

GroupsOf(S) == {JobGroupOf(s, S) : s \in S}

(* A group's Time is that of its first member; all members of a job share  *)
(* the job-start time (BackupStdin --time jobTime).                        *)
GroupTime(g) == time[CHOOSE s \in g : TRUE]

(* sort.Slice by Time descending is not stable, and the groups come from a *)
(* Go map: groups with equal times may end up in any order.                *)
GroupByJob(S) ==
    {o \in SetToSeqs(GroupsOf(S)) :
        \A i \in 1..Len(o) - 1 : GroupTime(o[i]) >= GroupTime(o[i + 1])}

AllZero(p) == p.keepLast = 0 /\ p.keepDaily = 0 /\ p.keepWeekly = 0 /\ p.keepMonthly = 0

(* keepLast: mark the first N groups.                                      *)
KeepLastMarks(gs, n) == {gs[i] : i \in 1..IF n < Len(gs) THEN n ELSE Len(gs)}

(* The key a window compares: the UTC day, the ISO year-week, the month.    *)
KeyOf(win, t) ==
    CASE win = "daily" -> DayOf(t)
      [] win = "weekly" -> WeekOf(t)
      [] win = "monthly" -> MonthOf(t)

(* The daily / weekly / monthly loop: walk the groups newest first; on a   *)
(* key different from the last one seen, count it, stop once the count     *)
(* exceeds N, else mark the group.                                         *)
(* Mutation: the break tests the count before counting the new key.      *)
RECURSIVE WindowMarksLate(_, _, _, _, _)
WindowMarksLate(gs, win, n, lastKey, seen) ==
    IF gs = <<>> THEN {}
    ELSE LET g == Head(gs)
             k == KeyOf(win, GroupTime(g))
         IN IF k = lastKey THEN WindowMarksLate(Tail(gs), win, n, lastKey, seen)
            ELSE IF seen > n THEN {}
            ELSE {g} \cup WindowMarksLate(Tail(gs), win, n, k, seen + 1)

RECURSIVE WindowMarks(_, _, _, _, _)
WindowMarks(gs, win, n, lastKey, seen) ==
    IF gs = <<>> THEN {}
    ELSE LET g == Head(gs)
             k == KeyOf(win, GroupTime(g))
         IN IF k = lastKey THEN WindowMarks(Tail(gs), win, n, lastKey, seen)
            ELSE IF seen + 1 > n THEN {}
            ELSE {g} \cup WindowMarks(Tail(gs), win, n, k, seen + 1)

NoKey == -1

KeepSet(gs, p) ==
    (IF p.keepLast > 0 THEN KeepLastMarks(gs, p.keepLast) ELSE {})
    \cup (IF p.keepDaily > 0 THEN WindowMarks(gs, "daily", p.keepDaily, NoKey, 0) ELSE {})
    \cup (IF p.keepWeekly > 0 THEN WindowMarks(gs, "weekly", p.keepWeekly, NoKey, 0) ELSE {})
    \cup (IF p.keepMonthly > 0 THEN WindowMarks(gs, "monthly", p.keepMonthly, NoKey, 0) ELSE {})

(* ApplyGroupRetention: empty input gives nothing, an all-zero policy      *)
(* keeps everything, else the keep set and the rest.                        *)
ApplyGroupRetention(gs, p) ==
    IF gs = <<>> THEN [keep |-> {}, remove |-> {}]
    ELSE IF AllZero(p) THEN [keep |-> ToSet(gs), remove |-> {}]
    ELSE [keep |-> {g \in ToSet(gs) : g \in KeepSet(gs, p)},
          remove |-> {g \in ToSet(gs) : g \notin KeepSet(gs, p)}]

(* The order ForgetGrouped forgets snapshots in: group by removed group in *)
(* GroupByJob order, then member by member.                                *)
(* Mutation: one forget per removed group, of its first member only.       *)
ForgetOrderFirstOnly(gs, removed) ==
    [j \in 1..Cardinality(removed) |->
        SetToSeq(SelectSeq(gs, LAMBDA g : g \in removed)[j])[1]]

ForgetOrder(gs, removed) ==
    FlattenSeq(SelectSeq([i \in 1..Len(gs) |-> SetToSeq(gs[i])],
                         LAMBDA m : ToSet(m) \in removed))

-----------------------------------------------------------------------------
Results == [keep : SUBSET SUBSET Snap, remove : SUBSET SUBSET Snap]

TypeOK ==
    /\ kind \in [Snap -> {"backup", "diverged"}]
    /\ job \in [Snap -> Jobs \cup {NoJob}]
    /\ time \in [Snap -> Times]
    /\ repo \subseteq Snap
    /\ policy \in Policies
    /\ pruneType \in PruneTypes
    /\ pc \in {"backupForget", "list", "forget", "prune", "done"}
    /\ order \in Seq(SUBSET Snap)
    /\ decision \in Results
    /\ queue \in Seq(Snap)
    /\ removeCount \in 0..Cardinality(Snap)
    /\ unpruned \in BOOLEAN
    /\ result \in {"none", "ok", "err"}
    /\ retries \in 0..MaxRetries

(* A repository the code can produce: only diverged captures carry a job   *)
(* tag, and every capture of one job has the job-start time.               *)
Init ==
    /\ kind \in [Snap -> {"backup", "diverged"}]
    /\ job \in {f \in [Snap -> Jobs \cup {NoJob}] :
                   \A s \in Snap : kind[s] = "backup" => f[s] = NoJob}
    /\ time \in {f \in [Snap -> Times] :
                   \A s, t \in Snap : job[s] = job[t] /\ job[s] # NoJob => f[s] = f[t]}
    /\ repo = Snap
    /\ policy \in Policies
    /\ pruneType \in PruneTypes
    /\ pc = "backupForget"
    /\ order = <<>>
    /\ decision = [keep |-> {}, remove |-> {}]
    /\ queue = <<>>
    /\ removeCount = 0
    /\ unpruned = FALSE
    /\ result = "none"
    /\ retries = 0

Finish(r) == result' = r /\ pc' = "done"

Diverged(S) == {s \in S : kind[s] = "diverged"}

(* pruneCmd, type backup or all: restic forget --tag type=backup with the  *)
(* keep-* flags, and --prune only when the type is "backup".  Which        *)
(* snapshots restic's own policy removes is restic's choice.               *)
BackupForget ==
    /\ pc = "backupForget"
    /\ pruneType \in {"backup", "all"}
    /\ \/ /\ Finish("err")
          /\ UNCHANGED <<repo, unpruned>>
       \/ \E R \in SUBSET {s \in repo : kind[s] = "backup"} :
             /\ repo' = repo \ R
             /\ unpruned' = (pruneType # "backup" /\ (unpruned \/ R # {}))
             /\ IF pruneType = "backup" THEN Finish("ok")
                ELSE pc' = "list" /\ UNCHANGED result
    /\ UNCHANGED <<retries, kind, job, time, policy, pruneType, order, decision, queue,
                   removeCount>>

SkipBackupForget ==
    /\ pc = "backupForget"
    /\ pruneType = "diverged"
    /\ pc' = "list"
    /\ UNCHANGED <<retries, kind, job, time, repo, policy, pruneType, order, decision,
                   queue, removeCount, unpruned, result, retries>>

(* ForgetGrouped: list the type=diverged snapshots (an error returns),     *)
(* GroupByJob, ApplyGroupRetention.                                        *)
ListDiverged ==
    /\ pc = "list"
    /\ \/ /\ Finish("err")
          /\ UNCHANGED <<order, decision, queue>>
       \/ \E o \in GroupByJob(Diverged(repo)) :
             /\ order' = o
             /\ decision' = ApplyGroupRetention(o, policy)
             /\ queue' = ForgetOrder(o, decision'.remove)
             /\ pc' = "forget"
             /\ UNCHANGED result
    /\ UNCHANGED <<retries, kind, job, time, repo, policy, pruneType, removeCount, unpruned>>

(* ForgetGrouped: one `restic forget <id>`; the first error returns.       *)
(* Mutation: the forget loop never advances past the current snapshot.     *)
ForgetSnapshotNoAdvance ==
    /\ pc = "forget"
    /\ queue # <<>>
    /\ \/ /\ repo' = repo \ {Head(queue)}
          /\ removeCount' = removeCount + 1
          /\ unpruned' = TRUE
          /\ UNCHANGED <<pc, result, queue>>
       \/ /\ Finish("err")
          /\ UNCHANGED <<repo, queue, removeCount, unpruned>>
    /\ UNCHANGED <<retries, kind, job, time, policy, pruneType, order, decision>>

ForgetSnapshot ==
    /\ pc = "forget"
    /\ queue # <<>>
    /\ \/ /\ repo' = repo \ {Head(queue)}
          /\ queue' = Tail(queue)
          /\ removeCount' = removeCount + 1
          /\ unpruned' = TRUE
          /\ UNCHANGED <<pc, result>>
       \/ /\ Finish("err")
          /\ UNCHANGED <<repo, queue, removeCount, unpruned>>
    /\ UNCHANGED <<retries, kind, job, time, policy, pruneType, order, decision>>

(* ForgetGrouped is called with prune = true; it prunes only when it      *)
(* removed something itself.                                               *)
ForgetDone ==
    /\ pc = "forget"
    /\ queue = <<>>
    /\ IF removeCount > 0 THEN pc' = "prune" /\ UNCHANGED result
                          ELSE Finish("ok")
    /\ UNCHANGED <<retries, kind, job, time, repo, policy, pruneType, order, decision,
                   queue, removeCount, unpruned>>

Prune ==
    /\ pc = "prune"
    /\ \/ Finish("ok") /\ unpruned' = FALSE
       \/ Finish("err") /\ UNCHANGED unpruned
    /\ UNCHANGED <<retries, kind, job, time, repo, policy, pruneType, order, decision,
                   queue, removeCount>>

(* The same prune command run again after it failed: a fresh pruneCmd,   *)
(* with the same flags, on the repository the failed run left behind.     *)
Rerun ==
    /\ pc = "done" /\ result = "err"
    /\ retries < MaxRetries
    /\ retries' = retries + 1
    /\ pc' = "backupForget" /\ result' = "none"
    /\ order' = <<>> /\ decision' = [keep |-> {}, remove |-> {}]
    /\ queue' = <<>> /\ removeCount' = 0
    /\ UNCHANGED <<kind, job, time, repo, policy, pruneType, unpruned>>

Terminated == pc = "done" /\ UNCHANGED vars

Next ==
    \/ BackupForget \/ SkipBackupForget \/ ListDiverged
    \/ ForgetSnapshot \/ ForgetDone \/ Prune \/ Rerun \/ Terminated

Spec == Init /\ [][Next]_vars /\ WF_vars(Next)

-----------------------------------------------------------------------------
(* Reference retention, as spec section 4.3 states it: keep the first      *)
(* keepLast groups, and for each window the newest group of each of the    *)
(* keepDaily (weekly, monthly) newest distinct keys; all-zero keeps all.   *)
KeysUpTo(gs, win, i) == {KeyOf(win, GroupTime(gs[m])) : m \in 1..i}

NewestOfKey(gs, win, i) ==
    \A m \in 1..i - 1 : KeyOf(win, GroupTime(gs[m])) # KeyOf(win, GroupTime(gs[i]))

RefWindow(gs, win, n) ==
    {gs[i] : i \in {j \in 1..Len(gs) :
                      NewestOfKey(gs, win, j) /\ Cardinality(KeysUpTo(gs, win, j)) <= n}}

RefKeep(gs, p) ==
    IF AllZero(p) THEN ToSet(gs)
    ELSE {gs[i] : i \in 1..p.keepLast \cap DOMAIN gs}
         \cup RefWindow(gs, "daily", p.keepDaily)
         \cup RefWindow(gs, "weekly", p.keepWeekly)
         \cup RefWindow(gs, "monthly", p.keepMonthly)

(* ApplyGroupRetention's loops (keepLast's early break, the window walks   *)
(* that count distinct keys and break past N) decide exactly what the      *)
(* reference decides for the order GroupByJob produced, and kept and       *)
(* removed partition the groups.                                           *)
RetentionMatchesReference ==
    /\ decision.keep = RefKeep(order, policy)
    /\ decision.remove = ToSet(order) \ decision.keep

(* After a prune returns success, the diverged snapshots left in the       *)
(* repository are exactly the members of the groups ApplyGroupRetention    *)
(* kept: every removed group is gone entirely, no kept one is touched.     *)
RepositoryMatchesDecision ==
    result = "ok" /\ pruneType # "backup" =>
        Diverged(repo) = UNION decision.keep

(* The snapshots of a job: the diverged captures of one repair.            *)
JobMembers(j) == {s \in Snap : job[s] = j}

(* A job group some of whose captures are gone and some are not.           *)
SplitGroup(j) == JobMembers(j) \cap repo # {} /\ ~(JobMembers(j) \subseteq repo)

(* No two job groups of the diverged snapshots share a time, so the order *)
(* GroupByJob sorts them in does not depend on the Go map's iteration.     *)
DistinctGroupTimes ==
    \A s, t \in Diverged(Snap) :
        time[s] = time[t] => s = t \/ (job[s] = job[t] /\ job[s] # NoJob)

(* ForgetGrouped returns at the first failed `restic forget`, which can    *)
(* leave a job group half forgotten; the next run of the same prune sees   *)
(* the remainder as a smaller group of the same time.  Once a prune has    *)
(* succeeded, no job group is split in the repository: the retried        *)
(* retention decision removes the remainder as it removed the group.  With *)
(* two groups of one time the retry may order them the other way, keep the *)
(* remainder and remove the group the first run kept, so the property is  *)
(* stated for distinct group times.                                        *)
NoSplitGroupAfterSuccess ==
    result = "ok" /\ DistinctGroupTimes => \A j \in Jobs : ~SplitGroup(j)
=============================================================================
