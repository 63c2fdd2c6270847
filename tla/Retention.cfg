\* Group-aware prune of type diverged and all, with restic forget and
\* restic prune failing or not.
CONSTANTS
    Snap = {s1, s2, s3}
    Jobs = {j1, j2}
    NoJob = NoJob
    Times <- MCTimes
    DayOf <- MCDayOf
    WeekOf <- MCWeekOf
    MonthOf <- MCMonthOf
    Policies <- MCPolicies
    PruneTypes = {"backup", "diverged", "all"}
    MaxRetries = 1
SPECIFICATION Spec
SYMMETRY MCSymmetry
INVARIANT TypeOK
INVARIANT RetentionMatchesReference
INVARIANT RepositoryMatchesDecision
INVARIANT NoSplitGroupAfterSuccess
