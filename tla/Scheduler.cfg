\* The operator with one database CR, four configs, and up to four CR
\* edits or restarts.  Once the edits are spent the operator may idle.
CONSTANTS
    Keys = {d1}
    Configs <- MCConfigs
    Repos <- MCRepos
    MaxEntryID = 15
    MaxJobs = 1
    MaxEvents = 4
    NotManaged = NotManaged
    NoRepo = NoRepo
    Absent = Absent
    NoPolicy = NoPolicy
    Excluded = Excluded
    PolicyMissing = PolicyMissing

SPECIFICATION Spec
CHECK_DEADLOCK FALSE

INVARIANT TypeOK
INVARIANT EntriesMatchRegistration
INVARIANT RegistrationFollowsCR
PROPERTY DeletedDeregistered
PROPERTY RegistryRefined
