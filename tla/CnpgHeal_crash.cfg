\* One healInstance call at a time; the operator crashes once during it and
\* the call is made again after the restart.
CONSTANTS
    Workers = {w1}
    Instances = {i1, i2}
    DeleteTimeout = 3
    HealPolls = 2
    ReadyPolls = 2
    MaxCrashes = 1
SPECIFICATION Spec
INVARIANT OrphanWipeOnlyWhileFenced
