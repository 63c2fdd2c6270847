\* One healInstance call at a time, as the spec's scheduling model assumes;
\* the operator may crash once during it, and the call is made again.
CONSTANTS
    Workers = {w1}
    Instances = {i1, i2}
    DeleteTimeout = 3
    HealPolls = 2
    ReadyPolls = 2
    MaxCrashes = 1
SPECIFICATION Spec
INVARIANT TypeOK
INVARIANT WipeOnlyWhileFenced
INVARIANT NoLeakAfterReturn
PROPERTY AllReturn
