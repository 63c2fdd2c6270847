\* Two healInstance calls on the same cluster at once, as overlapping
\* scheduled auto-repairs (or a CLI repair next to one) produce.
CONSTANTS
    Workers = {w1, w2}
    Instances = {i1, i2}
    DeleteTimeout = 2
    HealPolls = 1
    ReadyPolls = 1
    MaxCrashes = 0
SPECIFICATION Spec
SYMMETRY MCSymmetry
INVARIANT WipeOnlyWhileFenced
