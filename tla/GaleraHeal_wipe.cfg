\* Spec 4.6: grastate.dat is rewritten only after the target pod is gone.
CONSTANTS
    Replicas = 3
    DeletePolls = 2
    HelperPolls = 2
    HealPolls = 2
SPECIFICATION Spec

INVARIANT WipeOnlyWhileDown
