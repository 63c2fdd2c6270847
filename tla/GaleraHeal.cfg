\* healNode on a three-node Galera cluster, every target, with and without
\* the galera config PVC, with any API call failing.
CONSTANTS
    Replicas = 3
    DeletePolls = 2
    HelperPolls = 2
    HealPolls = 2
SPECIFICATION Spec
INVARIANT TypeOK
INVARIANT HelperIsolated
INVARIANT NoLeakAfterReturn
PROPERTY AllReturn
