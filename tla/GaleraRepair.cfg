\* Galera Repair over every evidence bundle of three nodes and every flag
\* combination.
CONSTANTS
    Nodes = {n0, n1, n2}
    None = None
    NoPod = NoPod
    Seqnos <- MCSeqnos
    WsStatuses <- MCWsStatuses
    CrSeqno <- MCCrSeqno
    NoData = NoData

SPECIFICATION RepairSpec
SYMMETRY MCSymmetry

INVARIANT TypeOK
INVARIANT HealGated
INVARIANT DivergedCaptured
INVARIANT RepairOkOnlyIfAllHealed
