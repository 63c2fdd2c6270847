\* BackupDump (four writes) and restoreDump (two writes, a primary and one
\* replica) side by side, every actor able to fail.  A failed restic in the
\* backup or a failed psql in the restore leaves a goroutine blocked for
\* ever, so the state graph has real dead ends.
CONSTANTS
    NativePolls = 2
    Chunks = 4
    Instances = {p, r1}
    Primary = p
    RChunks = 2
SPECIFICATION Spec
CHECK_DEADLOCK FALSE
INVARIANT TypeOK
INVARIANT BackupOkOnlyIfComplete
INVARIANT RestoreOkOnlyIfComplete
INVARIANT NoFenceLeakAfterReturn
PROPERTY ReturnsUnlessResticFails
PROPERTY RestoreReturnsUnlessPsqlFails
