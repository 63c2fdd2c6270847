\* Repair of a primary and two replicas over every triage evidence.
CONSTANTS
    Instances = {p, r1, r2}
    Primary = p
    TLTexts = {"unknown", "1", "2"}
    TLDigits <- MCTLDigits
    LSNTexts = {"unknown", "0/1", "1/0"}
    LSNWords <- MCLSNWords
    LoRange = 2
    None = None
    NoPod = NoPod
SPECIFICATION RepairSpec
SYMMETRY MCSymmetry
INVARIANT TypeOK
INVARIANT SafeToHealIffNoneAhead
INVARIANT NeedsHealOnlyBehind
INVARIANT HealGated
INVARIANT RepairOkOnlyIfAllHealed
