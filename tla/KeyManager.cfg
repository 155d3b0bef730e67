\* The six keys of the server, and two master keys.
CONSTANTS
    KeyCount = 6
    MKs      = {m1, m2}
    OldMK    = OldMK
    NoMK     = NoMK
    NoFile   = NoFile
SPECIFICATION Spec
SYMMETRY Symmetry
INVARIANTS
    TypeOK
    OneGeneration
    LaunchedStaysOpenable
    UnlockedByEnvelopes
