\* One slot; two builds of one version, with two chunks and with one.
CONSTANTS
    MaxDownloads = 1
    Builds       = {1, 2}
    Versions     = {1}
    VersionOf   <- MCVersionOf
    ChunksOf    <- MCChunksOf
    NoVersion    = NoVersion
    Deleted      = Deleted
    NoRow        = NoRow
    NoFile       = NoFile
    NoMeta       = NoMeta
    NoGame       = NoGame
    Junk         = Junk
SPECIFICATION Spec
CHECK_DEADLOCK FALSE
INVARIANTS
    UnpackedIsOffered
    HealsAfterOneFailure
