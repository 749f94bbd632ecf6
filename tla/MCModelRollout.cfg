SPECIFICATION FairSpec
CONSTANTS
    Publishers = {p1, p2}
    Versions = {1, 2}
    Bodies <- MCBodies
    Uploads <- MCUploads
    None = None
    Unreadable = Unreadable
    MaxModelBytes = 3
    MaxFaults = 2
    Nodes = {n1}
    Boundary = 1
    Unloadable = {1}
INVARIANTS
    ModelBeforeMeta
    NoRollback
    InstalledUsable
    OnlyNewerFetched
PROPERTIES
    PublishedImmutable
    ConvergesOrLogs
