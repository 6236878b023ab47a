SPECIFICATION Spec
CONSTANTS
    Bodies <- Pushed
    Pushes = {p1, p2}
    Pulls = {}
    Resumes = {}
    Ranges <- NoRanges
    Inodes = {1, 2, 3, 4, 5}
    MaxUpload = 4
    MaxCrashes = 2
    Serial = TRUE
    p1 = p1
    p2 = p2
INVARIANTS
    TypeOK
    PublishedIsWhole
PROPERTY
    PublishesAtomically
CHECK_DEADLOCK FALSE
