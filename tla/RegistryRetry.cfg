SPECIFICATION Spec
CONSTANTS
    Bodies <- SameSize
    Pushes = {p1, p2}
    Pulls = {}
    Resumes = {}
    Ranges <- NoRanges
    Inodes = {1, 2, 3, 4, 5}
    MaxUpload = 4
    MaxCrashes = 0
    Serial = FALSE
    p1 = p1
    p2 = p2
INVARIANT
    PublishedIsWhole
CHECK_DEADLOCK FALSE
