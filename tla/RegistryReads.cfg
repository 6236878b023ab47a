SPECIFICATION Spec
CONSTANTS
    Bodies <- Read
    Pushes = {p1, p2}
    Pulls = {r1}
    Resumes = {r2}
    Ranges <- MCRanges
    Inodes = {1, 2, 3, 4, 5, 6}
    MaxUpload = 4
    MaxCrashes = 0
    Serial = TRUE
    p1 = p1
    p2 = p2
    r1 = r1
    r2 = r2
INVARIANTS
    ResponseFromOneImage
    CalmReadsAreExact
CHECK_DEADLOCK FALSE
