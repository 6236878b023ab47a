SPECIFICATION Spec
CONSTANTS
    Processes = {p1, p2, p3}
    Stored <- MCStored
    Built <- MCBuilt
    Registry <- MCRegistry
    Queries <- MCQueries
SYMMETRY Symmetry
INVARIANTS
    TreeIsSound
    ListingIsComplete
    FindsNewest
    ParsesWhatItPrints
CHECK_DEADLOCK FALSE
