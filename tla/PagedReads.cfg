SPECIFICATION FairSpec
CONSTANTS
    Kinds = {"forecasts", "evidence", "matrices"}
    Limits = {0, 1, 2, 3}
    MaxLimit = 2
    MaxInserts = 4
    MaxCrashes = 1
CHECK_DEADLOCK FALSE

    
    
PROPERTIES
    ListingEnds
