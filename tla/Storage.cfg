SPECIFICATION FairSpec
CONSTANTS
    Keys <- SomeKeys
    Prefixes <- SomePrefixes
    Starts <- LongerNames
    Ids <- SomeIds
    Order <- SomeOrder
    PageSize = 2
    MaxSaves = 1
INVARIANTS TypeOK
PROPERTIES ReturnedMeansGone DeletesOnlyUnderPrefix DeletionEnds
