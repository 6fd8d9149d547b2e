SPECIFICATION FairSpec
CONSTANTS
    Records <- AllRecords
    Script <- Full
    Keyed <- KeyedKinds
    Arrivals <- FullArrivals
    PageSize = 2
    MaxCopies = 2
    MaxCut = 2
INVARIANTS CheckedStepsComplete OnlyInterruptedStepsIncomplete NoOtherTwins
PROPERTIES NoSpuriousConflict SeedSettles
