SPECIFICATION Spec
CONSTANTS
    Records <- AllRecords
    Script <- Small
    Keyed <- KeyedKinds
    Arrivals <- SmallArrivals
    PageSize = 2
    MaxCopies = 2
    MaxCut = 4
INVARIANT ReadyMeansComplete
