SPECIFICATION Spec
CONSTANTS
    p1 = p1
    p2 = p2
    Pids = {p1, p2}
    Workers = 2
    Releases <- MCReleases
    Confs <- MCConfs
    Keys = {"k1", "k2"}
    MaxRequests = 2
    MaxDeaths = 2
    MaxBoots = 2
    MaxKeyFiles = 1
INVARIANTS AggregatesExact ScrapeBracketed NoGhosts OwnMetric KeyReadInLife
SYMMETRY PidSymmetry
CHECK_DEADLOCK FALSE
