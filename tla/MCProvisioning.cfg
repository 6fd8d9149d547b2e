SPECIFICATION FairSpec
CONSTANTS
    auth = auth
    core = core
    fs = fs
    Auth = auth
    Verifiers = {core}
    Others = {fs}
    Scripts = {"bootstrap", "deploy"}
    WaitOrder <- AllInOrder
    SeedOrder <- AllInOrder
    Patience = 2
    MaxRemovals = 1
INVARIANTS ReadyMeansConsistent DeployedMeansSeeded
PROPERTIES NothingOverwritten RunsEnd Settles
