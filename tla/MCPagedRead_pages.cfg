SPECIFICATION Spec
CONSTANTS
    PageSize = 2
    Shapes = {"list", "results", "standard"}
    MaxRecords = 5
INVARIANTS OneMissPerDeletion OneRepeatPerInsertion
