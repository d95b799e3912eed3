SPECIFICATION FairSpec
CONSTANTS
    l1 = l1
    l2 = l2
    Loaders = {l1, l2}
    DirOf <- MCDirOf
    MaxWrites = 3
INVARIANT LiveUsable
PROPERTIES ValidatedBeforeApplied EventuallyCurrent
CHECK_DEADLOCK FALSE
