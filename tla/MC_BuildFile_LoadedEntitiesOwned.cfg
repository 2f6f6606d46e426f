CONSTANTS
    ToolNames = {t1, t2}
    KnownTools = {t1}
    NodeNames = {n1, n2}
    TargetNames = {g1}
    TaskNames = {k1, k2}
    MaxEntries = 2
    MaxKeys = 2
    MaxItems = 2
    None = None

SPECIFICATION Spec
SYMMETRY MCSymmetry

INVARIANT
    LoadedEntitiesOwned
