\* No symmetry: the refinement compares each name's slot across a step.
CONSTANTS
    ToolNames = {t1, t2}
    KnownTools = {t1}
    NodeNames = {n1, n2}
    TargetNames = {g1}
    TaskNames = {k1}
    MaxEntries = 2
    MaxKeys = 1
    MaxItems = 2
    None = None

SPECIFICATION Spec

PROPERTIES
    ImplementsRegistry
