\* No symmetry: the action property compares one name's slot across a step.
CONSTANTS
    ToolNames = {t1, t2}
    KnownTools = {t1}
    NodeNames = {n1, n2}
    TargetNames = {g1}
    TaskNames = {k1}
    MaxEntries = 2
    MaxKeys = 2
    MaxItems = 1
    None = None

SPECIFICATION Spec

PROPERTIES
    RegistryIdentity
