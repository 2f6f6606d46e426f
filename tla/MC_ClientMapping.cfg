CONSTANTS
    Names = {c1, c2}
    PropKeys = {p1, p2}
    PropValues = {v1}
    Chars <- MCChars
    MaxText = 2
    MaxClientEntries = 3
    VersionWidth = 4
    AccWidth = 6
    None = None
SPECIFICATION Spec
INVARIANTS
    TypeOK
    VersionIsDecimal
    ClientForwarded
PROPERTIES
    ImplementsAbstract
