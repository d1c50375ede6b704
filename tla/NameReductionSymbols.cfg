\* Every symbol of up to five characters of seven, and functions whose
\* identifiers have up to thirty characters.  When a name is formed nothing is
\* left to do.
SPECIFICATION Spec
CONSTANTS
    MaxLength = 30
    Characters <- TheCharacters
    Symbols <- SomeSymbols
    Functions <- SomeFunctions
    Invalid <- NotFound
    Address <- TheAddress
INVARIANTS
    ScanInRange
    NameIsIdentifier
CHECK_DEADLOCK FALSE
