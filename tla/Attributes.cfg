SPECIFICATION Spec
CONSTANTS
    Entity = {u1}
    Attribute = {first_name, mail, custom}
    Hardcoded = {first_name}
    Virtual = {mail}
    Type = {"String", "Integer"}
    BuiltinType <- StringBuiltins
    NoType = NoType
    Task = {k1, k2}
    MaxNamed = 1
SYMMETRY TaskSymmetry
INVARIANTS
    TypeOK
    HardcodedKept
    ValuesTyped
    ReadersSafe
