CONSTANTS
    a = a
    b = b
    Writer = {w1, w2}
    Reader = {r1}
    Item = {a, b}
    Map = {m1, m2, m3, m4}
    NoMap = NoMap
    NoWriter = NoWriter
    NoRequest = NoRequest
    key <- MCKey
SPECIFICATION Spec
SYMMETRY Symmetry
INVARIANTS
    NoUseAfterFree
    Ownership
    NoLeak
    LookupJustified
PROPERTIES
    UpdatesAtomic
