CONSTANTS
    a = a
    b = b
    Writer = {w1, w2}
    Reader = {r1}
    Item = {a}
    Map = {m1, m2, m3, m4}
    NoMap = NoMap
    NoWriter = NoWriter
    NoRequest = NoRequest
    key <- MCKey
SPECIFICATION UsersSpec
PROPERTIES
    UpdateReturns
