SPECIFICATION TrustSpec
CONSTANTS
    Hosts = {a}
    Keys = {1, 2}
    Handlers = {c1, c2}
    NoKey = 0
    NoHost = NoHost
SYMMETRY MCSymmetry
INVARIANTS KeysPermitted PlainOpenUsesPin
