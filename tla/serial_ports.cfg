SPECIFICATION FairSpec
CONSTANTS
    Nodes = {n1, n2}
    Links = {}
    Handles = {h1, h2}
    Attempts = 2
    NoNode = NoNode
INVARIANTS DevicesHeld HeldHasOneHolder
PROPERTIES ImplementsLease CallsEnd
