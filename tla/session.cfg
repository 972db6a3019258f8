SPECIFICATION FairSpec
CONSTANTS
    Sids = {s1}
    Ports = {p1}
    Callers = {c1, c2}
    RingCap = 2
    MaxChunks = 6
    InteractiveMax = 1
    CoalesceMax = 3
    NoSid = NoSid
INVARIANTS EventsAgree PortsAreKept OutputOrdered
PROPERTIES NothingStaysBehind ClosesEnd
