SPECIFICATION FairSpec
CONSTANTS
    Convs = {a, b}
    Turns = {t1, t2}
    Calls = {k1, k2}
    Commands = {show, get}
    Linux = {}
    Mutating = {}
    ClickOnly = {get}
    MaxRound = 2
    Overlapping = {t2}
    NoConv = NoConv
    NoTurn = NoTurn
    NoCommand = NoCommand
INVARIANTS SentWasGated CancelHolds PromptsAgree
PROPERTIES AbortEndsTurn
