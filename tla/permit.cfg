SPECIFICATION PolicySpec
CONSTANTS
    Numbers <- MCNumbers
    Parts <- MCParts
    Edited = {"aos_cx", "generic"}
    Seeded = {"aos_cx"}
    Lists <- MCLists
    Editors = {e1, e2}
    MaxEdits = 3
    Torn = Torn
    NoFile = NoFile
CHECK_DEADLOCK FALSE
INVARIANTS EngineIsFile 
