SPECIFICATION FairSpec
CONSTANTS
    Numbers <- MCNumbers
    Parts <- MCParts
    Edited = {"aos_cx"}
    Seeded = {"aos_cx"}
    Lists <- MCLists
    Editors = {e1}
    MaxEdits = 1
    Torn = Torn
    NoFile = NoFile
    Drafts = {d}
    Calls = {c1, c2}
    Pushers = {c1}
    Formats = {"cli", "ansible"}
    NeedsTarget = {"ansible"}
    Bodies <- MCBodies
    Filled <- MCFilled
    MCComment = Comment
    Comment = Comment
    NoBody = NoBody
    NoFormat = NoFormat
    BannerVendor = "aos_cx"
    QueueCap = 1
    MaxCalls = 2
CHECK_DEADLOCK FALSE
INVARIANTS TypedIsPermitted  RunsAsPlanned
PROPERTIES PushesEnd
