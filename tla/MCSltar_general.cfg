SPECIFICATION Spec
CONSTANTS
    Paths <- MCPaths
    Root = "."
    Parent <- MCParent
    Source <- MCSource
    ArgLists <- MCArgLists
    Given <- MCGiven
    Unreadable = {"shut"}
    Nameless = {"n"}
    Unwritable = {"w"}
    DirTime = 0
INVARIANT TypeOK
INVARIANT Aligned
INVARIANT Extracted
INVARIANT ListedAll
INVARIANT RoundTrip
PROPERTY OthersKept
PROPERTY Ends
CHECK_DEADLOCK FALSE
