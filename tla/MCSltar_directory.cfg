SPECIFICATION Spec
CONSTANTS
    Paths <- MCPaths
    Root = "."
    Parent <- MCParent
    Source <- MCSource
    ArgLists <- MCArgLists
    Given <- MCGiven
    Unreadable = {"shut"}
    Nameless = {"n"}
    Unwritable = {"w"}
    DirTime = 600
INVARIANT RoundTrip
CHECK_DEADLOCK FALSE
