SPECIFICATION Spec
CONSTANTS
    search = "search"
    clock = "clock"
    NoCall = NoCall
    Budget = 6
    Nested = {"marked"}
    Schemas <- MCSchemas
    Depth <- MCDepth
    Registry <- MCRegistry
    Wants <- MCWants
    Preambles <- MCPreambles
    Writings <- MCWritings
    Tools <- MCTools
    Answers <- MCAnswers
    Turns = 3
    Length = 7
INVARIANTS
    Alternates
    NothingIsLost
    NoEcho
    ScanCovers
    ToolsAreOffered
CHECK_DEADLOCK FALSE
