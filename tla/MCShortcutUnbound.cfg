SPECIFICATION Spec
CONSTANTS
    Rows <- MCRows
    Root = "root"
    Kids <- MCKids
    Queries <- MCQueries
    Heights = {1, 2}
    MaxProjectionCalls = 4
    TreeRows <- MCTreeRows
    TreeRoot = "root"
    NewRow = "n"
    FirstTree <- MCFirstTree
    OtherTree <- MCOtherTree
    Columns <- MCColumns
    Matches <- MCMatches
    MaxTreeSteps = 3
    MaxCommands = 2
    FirstLayout <- MCFirstLayout
    OtherLayout <- MCOtherLayout
    HistoryLimit = 2
    MaxHistorySteps = 4
    GridRows = 3
    FirstColumns <- MCFirstColumns
    ReadOnly = {"s"}
    FirstValues <- MCFirstValues
    NoValue = NoValue
    Unparsable = Unparsable
    UserSelections <- MCSelections
    Pasted <- MCPasted
    MaxCellSteps = 4
    MaxWaiting = 2
    Pointers = {p1, p2}
    NoPointer = NoPointer
    AnyPointer = AnyPointer
    Views <- MCGestureViews
    NoRow = "none"
    MaxPresses = 2
    MaxStrokes = 2
    MaxUpdates = 1
    FirstForest <- MCFirstForest
    Top = 0
    Blank = 0
    Masked = 1000
    NoPayload = NoPayload
    FreshRows <- MCFreshRows
    MaxPendingWrites = 2
    MaxClipSteps = 3
    MaxClipTasks = 2
    Defaults <- MCDefaults
    Offers <- MCOffers
    Presses <- MCPresses
    Abilities <- MCAbilities
    LongestBinding = 2
    Parts = {"shortcuts"}
INVARIANT OverriddenDefaultIsSilent
CHECK_DEADLOCK FALSE
