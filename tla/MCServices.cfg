SPECIFICATION Spec
CONSTANTS
    Radix = 3
    KeyBytes = 2
    Ids <- MCIds
    Materials <- MCMaterials
    Values <- MCValues
    Refused <- MCRefused
    Codes <- MCCodes
    Canonical <- MCCanonical
    Inputs <- MCInputs
    Sides <- MCSides
    PatchKeys <- MCPatchKeys
    FirstNodes <- MCFirstNodes
    MaximumDepth = 3
    MaxEntries = 2
    MaxBytes = 2
    MaxBatch = 2
    MaxRevisions = 4
    MaxCommands = 2
    CyclicMoves = FALSE
    LazyParents = {"a", "b"}
    PageCount <- MCPageCount
    NoParent = "none"
    MaxSourceMoves = 2
    MaxReads = 2
    MaxReloads = 1
    BookRows <- MCBookRows
    Top = "top"
    FirstBook <- MCBook
    BookFields = {"name", "in", "level"}
    Locked = {}
    FirstShown <- MCShown
    Imports <- MCImports
    Exports <- MCExports
    Answers <- MCAnswers
    levelOf <- MCLevels
    Blank = ""
    MaxExchangeSteps = 3
    Listeners = {"l", "m", "n"}
    EventTypes = {"beforeEdit", "editChanged"}
    Cancellable = {"beforeEdit"}
    NoListener = "none"
    MaxSequence = 2
    MaxHubCalls = 4
    Kinds = {"timeout", "worker-task"}
    MaxResources = 4
    Letter = Letter
    Comma = Comma
    Tab = Tab
    Cr = Cr
    Lf = Lf
    Quote = Quote
    High = High
    Low = Low
    NoGrid = NoGrid
    MaxTextBytes = 10
    MaxRows = 3
    MaxColumns = 2
    MaxCells = 4
    MaxCellBytes = 4
    MaxUnits = 5
    Grids <- MCGrids
    Offers <- MCOffers
    InitialOffers <- MCInitialOffers
    EngineVersion <- MCEngineVersion
    HostAbis <- MCHostAbis
    SupportedCapabilities = {"validate", "command"}
    MaxPluginCalls = 4
    Impacts <- MCImpacts
    Retained = 1
    MaxProposalSteps = 6
    MaxDecisions = 2
    Parts = {"engine", "reads", "exchange", "events", "registry", "text", "plugins", "proposals"}
INVARIANTS
    IndexesAgree
    HistoryApplies
    PagesFitTheirDocument
    ExportIsOneDocument
    EventIsHeardOnce
    EachResourceIsCleanedOnce
    StreamParsesTheSame
    PluginsAndReportsAgree
    ProposalsHitTheirDocument
PROPERTY ImportsAsAsked
CHECK_DEADLOCK FALSE
