\* One component at a time.
SPECIFICATION ComponentsSpec
CONSTANTS
    cd = cd
    g1 = g1
    g2 = g2
    v2010 = v2010
    v2020 = v2020
    p1 = p1
    p2 = p2
    Blank = Blank
    NoPlan = NoPlan
    Types = {cd}
    Geoids = {g1, g2}
    Vintages = {v2010, v2020}
    Window <- MCWindow
    DecadeDays = 2
    Keys <- MCKeys
    PlanOn <- MCPlanOn
    RowInputs <- DatedRows
    MaxDay = 3
    NoSession = NoSession
    x1 = x1
    x2 = x2
    Callers = {x1, x2}
    NoObject = NoObject
    Amounts <- ObAmounts
    Original = 2
    MaxBalance = 3
    MaxEvents = 3
    Loaders = {x1, x2}
    ORDER <- FecOrder
    ATT_ORDER <- FecAttOrder
    Ids = {"id1"}
    Names = {"n1", "n2"}
    GoldInputs <- FecGold
    MaxCorrections = 1
    NoHub = NoHub
    NoRow = NoRow
    LoadProcs = {x1, x2}
    Commands = {"load_nces_schools", "load_nces_edge", "load_qcew", "load_irs_soi", "load_acs", "load_decennial"}
    Units = {"u1", "u2"}
    InState = {"u1"}
    Listed <- LoadListed
    MaxRelease = 2
    MaxNews = 1
    Computers = {x1, x2}
    Layers = {"county", "vtd"}
    Plots = {"a", "b"}
    Districts = {"d1", "d2"}
    Maps = {1, 2}
    OfPlot <- MapOfPlot
    OfDistrict <- MapOfDistrict
    MinOverlap = 10
    NoOverlapRow = NoOverlapRow
    Workers = {x1, x2}
    Shapes <- AllShapes
    FirstShapes <- EarlyShapes
    Codes = {"06", "06001", "06001400100"}
    UpTo <- PrefixOf
    Years = {2020}
    Tabulated = {"06001400100"}
    Provisions <- Provisioned
    NoDim = NoDim
    Appliers = {x1, x2}
    Residences = {"a1"}
    SourcePlans = {"none", "plan"}
    OldTracts = {"o1", "o2"}
    NewTracts = {"n1", "n2"}
    Crosswalk <- TractCrosswalk
    NoTract = NoTract
    Seeders = {x1, x2}
    VintageKinds = {"acs", "census-decadal"}
    Starts <- SeedStarts
    Shipped <- SeedShipped
    Unreplaced = Unreplaced
    NoEntry = NoEntry
    Builders = {x1, x2}
    Analysts = {"a1"}
    Cycles = {2022}
    MaxIssue = 2
    Parties <- GraphParties
    Loads = {x1, x2}
    VoterFiles <- VoterChunks
    CensusRuns = {x1, x2}
    States <- CensusStates
    Requests <- CensusRequests
    CensusCommands = {"load-census", "download-census"}
    NoLayer = NoLayer
    Fetchers = {x1, x2}
    Sources = {"acs", "census-tiger", "rdh"}
    Editions = {1, 2}
    PortionsOf <- FetchPortions
    PlanPortion <- FetchPlanStates
    PlanName <- FetchPlanNames
    Narrowed = {{"06"}}
    Forced = {2}
    NoUnit = NoUnit
SYMMETRY Symmetry
CHECK_DEADLOCK FALSE
INVARIANT ComponentsTypeOK
INVARIANT TimelineSound
INVARIANT BooksBalance
INVARIANT LinksSound
INVARIANT OneDominantUnlessReloaded
INVARIANT LoadIsAllOrNothing
INVARIANT ExitZeroMeansLoaded
INVARIANT RecordedIsHere
PROPERTY AssigningClearsStaleness
PROPERTY PromiseKept
PROPERTY ReopensOnlyByStaleSave
PROPERTY LoadSettles
PROPERTY ImmutableIdentity
PROPERTY RowsGoForward
PROPERTY ClearedCacheCatchesUp
PROPERTY FullLoadLinks
PROPERTY EstimatesYield
PROPERTY SeededSeriesTile
PROPERTY ReportsOneGraph
