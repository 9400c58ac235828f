\* Two sessions in transactions that may hold on to an old Address object and wait
\* for locks; two publications and a daemon that dies once.
SPECIFICATION FairComponents
CONSTANTS
    cd = cd
    g1 = g1
    g2 = g2
    v2010 = v2010
    v2020 = v2020
    census = census
    plan = plan
    s1 = s1
    s2 = s2
    Blank = Blank
    NoSession = NoSession
    Types = {cd}
    Geoids = {g1, g2}
    Vintages = {v2010, v2020}
    Window <- MCWindow
    DecadeDays = 2
    RowInputs <- PairRows
    Today = 3
    Keys <- ServingKeys
    Sessions = {s1, s2}
    Modes <- UpsertOnly
    FreshCallers = FALSE
    Runs = {"r1", "r2"}
    Pipelines = {"addresses", "nces_edge", "qcew"}
    KeysOf <- PubKeysOf
    BronzeInputs <- PubBronze
    MaxCommits = 2
    MaxDeaths = 1
    MaxStarts = 3
CHECK_DEADLOCK FALSE
INVARIANT FairTypeOK
INVARIANT NoForeignGeoid
INVARIANT SubscriberSharesFate
PROPERTY LoneSaveIsCurrent
PROPERTY SavesEnd
PROPERTY ParityMeansMirror
PROPERTY LoneRunPublishesBronze
PROPERTY CommitsAreRequested
