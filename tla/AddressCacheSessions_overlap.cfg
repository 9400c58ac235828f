\* Two overlapping transactions whose callers read the Address before each save.
SPECIFICATION Spec
CONSTANTS
    cd = cd
    g1 = g1
    g2 = g2
    v2010 = v2010
    v2020 = v2020
    census = census
    plan = plan
    s1 = s1
    s2 = s2
    Blank = Blank
    NoSession = NoSession
    Types = {cd}
    Geoids = {g1, g2}
    Vintages = {v2010, v2020}
    Window <- MCWindow
    DecadeDays = 2
    RowInputs <- MCRows
    Today = 3
    Keys <- ServingKeys
    Sessions = {s1, s2}
    Modes <- AtomicModes
    FreshCallers = TRUE
INVARIANT CurrentByConstruction
