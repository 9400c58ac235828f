\* Rows without a context date, as apply_crosswalks writes them: their place in the history.
SPECIFICATION Spec
CONSTANTS
    cd = cd
    g1 = g1
    g2 = g2
    v2010 = v2010
    v2020 = v2020
    p1 = p1
    p2 = p2
    Blank = Blank
    NoPlan = NoPlan
    Types = {cd}
    Geoids = {g1, g2}
    Vintages = {v2010, v2020}
    Window <- MCWindow
    DecadeDays = 2
    Keys <- MCKeys
    PlanOn <- MCPlanOn
    RowInputs <- UndatedRows
    MaxDay = 3
INVARIANT UndatedSortLast
