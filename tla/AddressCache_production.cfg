\* settings.production: DEBUG is False, the receiver does not survive _connect.
SPECIFICATION Spec
CONSTANTS
    cd = cd
    county = county
    g1 = g1
    g2 = g2
    v2010 = v2010
    v2020 = v2020
    acs = acs
    census = census
    plan = plan
    Blank = Blank
    Types <- MCTypes
    Geoids <- MCGeoids
    Vintages = {v2010, v2020, acs}
    Window <- SurveyWindow
    Keys <- MCKeys
    RowInputs <- MCRows
    DecadeDays = 2
    Debug = FALSE
    DefaultYear = 1
    MaxDay = 2
    MaxNesting = 2
INVARIANT CoherentUnlessExposed
