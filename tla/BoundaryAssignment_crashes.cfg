\* Runs overlap, are repeated and die; the address is geocoded again and again.
SPECIFICATION Spec
CONSTANTS
    state = state
    cd = cd
    sldl = sldl
    s1 = s1
    s2 = s2
    d1 = d1
    d2 = d2
    d3 = d3
    h1 = h1
    v2010 = v2010
    v2020 = v2020
    cp = cp
    hp = hp
    here = here
    there = there
    noplan = noplan
    Blank = Blank
    NoPlan = noplan
    NoLocation = NoLocation
    Types <- MCTypes
    Geoids = {s1, s2, d1, d2, d3, h1}
    Vintages = {v2010, v2020}
    Window <- MCWindow
    DecadeDays = 2
    Keys <- MCKeys
    Locations = {here, there}
    Plans = {cp, hp}
    PlanOf <- MCPlanOf
    Join <- MCJoin
    StateType = state
    Congress = cd
    CensusPlaces = {here}
    NominatimPlaces = {there}
    FipsTypes = {state}
    FipsAnswers <- MCFips
    KeyTypes = {state}
    Mapped <- MCMapped
    NoKey = NoKey
    DefaultYear = 0
    Today = 3
    n1 = n1
    a1 = a1
    a2 = a2
    Geocoders = {n1}
    Assigners = {a1, a2}
    Commands <- RepeatedRuns
INVARIANT GeocodedHasGeom
INVARIANT RowIsOneAssignment
PROPERTY LoneRunSettles
SYMMETRY RunSymmetry
