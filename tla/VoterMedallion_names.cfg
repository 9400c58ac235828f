\* The names of the columns as pandas gives them.
SPECIFICATION Spec
CONSTANTS
    w1 = w1
    w2 = w2
    home = home
    away = away
    general = general
    primary = primary
    score = score
    low = low
    high = high
    Workers = {w1}
    Commands <- MCCommands
    Places = {home, away}
    NoPlace = NoPlace
    Elections = {general, primary}
    Generals = {general}
    ScoreTypes = {score}
    Values = {low, high}
    Absent = Absent
    Records <- MCRecords
    NoRecord = NoRecord
    PlaceOf <- MCPlaceOf
    NoAddress = NoAddress
    NoPerson = NoPerson
    NamesSurvive = FALSE
    MaxBronze = 2
PROPERTY AppendsOnReload
