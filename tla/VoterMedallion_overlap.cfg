\* Two commands at a time; any of them dies and is run again.
SPECIFICATION Spec
CONSTANTS
    w1 = w1
    w2 = w2
    home = home
    away = away
    general = general
    primary = primary
    score = score
    low = low
    high = high
    Workers = {w1, w2}
    Commands <- MCCommands
    Places = {home, away}
    NoPlace = NoPlace
    Elections = {general, primary}
    Generals = {general}
    ScoreTypes = {score}
    Values = {low, high}
    Absent = Absent
    Records <- MCRecords
    NoRecord = NoRecord
    PlaceOf <- MCPlaceOf
    NoAddress = NoAddress
    NoPerson = NoPerson
    NamesSurvive = TRUE
    MaxBronze = 2
INVARIANT TypeOK
INVARIANT VendorSaidSo
INVARIANT CountsTrailHistory
INVARIANT FactsFollowSilver
PROPERTY LinkSurvives
PROPERTY MaterializeMirrors
PROPERTY IngestCounts
SYMMETRY WorkerSymmetry
