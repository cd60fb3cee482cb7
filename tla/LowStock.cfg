CONSTANTS
    r1 = r1
    r2 = r2
    w1 = w1
    w2 = w2
    low = low
    high = high
    Thresholds = {low, high}
    Readers = {r1}
    Writers = {w1}
    Ready = Ready
    NoEntry = NoEntry
    Surviving = {low, high}
    MaxVersion = 2
    MaxDrops = 1
    MaxTimeouts = 1
SPECIFICATION FairSpec
INVARIANTS
    TypeOK
    StaleOnlyByRace
PROPERTIES
    StalenessEnds
    RequestsEnd
