CONSTANTS
    r1 = r1
    r2 = r2
    w1 = w1
    w2 = w2
    low = low
    high = high
    Thresholds = {low, high}
    Readers = {r1, r2}
    Writers = {w1}
    Ready = Ready
    NoEntry = NoEntry
    Surviving = {}
    MaxVersion = 2
    MaxDrops = 0
    MaxTimeouts = 0
SPECIFICATION Spec
PROPERTIES
    ReadYourWrites
