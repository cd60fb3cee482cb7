CONSTANTS
    none = none
    Existing = {}
    New = {1}
    PageSize = 1
    Empty = none
    Duration = 1
    MaxPosts = 2
    MaxLost = 1
    MaxChanges = 2
SPECIFICATION Spec
INVARIANTS
    AdjustsWhatIsShown
