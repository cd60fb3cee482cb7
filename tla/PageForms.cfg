CONSTANTS
    none = none
    Existing = {2}
    New = {1}
    PageSize = 1
    Empty = none
    Duration = 1
    MaxPosts = 2
    MaxLost = 1
    MaxChanges = 2
SPECIFICATION FairSpec
INVARIANTS
    TypeOK
    AdjustedOnce
PROPERTIES
    MessagesStay
    AnswersKeepInput
    HighlightLasts
    SettlesDown
