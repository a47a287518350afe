SPECIFICATION Spec
CONSTANTS
    x = x
    y = y
    x_ = x_
    hi = hi
    blank = blank
    none = none
    Names = {x, x_}
    Plain <- PaddedNames
    Before = {}
    After = {x_}
    Nobody = Nobody
    Texts = {hi, blank, none}
    Trim <- TrimTexts
    Empty = none
    MaxCalls = 4
    MaxKills = 2
INVARIANT
    RemovedFromTheFile
CHECK_DEADLOCK FALSE
