SPECIFICATION Spec
CONSTANTS
    x = x
    y = y
    x_ = x_
    hi = hi
    blank = blank
    none = none
    Names = {x, y}
    Plain <- PlainNames
    Before = {}
    After = {}
    Nobody = Nobody
    Texts = {hi, blank, none}
    Trim <- TrimTexts
    Empty = none
    MaxCalls = 4
    MaxKills = 2
INVARIANTS
    StoresTypeOK
    FileMatchesMemory
    OnlyBlanksPreventStart
PROPERTY
    RestartRestores
CHECK_DEADLOCK FALSE
