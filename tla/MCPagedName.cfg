SPECIFICATION Spec
CONSTANTS
    PageSize = 7
    PageMod = 6
    MaxFields = 2
    Names <- MCNames
    Texts <- MCTexts
    MsgId = 13
INVARIANT GeneratedAlwaysReadsBack
CHECK_DEADLOCK FALSE
