SPECIFICATION FairSpec
CONSTANTS
    t1 = t1
    t2 = t2
    s1 = s1
    s2 = s2
    blank = blank
    x1 = x1
    x2 = x2
    Nothing = Nothing
    Tabs <- TwoTabs
    Slots <- TwoSlots
    FirstSlot = s1
    Unplanned = s0
    Texts <- ThreeTexts
    Blank = blank
    Limit <- Few
CHECK_DEADLOCK FALSE
CONSTRAINT InStep
INVARIANTS
    TypeOK
    
    
PROPERTIES
    MeetingKept
    EditsArrive
