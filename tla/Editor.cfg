SPECIFICATION Spec
CONSTANTS
    a = a
    b = b
    t = t
    Nobody = Nobody
    Columns <- TwoColumns
    Tabs <- OneTabs
    Start <- Documents
    Limit <- Few
CHECK_DEADLOCK FALSE
INVARIANTS
    TypeOK
    
    
