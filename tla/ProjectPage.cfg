SPECIFICATION Spec
CONSTANTS
    gbi = gbi
    pml = pml
    g1 = g1
    p2 = p2
    p1 = p1
    e1 = e1
    Nothing = Nothing
    Users <- TwoUsers
    RoleOf <- TheirRoles
    Handlers <- ThreeHandlers
    UserOf <- TheirUsers
    MayDo <- TheirTasks
    GbiRole = "gbi_champion"
    JiraOn = TRUE
    Edits <- OneEdit
    Limit <- Few
CHECK_DEADLOCK FALSE
INVARIANTS
    TypeOK
    
    
    NoPhantomEdit
PROPERTIES
    UndoneOnlyByRepeat
