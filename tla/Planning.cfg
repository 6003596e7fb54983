SPECIFICATION Spec
CONSTANTS
    t1 = t1
    t2 = t2
    a1 = a1
    b1 = b1
    a2 = a2
    c = c
    u = u
    w1 = w1
    Nothing = Nothing
    Count = 2
    Tabs <- TwoTabs
    Presets <- ThreePresets
    Named <- OneNamed
    Random <- OneRandom
    Waves <- OneWave
    Files <- TwoFiles
    Start <- OneStore
    Limit <- Few
CONSTRAINT Together
SYMMETRY Symmetric
CHECK_DEADLOCK FALSE
INVARIANTS
    TypeOK
    PlansAcyclic
    GraphAcyclic
    WriterSeesStored
