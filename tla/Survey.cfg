SPECIFICATION Spec
CONSTANTS
    d1 = d1
    d2 = d2
    f1 = f1
    Nothing = Nothing
    Devices <- TwoDevices
    Files <- OneFile
    Limit <- Few
CONSTRAINT Together
CHECK_DEADLOCK FALSE
INVARIANTS
    TypeOK
    AnswerKept
PROPERTY FilesStay
