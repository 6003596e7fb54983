\* A retry, a deletion and a crash against the monitor and an enqueueing session.
CHECK_DEADLOCK FALSE
SPECIFICATION FairQueue
CONSTANTS
    k1 = k1  api = api  worker = worker
    s1 = s1  s2 = s2  w1 = w1
    Mails = {1}
    Keys = {k1}
    Pods = {api, worker}
    Fronts = {api}
    Workers = {worker}
    Slots = {s1, s2}
    Home <- SlotHome
    Writers = {w1}
    Desk <- Desks
    Limit <- RetryTwice
    Kinds = 3
    NoKey = NoKey
INVARIANTS QueueTypeOK HandedOnce StatusTellsTheTruth NoStrandedMail
PROPERTY PickedUp
