\* A crash, a deletion, a fault and a change against the monitors and an administrator.
CHECK_DEADLOCK FALSE
SPECIFICATION Spec
CONSTANTS
    wave = wave  proj = proj  ms = ms  api = api  worker = worker  desk = desk
    Mails = {1, 2, 3, 4, 5, 6}
    Keys <- AllKeys
    Pods <- ApiAndWorker
    Fronts = {api}
    Workers = {worker}
    Slots = {}
    Home <- InWorker
    Writers <- Sessions
    Desk <- Desks
    Limit <- Once
    Kinds = 1
    NoKey = NoKey
    Waves = {wave}
    Members <- OneWave
    FirstCutover <- DayTwo
    Dates = {2, 3}
    Milestones = {ms}
    TargetDay <- MsDayTwo
    ReminderDays <- TwoDays
    Frequency = 2
    DaySlots = 2
    RunTime = 1
    LastSlot = 5
    FirstRun = 0
    Never = Never
INVARIANTS TypeOK OneRowPerKey CooldownKept
PROPERTY NoReminderMissed
