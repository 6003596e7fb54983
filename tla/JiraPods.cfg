SPECIFICATION Spec
CONSTANTS
    p1 = p1
    r1 = r1
    r2 = r2
    b1 = b1
    b2 = b2
    s1 = s1
    s2 = s2
    main = main
    api = api
    worker = worker
    NoRef = NoRef
    Pods <- Split
    Fronts <- Api
    Workers <- Worker
    Home <- InPods
    Projects <- P1
    JobProject <- JobsOf
    ResProject <- Owner
    Resources <- R1
    Jobs <- OneJob
    JobType <- Migration
    Slots <- S2
    Limit <- CrashRetry
    Buckets <- R1
    BucketOf <- Itself
    Grouped = FALSE
PROPERTIES
    CheckpointsKept
