SPECIFICATION Spec
CONSTANTS
    p1 = p1
    r1 = r1
    r2 = r2
    b1 = b1
    b2 = b2
    s1 = s1
    s2 = s2
    main = main
    api = api
    worker = worker
    NoRef = NoRef
    Pods <- Single
    Fronts <- Single
    Workers <- Single
    Home <- InMain
    Projects <- P1
    JobProject <- JobsOf
    ResProject <- Owner
    Resources <- R1
    Jobs <- TwoJobs
    JobType <- ThenOperation
    Slots <- S1
    Limit <- LostRetryEdit
    Buckets <- R1
    BucketOf <- Itself
    Grouped = FALSE
INVARIANTS
    OperationLinksAll
    ProjectMirrorsJob
