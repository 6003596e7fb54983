CHECK_DEADLOCK FALSE
SPECIFICATION Spec
CONSTANTS
    p1 = p1
    r1 = r1
    r2 = r2
    b1 = b1
    b2 = b2
    s1 = s1
    s2 = s2
    main = main
    api = api
    worker = worker
    NoRef = NoRef
    Pods <- Single
    Fronts <- Single
    Workers <- Single
    Home <- InMain
    Projects <- P1
    JobProject <- JobsOf
    ResProject <- Owner
    Resources <- R2
    Jobs <- OneJob
    JobType <- Migration
    Slots <- S1
    Limit <- Troubled
    Buckets <- B2
    BucketOf <- ByCategory
    Grouped = TRUE
INVARIANTS
    NoOrphanIssue
    

    
