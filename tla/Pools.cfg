CONSTANTS
    main = main
    work = work
    m = m
    trace = trace
    w = w
    x = x
    g1 = g1
    g2 = g2
    None = None
    Pool = {main, work, trace}
    Group = {g1, g2}
    Thread = {m, w, x}
    MainThread = m
    Home <- OneThreadEach
    Concurrency <- OneEach
    Task <- FewTask
    Id <- FewId
    Priority <- FewPriority
    Groups <- FewGroups
    Target <- FewTarget
    Inline = {3}
    Initial = {1, 3}
    Children <- FewChildren
    Stoppers = {1, 4}
    Binders = {3}
    OnShutdown = {2}
    Idlers = {2, 4}
    IdlePool <- FewIdlePool
    CountsForIdle = {main, work}
    Persistent = {trace}
    Forces = {FALSE, TRUE}
SPECIFICATION FairSpec
INVARIANTS TypeOK TokensAddUp GroupConcurrency NothingLeft
PROPERTIES IdleMeansIdle  IdleTasksRun
CHECK_DEADLOCK FALSE
