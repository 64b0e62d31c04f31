CONSTANTS
    main = main
    work = work
    m = m
    trace = trace
    w = w
    x = x
    g1 = g1
    g2 = g2
    None = None
    Pool = {main, work, trace}
    Group = {g1, g2}
    Thread = {m, w, x}
    MainThread = m
    Home <- OneThreadEach
    Concurrency <- OneEach
    Task <- FewTask
    Id <- FewId
    Priority <- FewPriority
    Groups <- BothGroups
    Target <- FewTarget
    Inline = {}
    Initial = {1}
    Children <- BothChildren
    Stoppers = {1, 4}
    Binders = {3}
    OnShutdown = {}
    Idlers = {}
    IdlePool <- FewIdlePool
    CountsForIdle = {main, work}
    Persistent = {trace}
    Forces = {}
SPECIFICATION Spec
INVARIANT NothingLeft
CHECK_DEADLOCK FALSE
