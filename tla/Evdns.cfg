CONSTANTS
    n1 = n1
    n2 = n2
    u1 = u1
    u2 = u2
    u3 = u3
    home = home
    corp = corp
    NULL = NULL
    Server <- MCServer
    User <- MCUser
    Object = {1, 2, 3, 4, 5}
    TransId = {1, 2, 3, 4, 5, 6, 7, 8}
    Dots <- MCDots
    NoSearch = {u2, u3}
    OnReply <- MCOnReply
    Suspender = {}
    Confs <- MCConfs
    Hostname = home
    SearchDomain = {corp}
    Ndots = {0}
    MaxReissues = 1
    Wraps = FALSE
    Careless = FALSE
    MaxNet = 2
    MaxUpsets = 1
SPECIFICATION FairSpec
INVARIANTS RequestsAccounted DownIsProbed  SearchRefsExact
PROPERTY QueryAnswered
CHECK_DEADLOCK FALSE
