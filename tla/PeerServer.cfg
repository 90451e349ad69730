SPECIFICATION Spec
CONSTANTS
    None = None
    Addrs = {a1}
    Tasks = {t1, t2, t3}
    Conns = {c1, c2}
    Requests = {q1, q2}
    Ips = {i1}
    Latencies = {10}
    Word = 32
    MaxRoutes = 1
INVARIANTS PeerInv RoutesFollowSync RemovedIsGone
CHECK_DEADLOCK FALSE
