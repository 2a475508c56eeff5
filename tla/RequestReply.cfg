SPECIFICATION FairSpec
CONSTANTS
    orch = orch worker = worker expert = expert r1 = r1 r2 = r2
    None = None
    Agents = {orch, worker, expert}
    Kind <- mcKind
    InitReady = {worker, expert}
    Leavers = {expert}
    Requests = {r1, r2}
    By <- mcBy
    To <- mcTo
    Inner = {r2}
    Faults = {"drop", "connect", "raise", "expire"}
    MaxFaults = 1
INVARIANTS TypeOK AnsweredByReply PendingIsAwaited GoneStaysGone
PROPERTIES ImplementsCalls RequestEnds
CHECK_DEADLOCK FALSE
