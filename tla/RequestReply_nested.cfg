SPECIFICATION PatientSpec
CONSTANTS
    orch = orch worker = worker expert = expert r1 = r1 r2 = r2
    None = None
    Agents = {orch, worker, expert}
    Kind <- mcKind
    InitReady = {orch, worker, expert}
    Leavers = {}
    Requests = {r1, r2}
    By <- mcBy
    To <- mcTo
    Inner = {r2}
    Faults = {}
    MaxFaults = 0
PROPERTIES ArrivedIsAnswered
CHECK_DEADLOCK FALSE
