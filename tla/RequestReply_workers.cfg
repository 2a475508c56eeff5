SPECIFICATION PatientSpec
CONSTANTS
    orch = orch worker = worker expert = expert r1 = r1 r2 = r2
    None = None
    Agents = {orch, worker, expert}
    Kind <- mcWorkersOnly
    InitReady = {orch, worker, expert}
    Leavers = {}
    Requests = {r1}
    By <- mcByOrch
    To <- mcToWorkers
    Inner = {}
    Faults = {"expire", "raise"}
    MaxFaults = 2
PROPERTIES FallsSilent ArrivedIsAnswered
CHECK_DEADLOCK FALSE
