SPECIFICATION Spec
CONSTANTS
    n1 = n1 n2 = n2 ann = ann bob = bob cyd = cyd grp = grp m1 = m1 m2 = m2
    sa = sa sb = sb sb2 = sb2 sb3 = sb3 sc = sc None = None
    Nodes = {n1, n2}
    Agents = {ann, bob}
    Groups = {}
    Messages = {m1}
    Socks = {sa, sb, sb2}
    NodeOf <- mcNodeOf
    AgentOf <- mcAgentOf
    GroupsOf <- mcGroupsOf
    From <- mcFrom
    To <- mcToDirect
    Qualified <- mcAllQualified
    InitReady = {sa, sb, sb2}
    Faults = {}
    MaxCrashes = 0
INVARIANTS AtMostOnce
CHECK_DEADLOCK FALSE
