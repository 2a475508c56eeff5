SPECIFICATION Spec
CONSTANTS
    n1 = n1 n2 = n2 ann = ann bob = bob cyd = cyd grp = grp m1 = m1 m2 = m2
    sa = sa sb = sb sb2 = sb2 sb3 = sb3 sc = sc None = None
    Nodes = {n1, n2}
    Agents = {ann, bob, cyd}
    Groups = {grp}
    Messages = {m1}
    Socks = {sa, sb, sc}
    NodeOf <- mcNodeOf
    AgentOf <- mcAgentOf
    GroupsOf <- mcGroupsOf
    From <- mcFrom
    To <- mcToGroup
    Qualified <- mcAllQualified
    InitReady = {sa, sb, sc}
    Faults = {}
    MaxCrashes = 0
INVARIANTS AllAckedIsDelivered
CHECK_DEADLOCK FALSE
