SPECIFICATION FairSpec
CONSTANTS
    n1 = n1 n2 = n2 ann = ann bob = bob cyd = cyd grp = grp m1 = m1 m2 = m2
    sa = sa sb = sb sb2 = sb2 sb3 = sb3 sc = sc None = None
    Nodes = {n1, n2}
    Agents = {ann, bob}
    Groups = {}
    Messages = {m1, m2}
    Socks = {sa, sb, sb3}
    NodeOf <- mcNodeOf
    AgentOf <- mcAgentOf
    GroupsOf <- mcGroupsOf
    From <- mcFrom
    To <- mcToDirect
    Qualified <- mcAllQualified
    InitReady = {sa, sb3}
    Faults = {}
    MaxCrashes = 0
INVARIANTS FifoPerConnection StoredIsOnItsWay
PROPERTIES DirectMessageIsSent RejectedOnlyIfDuplicate
CHECK_DEADLOCK FALSE
