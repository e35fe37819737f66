SPECIFICATION FairSpec
CONSTANTS
    p1 = p1
    p2 = p2
    o1 = o1
    o2 = o2
    c = c
    d = d
    Procs = {p1}
    Ops <- TwoOps
    Proc <- OnOne
    New = {o1}
    Conversations = {c, d}
    Conversation <- TwoConversations
    Keeper = keeper
    None = None
    NumTabs = 2
    MaxFaults = 1
INVARIANTS OneTabPerProcess NeverReusesUnsettled
PROPERTIES EveryLeaseEnds
