SPECIFICATION Spec
CONSTANTS
    p1 = p1
    p2 = p2
    o1 = o1
    o2 = o2
    c = c
    d = d
    Procs <- TwoProcs
    Ops <- TwoOps
    Proc <- OneEach
    New = {}
    Conversations = {c}
    Conversation <- SameConversation
    Keeper = keeper
    None = None
    NumTabs = 2
    MaxFaults = 1
PROPERTIES FenceOutlivesTarget
