CONSTANTS
    Memories = {m1, m2}
    Gens = {g1, g2}
    Roots = {l1, l2}
    Operators = {o1, o2}
    MaxJobs = 2
    MaxMoves = 2
    MaxReceipts = 2
    MaxCrashes = 1
    m1 = m1
    m2 = m2
    g1 = g1
    g2 = g2
    l1 = l1
    l2 = l2
    o1 = o1
    o2 = o2
SPECIFICATION MCSpec
SYMMETRY Sym
INVARIANT SelectedIsSound
INVARIANT LiveViewIsOwed
PROPERTY SwitchCoversSource
CHECK_DEADLOCK FALSE
