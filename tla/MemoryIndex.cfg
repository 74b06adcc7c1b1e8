CONSTANTS
    Ordinary = {a, b}
    Artifacts = {s}
    Hashes = {h1, h2}
    Editable = {a}
    Peers = {}
    Recipes = {{a, b}}
    Disputable = {a}
    Readers = {}
    MaxVersion = 4
    Replayers = {r1, r2}
    MaxTries = 2
    MaxFaults = 1
    a = a
    b = b
    s = s
    h1 = h1
    h2 = h2
    NoRow = NoRow
    r1 = r1
    r2 = r2
SPECIFICATION MCSpec
INVARIANT OrdinaryRowIsOwed
INVARIANT SynthesisRowIsOwed
PROPERTY IndexCatchesUp
CHECK_DEADLOCK FALSE
