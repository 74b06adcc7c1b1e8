CONSTANTS
    Ordinary = {a, b}
    Artifacts = {s, t}
    Hashes = {h1, h2}
    Editable = {a}
    Peers = {}
    Recipes = {{a, b}, {b, s}}
    Disputable = {}
    Readers = {q}
    Workers = {w1, w2}
    MaxVersion = 5
    a = a
    b = b
    s = s
    t = t
    h1 = h1
    h2 = h2
    q = q
    w1 = w1
    w2 = w2
SYMMETRY WorkerSymmetry
SPECIFICATION MCSpec
INVARIANT VerifiedIsCurrent
INVARIANT FusedDraftHasReceipts
PROPERTY AdmitsOnlyServed
CHECK_DEADLOCK FALSE
VIEW WithoutOutbox
