\* Two workers and the re-embedding script interleave on one document.
SPECIFICATION Spec
CONSTANTS
    i1 = i1
    i2 = i2
    r1 = r1
    d1 = d1
    d2 = d2
    x = x
    y = y
    NoText = NoText
    NoDoc = NoDoc
    Ingesters = {i1, i2}
    Reembedders = {r1}
    Docs = {d1}
    Texts = {x, y}
    MaxModel = 2
    Orderly = TRUE
    MaxEvents = 3
INVARIANTS DocInv SuppressionSticks NoOrphan
PROPERTIES StaysReadable
ACTION_CONSTRAINT TwoAtWork
SYMMETRY Symmetry
