\* The corpus comes to have the active embedding model.
SPECIFICATION FairSpec
CONSTANTS
    i1 = i1
    i2 = i2
    r1 = r1
    d1 = d1
    d2 = d2
    x = x
    y = y
    NoText = NoText
    NoDoc = NoDoc
    Ingesters = {i1}
    Reembedders = {}
    Docs = {d1}
    Texts = {x}
    MaxModel = 2
    Orderly = TRUE
    MaxEvents = 5
PROPERTIES CatchesUp
