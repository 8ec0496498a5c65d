SPECIFICATION Spec
CONSTANTS
    c1 = c1
    c2 = c2
    ann = ann
    bob = bob
    Clients <- TwoClients
    Names <- TwoNames
    Roles = {"viewer", "operator"}
    Age = 1
    Latency = 1
    MaxUsers = 2
    MaxTokens = 1
    MaxAdmin = 2
    MaxNow = 2
SYMMETRY Symmetry
INVARIANTS
    TypeOK
    ActsOnlyIfEntitled
    NoSelfPromotion
    ExposureBounded
