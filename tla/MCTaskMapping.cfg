CONSTANTS
    a1 = a1
    a2 = a2
    e1 = e1
    e2 = e2
    store = store
    driver = driver
    gateway = gateway
    Attempts = {a1, a2}
    Effects = {e1, e2}
    Required = {e1}
    Conditional = {e1}
    Participants = {store, driver, gateway}
    TaskStoreSelf = store
    Endpoint <- MCEndpoint
    Scopes <- Alone
    MaxGeneration = 3
    MaxTies = 1
SPECIFICATION Spec
SYMMETRY Symmetry
INVARIANTS KnownFenceIsComplete
CHECK_DEADLOCK FALSE
