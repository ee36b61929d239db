SPECIFICATION Spec
CONSTANTS
    clicked = clicked
    resized = resized
    h1 = h1
    h2 = h2
    client = client
    button = button
    panel = panel
    Null = Null
    Watched = clicked
    Events <- MCEvents
    Handlers <- MCHandlers
    Clients <- MCClients
    Keys <- MCKeys
    MaxDepth = 2
    MaxSlots = 3
INVARIANTS
    HandlersListedOnce
PROPERTY
    ImplementsRegistry
