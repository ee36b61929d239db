SPECIFICATION Spec
CONSTANTS
    Left = Left
    right = right
    key = key
    listener = listener
    sceneManager = sceneManager
    Buttons <- MCButtons
    Fingers <- MCFingers
    Keys <- MCKeys
    Observers <- MCObservers
    Reactive <- MCReactive
    Reactions <- MCReactions
INVARIANTS
    NotificationsWellFormed
    ViewsAgree
    NothingStuck
PROPERTY
    CallsReturn
