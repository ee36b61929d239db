SPECIFICATION Spec
CONSTANTS
    f1 = f1
    f2 = f2
    menu = menu
    game = game
    play = play
    quit = quit
    None = None
    Fingers <- MCFingers
    Scenes <- MCScenes
    Buttons <- MCButtons
    Initial <- MCInitial
    Background <- MCBackground
    PressTicks = 1
    MaxDown = 2
INVARIANT
    LayoutNotNested
