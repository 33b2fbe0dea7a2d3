SPECIFICATION Spec
CONSTANTS
    a = a
    b = b
    NoText = NoText
    None = None
    Command = Command
    Turns <- TwoTurns
    Scenes <- SomeScenes
    Saved <- OldSession
    Recent = 2
    KeepLast = 3
    Limits = {3, 5}
INVARIANTS
    SendsWellFormed
