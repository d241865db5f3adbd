\* Two save files, five saves; links, --clear and --saves in every order.
SPECIFICATION Spec
CONSTANTS
    f1 = f1
    f2 = f2
    File = {f1, f2}
    LastSave = 5
    Setups = {{"savedir", "overlay", "clear", "stop"},
              {"savefiles", "stop"},
              {"overlay", "clear", "stop clear"},
              {"savedir", "overlay", "reset", "stop"},
              {"savedir", "overlay", "full"}}
INVARIANTS
    SeesNewest
    UsersKept
    UpToDate
