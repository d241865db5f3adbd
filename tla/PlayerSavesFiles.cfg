\* SAVEFILES in an overlay: the library is on another file system.
SPECIFICATION Spec
CONSTANTS
    f1 = f1
    File = {f1}
    LastSave = 3
    Setups = {{"savefiles", "overlay"}}
INVARIANT SeesNewest
