\* Three images in a row, overlay or copy, or a .pc folder; launches cut short,
\* or other processes that hold the mount while --clean runs.
SPECIFICATION TreeSpec
CONSTANTS
    a = a
    b = b
    Part = {a, b}
    LastImage = 3
    Setups = {{"reload", "replaced", "crash"},
              {"reload", "replaced", "hold", "clean"},
              {"folder", "replaced", "crash", "hold", "clean"}}
INVARIANTS
    PlaysTheImage
PROPERTIES
    DeletesOnlyOldCopies
