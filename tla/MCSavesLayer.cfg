SPECIFICATION Spec
CONSTANTS
    Name <- MCName
    Above <- MCAbove
    Content = {"x", "y"}
    Images <- MCImages
    LastImage = 1
INVARIANTS
    KernelSeesTheSame
    NoDuplicateLeft
PROPERTY KeepsTheFiles
