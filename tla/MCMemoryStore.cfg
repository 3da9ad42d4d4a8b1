CONSTANTS
    c1 = c1
    c2 = c2
    p1 = p1
    p2 = p2
    Calls = {c1, c2}
    Processes = {p1, p2}
    Home <- HomeOf
    Project = "prj"
    Titles = {"a", "b"}
    Inputs <- Sample
    MaxCalls = 3
    MaxEdits = 1
    None = None
SYMMETRY Swap
SPECIFICATION Spec
INVARIANT ChainsEnd
PROPERTY QuietSaveProjects
PROPERTY CreationTimeKept
CHECK_DEADLOCK FALSE
