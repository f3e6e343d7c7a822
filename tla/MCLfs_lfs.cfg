SPECIFICATION Spec
CONSTANTS
    BLKSIZ = 1
    IBLEN = 2
    NIB = 3
    NDB = 4
    ISECT = 1
    Procs = {"p", "q"}
    file1 = file1
    file2 = file2
    file3 = file3
    Names = {file1, file2, file3}
    Byte <- Letter
    Offsets = {0, 2}
    Modes <- OpenModes
    NLFL = 2
    NUM_DIR_ENT = 2
    Counts = {2}
    Calls <- Users
    Careful = TRUE
    MaxCalls = 6
SYMMETRY Files
INVARIANTS   LfsInv
 
