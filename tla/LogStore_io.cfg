\* Every call but fdatasync may fail (logstore_junk is that case); short
\* writes cut records of two sizes between cells or inside the head.  A
\* failed Init stops the node for good, so a stop is a real end state here.
CONSTANTS
    Insts = {1, 2}
    Sizes = {1, 2}
    FileCap = 3
    MaxFileID = 2
    MaxAppends = 6
    MaxRestarts = 3
    Failing <- MCAllButDataSync
SPECIFICATION LogSpec
INVARIANTS LogTypeOK AckedReadable
CHECK_DEADLOCK FALSE
