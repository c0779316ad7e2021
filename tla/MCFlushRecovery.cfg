CONSTANTS
    a = a
    b = b
    column_families <- MCFamilies
    min_write_buffer_number_to_merge_ <- MCMinMerge
    NoJob = NoJob
    Jobs = {j1, j2}
    Batches <- MCBatches
    MaxWrites = 2
    MaxFiles = 5
    MaxMemTables = 3
    MaxFaults = 1
    MaxFaultFiles = 6
    MaxCrashes = 1
SPECIFICATION Spec
INVARIANTS
    InOnePlace
    Recoverable
    TablesKept
    CommittedInOrder
    EditLogNumberGrows
    
CHECK_DEADLOCK FALSE
SYMMETRY Symmetry
