\* A restore is staged and applied, the migration follows; three faults.
SPECIFICATION Spec
CONSTANTS
    Keep = 2
    MaxWork = 1
    MaxBackups = 1
    MaxStages = 1
    MaxFaults = 3
INVARIANTS
    FilesAccounted
    

    
