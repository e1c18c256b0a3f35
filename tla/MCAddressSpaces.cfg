SPECIFICATION Spec
CONSTANTS
    MaxTasks = 3
    Forks = TRUE
INVARIANTS
    TypeOK
    OnlyKernelTablesShared
    FramesPrivate
    KernelInEveryDirectory
PROPERTY
    ClonesAreCopies
