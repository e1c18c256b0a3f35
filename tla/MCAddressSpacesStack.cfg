SPECIFICATION Spec
CONSTANTS
    MaxTasks = 2
    Forks = FALSE
INVARIANT
    ImagesIntact
