SPECIFICATION Spec
CONSTANTS
    MAX_NUM_TASKS = 4
    Spawns = {2, 5}
    Devices <- MCDevices
    MaxWrite = 2
INVARIANTS
    RunsCurrentTask
    InterruptsAcknowledged
    KernelStackSound
PROPERTIES
    WritesAreContiguous
    BootThreadGone
    EveryTaskRuns
