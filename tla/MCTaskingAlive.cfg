SPECIFICATION Spec
CONSTANTS
    MAX_NUM_TASKS = 4
    Spawns = {2}
    Devices <- MCDevices
    MaxWrite = 2
INVARIANT
    AliveTasksCanRun
