\* One chat sits out a burst cooldown while the other sends.
CONSTANTS
    Recipients = {c1, c2}
    Messages = {n1, n2, n3}
    None = None
    GlobalMinDelay = 1
    GapMin = 2
    GapMax = 3
    BurstThreshold = 2
    BurstCooldown = 3
    BurstWindow = 4
SPECIFICATION QueueSpec
PROPERTY GlobalMinDelayEnforced
