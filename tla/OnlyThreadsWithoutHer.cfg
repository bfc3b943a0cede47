\* Her id is recognised in quotes, which is where the promise should hold best.
CONSTANTS
    Members = {ann, bob}
    Unnamed = {bob}
    Bots = {}
    Herself = Herself
    Nobody = Nobody
    HerIdShown = TRUE
    ThreadTimeout = 3
    ContinuationWindow = 2
    MaxThreadTicks = 3
    MaxGroupTurns = 3
SPECIFICATION GroupGateSpec
INVARIANT OnlyThreadsWithoutHer
CHECK_DEADLOCK FALSE
