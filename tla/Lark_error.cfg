\* A turn of the session that fails.
CONSTANTS
    Questions = 1
    Texts = 1
    MaxPushes = 2
    MaxDrops = 1
    Types = {"part", "error"}
SPECIFICATION Spec
INVARIANT ErrorIsTold
CHECK_DEADLOCK FALSE
