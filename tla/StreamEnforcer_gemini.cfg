SPECIFICATION Spec
CONSTANTS
    MaxCalls = 2
    ArgPieces = 1
    Planes = {"fetch", "undici"}
    Shapes = {"gemini"}
    FailModes = {"deny"}
    CallsPerFrame = 2
    ChunkFrames = 1
    MaxFrames = 2
    MaxFiller = 0
    Backlog = 2
INVARIANT DeniedDropped
CHECK_DEADLOCK FALSE
