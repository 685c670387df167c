SPECIFICATION Spec
CONSTANTS
    MaxCalls = 1
    ArgPieces = 1
    Planes = {"node"}
    Shapes = {"openai"}
    FailModes = {"deny"}
    CallsPerFrame = 1
    ChunkFrames = 1
    MaxFrames = 4
    MaxFiller = 0
    Backlog = 2
INVARIANT FrameOnce
CHECK_DEADLOCK FALSE
