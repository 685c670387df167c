SPECIFICATION FairSpec
CONSTANTS
    MaxCalls = 2
    ArgPieces = 2
    Planes = {"fetch", "undici"}
    Shapes = {"openai", "anthropic", "cohere", "gemini", "bedrock-converse", "bedrock-invoke"}
    FailModes = {"deny"}
    CallsPerFrame = 2
    ChunkFrames = 2
    MaxFrames = 5
    MaxFiller = 1
    Backlog = 2
INVARIANTS PassNeedsAllow FramesAccounted InOrder
PROPERTIES GateKept StreamEnds
CHECK_DEADLOCK FALSE
