SPECIFICATION Spec
CONSTANTS
    H = 16
    Rests <- AllRests
    Numbers <- EdgeNumbers
    Offsets = {5, 15}
    Payloads <- MCPayloads
    Tokens <- MCTokens
    AckSize = 3
    Pads <- MCPads
INVARIANT Arrives
INVARIANT IncrementalAlwaysExact
CHECK_DEADLOCK FALSE
