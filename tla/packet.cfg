SPECIFICATION Spec
CONSTANTS
    H = 16
    Rests <- AllRests
    Numbers <- EdgeNumbers
    Offsets = {5, 6, 14}
    Payloads <- MCPayloads
    Tokens <- MCTokens
    AckSize = 3
    Pads <- MCPads
INVARIANT WireValid
INVARIANT RoundTrip
INVARIANT Arrives
INVARIANT IncrementalIsExact
CHECK_DEADLOCK FALSE
