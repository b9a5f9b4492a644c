SPECIFICATION Spec
CONSTANTS
    Programs <- MCChat
    TensorIds <- MCTensorIds
    PageSize = 2
    Positions = 10
    NoToken = 0
    MaxLines = 3
    MaxRuns = 3
    Prompts <- MCPrompts
    Sampled = {4, 5}
    StopTokens = {5}
    DecodeSteps = 2
    InferenceSteps = 2
INVARIANTS
    ConversationsEndWithTheInput
CHECK_DEADLOCK FALSE
