SPECIFICATION Spec
CONSTANTS
    opus = opus
    haiku = haiku
    gpt = gpt
    NoModel = NoModel
    Models = {opus, haiku, gpt}
    ProviderOf <- MCProviderOf
    Vision = {opus, gpt}
    Thinks = {"anthropic"}
    MaxRetries = 1
    MaxMessages = 5
INVARIANTS RequestsFit UsageMatchesReplies
