CONSTANTS
    Handlers = {h1, h2}
    Emails = {e1}
    NoEmail = NoEmail
    MaxTokens = 3
SPECIFICATION TokensSpec
INVARIANT SingleUse
CHECK_DEADLOCK FALSE
