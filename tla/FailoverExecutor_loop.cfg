SPECIFICATION Spec
CONSTANTS
    Providers = {"openai", "anthropic", "google", "ollama"}
    Steps <- MCSteps
    Registrations <- MCRegistrations
    Chains <- MCChains
    Owners = {"openai", "anthropic", "none"}
    NoOwner = "none"
    MaxAttempts = 3
    Errors <- MCErrors
INVARIANTS
    TypeOK
    NoProviderTwice
    TriggersHonoured
    GivesUpLast
    ResultTellsAttempts
CHECK_DEADLOCK FALSE
