SPECIFICATION RoutingFairSpec
CONSTANTS
    Providers = {"openai", "anthropic", "google", "ollama"}
    Steps <- RoutedSteps
    Registrations <- RoutedRegistrations
    Chains <- RoutedChains
    Owners = {"openai", "anthropic", "google", "none"}
    NoOwner = "none"
    MaxAttempts = 3
    Errors <- RoutedErrors
    Configs <- AllConfigs
INVARIANTS
    RoutingTypeOK
    ModeOrdersProviders
    CloudsExhausted
    OwnerGoesFirst
PROPERTIES
    EveryRequestReturns
CHECK_DEADLOCK FALSE
