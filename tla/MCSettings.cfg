CONSTANTS
    Registrations <- Groups
    Paths <- AllPaths
    isSensitiveKey <- Sensitive
    Token <- Tokens
    World <- Times
    Fails = Fails
    NumberOf <- Numbers
    toSnakeCase <- Snake
    Matching <- Patterns
    StructsFor <- MCStructsFor
SPECIFICATION SettingsSpec
INVARIANTS SettingsFollowPriority TextsComeOut PlaceholdersAreReplacedOnce LogsHideSecrets DefaultsReachTheStruct ValidateFindsTheFirst
PROPERTIES MergesByPriority
CHECK_DEADLOCK FALSE
