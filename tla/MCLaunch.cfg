SPECIFICATION MCSpec
CONSTANTS
    Names = {"A", "B", "HELP", "key", "value", "secrets"}
    Texts = {"started", "secret", "dotenv", "override", "flag", "default", "true", "1", "false", "junk"}
    NoName = NoName
    Unset = Unset
    Held = Held
    Empty = Empty
    Contract = {"A", "HELP"}
    Booleans = {"HELP"}
    Controls = {"HELP"}
    Default <- MCDefault
    True <- MCTrue
    False <- MCFalse
    Truths <- MCTruths
    Falsehoods <- MCFalsehoods
    MaxLines = 2
INVARIANTS
    OrchestratorWins
    AllOrNothing
    SecretsOrFailure
    SettingsFollowPriority
    OutcomeIsJustified
CHECK_DEADLOCK FALSE
