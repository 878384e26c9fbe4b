SPECIFICATION Spec
CONSTANTS
    Hosts = {h1, h2}
    NoFile = NoFile
    NoHost = NoHost
    Stale = 2
    MaxRetries = 2
    MaxSessions = 2
    Callers = {c1, c2}
    Nobody = Nobody
    Depth = 3
    MaxCommands = 4
CHECK_DEADLOCK FALSE
INVARIANTS SessionSurvives CommandsArePaced
PROPERTY StartEnds
