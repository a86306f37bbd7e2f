SPECIFICATION Spec
CONSTANTS
    None = None
    Processes = {heartbeat, cli}
    Policies <- OrderPolicies
    MaxCreated = 1
    MaxTime = 1
    MaxCrashes = 0
PROPERTY CancelSticks
