SPECIFICATION Spec
CONSTANTS
    None = None
    Processes = {cli}
    Policies <- OrderPolicies
    MaxCreated = 2
    MaxTime = 2
    MaxCrashes = 1
INVARIANTS TypeOK SpendingRecorded FamilyWithinRemaining
PROPERTIES FinalIsFinal CooldownKept OrdersSettle
