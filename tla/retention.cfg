\* One meeting over three days, with one failed removal, query or statement
\* anywhere, a retry and a deletion.
CONSTANTS
    Meeting = {m1}
    Policy <- BotPolicy
    AdminPolicy <- RunPolicies
    Snapshots <- KeptSnapshots
    Targets <- RequestTargets
    MaxDay = 3
    MaxFaults = 1
    MaxRetries = 1
    MaxDeletes = 1
SPECIFICATION Spec
INVARIANTS RetentionExact
PROPERTIES NothingRemovedEarly
CHECK_DEADLOCK FALSE
