SPECIFICATION Spec
CONSTANTS
    Shards = {0}
    AllNodes = AllNodes
    Availability = {"all"}
    MaxNodes = 4
INVARIANTS RotationCoversList
