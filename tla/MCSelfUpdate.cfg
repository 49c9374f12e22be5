SPECIFICATION UpdateFairSpec
CONSTANTS
    MaxVersion = 3
    MaxCrashes = 1
    MaxOrders = 3
    Nobody = Nobody
    Down = Down
INVARIANT
    ArmedMeansSwapped
PROPERTIES
    RunsLatest
