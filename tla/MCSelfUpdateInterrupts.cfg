SPECIFICATION UpdateSpec
CONSTANTS
    MaxVersion = 3
    MaxCrashes = 1
    MaxOrders = 2
    Nobody = Nobody
    Down = Down
INVARIANT UpdateInterruptsNothing
