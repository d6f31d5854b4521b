CONSTANTS
    rh = rh
    ha = ha
    hb = hb
    fa = fa
    odd = odd
    dead = dead
    none = none
    Root = rh
    Nothing = none
    Things <- MCThings
    NPort <- MCNPort
    Drivers <- MCDrivers
    Mute = {dead}
    Boot <- MCBoot
    MaxAddr = 5
    MaxRetry = 1
    Fuel = 2
SPECIFICATION FairSpec
INVARIANTS EnumerationOwned AddressesExact DriverTalksToItsDevice
PROPERTY EveryoneServed
CHECK_DEADLOCK FALSE
