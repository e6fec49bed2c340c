\* Two requests per window of two ticks, one registration per hour of three;
\* one address registers up to twice, the other only sends requests.
CONSTANTS
    a1 = a1
    a2 = a2
    r1 = r1
    r2 = r2
    Addresses = {a1, a2}
    Registrations = {r1, r2}
    AddressOf <- MCAddressOf
    Limit = 2
    Window = 2
    RegLimit = 1
    RegWindow = 3
    MaxLag = 1
    MaxRestarts = 1
SPECIFICATION FairSpec
INVARIANTS
    LimitsInv
    DecidesAsWindow
PROPERTIES
    MemoryReleased
