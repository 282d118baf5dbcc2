SPECIFICATION Spec
CONSTANTS
    Hosts = {h1, h2}
    FanOuts = {1, 2}
INVARIANT DiscoveryNeverStalls
SYMMETRY HostSymmetry
VIEW LiveState
