SPECIFICATION Spec
CONSTANTS
    Lookup = {l1, l2, l3}
    Key = {office, home, cafe}
    Global = {home, cafe}
    local = local
    vendor = vendor
    Providers <- MCProviders
    Silent = {}
    MaxItems = 2
    TTL = 2
    Patience = 2
    ClientPatience = 1
SYMMETRY Symmetry
INVARIANTS
    TypeOK
    NothingLostSilently
    CacheBounded
    ServedFresh
