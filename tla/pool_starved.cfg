SPECIFICATION Spec
CONSTANTS
    Lookup = {l1, l2, l3, l4, l5}
    Key = {home}
    Global = {home}
    local = local
    vendor = vendor
    Providers <- MCProviders
    Silent = {vendor}
    MaxItems = 1
    TTL = 1
    Patience = 1
    ClientPatience = 1
SYMMETRY Symmetry
INVARIANT
    LocalReported
