SPECIFICATION Spec
CONSTANTS
    Cases <- MCCases
    Vendors = {"abuseipdb", "ipqs", "maxmind"}
CHECK_DEADLOCK FALSE
INVARIANTS
    TypeOK
    OneVerdict
    BehaviourAlone
    NoVendorBlocksAlone
