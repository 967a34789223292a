SPECIFICATION Spec
CONSTANTS
    Pmts = {1, 2}
    Adapters = {1, 2}
    AdapterOf <- MCAdapterOf
    EcmPid <- MCEcmPid
    Contents <- MCContents
    MaxKeys = 2
    Limits = {1, 2}
    MaxFilters = 2
    MaxQueue = 1
INVARIANTS HasKey ServerKnows NoOrphan
