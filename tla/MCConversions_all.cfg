SPECIFICATION Spec
CONSTANTS
    NameOrder <- NameOrderABC
    UrlMax = 5
    PercentMax = 4
    QueryMax = 5
    ListMax = 5
    RowMax = 3
INVARIANTS
    
    PercentRoundTrip
    QueryParameters
    
    
    FetchSeesStored
CHECK_DEADLOCK FALSE
