SPECIFICATION Spec
CONSTANTS
    ENTRIES = 1
    Unreadable = {3}
    Vas <- OnePage
    DataVas <- OnePage
    Tables = {0, 1, 2, 3}
    Idx = {0, 1}
    Ppns = {0, 1}
    InitTab <- Tab
    Stores <- NoStores
    Satps <- ByMachine
PROPERTY WalkHoldsAddress
