SPECIFICATION PreferencesBehaviour
CONSTANTS
    Processes = {p1, p2}
    Names <- SomeNames
    Homes <- SomeHomes
    NoHome = None
    Sysconfdir <- Etc
    Hidden = {".config", ".", "..", "..f"}
    Dotted = {"..", "..f"}
    Vendors <- SomeVendors
    Packages <- SomePackages
    Filenames <- SomeFilenames
    InitialFiles <- SomeFiles
    Saved = {"a"}
    Torn = "torn"
    MaxCalls = 2
    MaxFaults = 1
    None = None
CHECK_DEADLOCK FALSE
PROPERTIES
    
    SavesSucceed
