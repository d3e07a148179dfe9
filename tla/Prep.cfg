CONSTANTS
    Locations <- MCLocations
    Patches = 2
    Components <- MCComponents
SPECIFICATION Spec
INVARIANTS SourceComplete DownloadVerifies
PROPERTY Recovers
