SPECIFICATION Spec
CONSTANTS
    Items = {w1, w2}
    Samples = {w2}
    KeepCount = 1
    FileIds = {1, 2, 3, 4, 5, 6, 7, 8}
    MaxPublished = 2
    MaxFailures = 2
    MaxCrashes = 1
    MaxChanges = 1
INVARIANTS
    ArchivedHasFiles
    
PROPERTIES
    
    PublishedIsArchived
