SPECIFICATION NoticesSpec
CONSTANTS
    Agents = {a1, a2}
    LicenseHost = a1
    Scheduler = sched
    Other = other
    MaxChanges = 3
    MaxCrashes = 1
INVARIANTS
    NotesAreKept
PROPERTIES
    AlertsAlternate
    NotifiedConverges
