\* Every fault on both platforms; the state is finite without a bound.
SPECIFICATION FairSpec
CONSTANTS
    Platforms = {"linux", "darwin"}
    Faults = {"io", "manager", "account", "kill", "reboot"}
INVARIANTS
    TypeOK
    InstallOutcome
    UninstalledStaysDown
    PurgeIsComplete
PROPERTIES
    PurgeNeverWedged
    PurgeSpares
    RecordedFirst
    EveryCommandReturns
