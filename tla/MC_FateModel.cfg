CONSTANTS
    ModuleTypes <- MC_ModuleTypes
    ConfigTypes <- MC_ConfigTypes
    MaxComponents <- MC_MaxComponents
    NoDict = NoDict
    EmptyDict = EmptyDict
INIT FMInit
NEXT FMNext
INVARIANTS
    FMTypeOK
    ConstructionOutcome
\* _do_init returns or raises: the constructor really stops.
CHECK_DEADLOCK FALSE
