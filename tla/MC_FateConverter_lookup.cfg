CONSTANTS
    ModuleTypes <- MC_ModuleTypes
    ConfigTypes <- MC_ConfigTypes
    MaxComponents <- MC_MaxComponents
    NoDict = NoDict
    EmptyDict = EmptyDict
    Packages <- MC_Packages
    Members <- MC_Members
    Targets <- MC_Targets
    NoModel = NoModel
INIT Init
NEXT Next
INVARIANT DispatchFailureIsLookupError
\* _do_init and the converter calls return: construction really stops.
CHECK_DEADLOCK FALSE
