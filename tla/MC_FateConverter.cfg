CONSTANTS
    ModuleTypes <- MC_ModuleTypes
    ConfigTypes <- MC_ConfigTypes
    MaxComponents <- MC_MaxComponents
    NoDict = NoDict
    EmptyDict = EmptyDict
    Packages <- MC_Packages
    Members <- MC_Members
    Targets <- MC_Targets
    NoModel = NoModel
INIT Init
NEXT Next
INVARIANTS
    TypeOK
    DispatchedConverterAccepts
    ConvertedFaithful
\* A failed construction or dispatch raises to the caller: nothing follows.
CHECK_DEADLOCK FALSE
