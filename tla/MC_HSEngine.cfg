CONSTANTS
    ModuleTypes <- MC_ModuleTypes
    ConfigTypes <- MC_ConfigTypes
    MaxComponents <- MC_MaxComponents
    NoDict = NoDict
    EmptyDict = EmptyDict
    Packages <- MC_Packages
    Members <- MC_Members
    Targets <- MC_Targets
    NoModel = NoModel
    MaxCalls <- MC_MaxCalls
    NoService = NoService
    NoDeployer = NoDeployer
INIT EngInit
NEXT EngNext
INVARIANTS
    EngTypeOK
    ServedIsSelectedModel
\* The caller stops after MaxCalls engine calls, and a FATEModel whose
\* constructor raised never gets an engine: the system really stops.
CHECK_DEADLOCK FALSE
