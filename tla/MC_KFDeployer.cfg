CONSTANTS
    c1 = c1
    c2 = c2
    c3 = c3
    s1 = s1
    s2 = s2
    v1 = v1
    v2 = v2
    m1 = m1
    m2 = m2
    m3 = m3
    Clients <- MC_Clients
    Services <- MC_Services
    Versions <- MC_Versions
    Models <- MC_Models
    SvcOf <- MC_SvcOf
    VerOf <- MC_VerOf
    ModelOf <- MC_ModelOf
    ReplaceOf <- MC_ReplaceOf
    MaxFaults = 2
    MaxDeletes = 1
    Absent = Absent
    Empty = Empty
    Torn = Torn
    NoPath = NoPath
SPECIFICATION Spec
INVARIANTS
    TypeOK
    ServedModelIsOwnersModel
PROPERTIES
    EventuallyDeployed
    ImplementsService
\* Every client's session ends after its destroy() call.
CHECK_DEADLOCK FALSE
