CONSTANTS
    c1 = c1
    c2 = c2
    c3 = c3
    s1 = s1
    s2 = s2
    v1 = v1
    v2 = v2
    m1 = m1
    m2 = m2
    m3 = m3
    Clients <- Race_Clients
    Services <- MC_Services
    Versions <- MC_Versions
    Models <- MC_Models
    SvcOf <- Race_SvcOf
    VerOf <- Race_VerOf
    ModelOf <- Race_ModelOf
    ReplaceOf <- Race_ReplaceOf
    MaxFaults = 0
    MaxDeletes = 0
    Absent = Absent
    Empty = Empty
    Torn = Torn
    NoPath = NoPath
SPECIFICATION Spec
PROPERTY
    NoReplaceWithoutFlag
\* Every client's session ends after its destroy() call.
CHECK_DEADLOCK FALSE
