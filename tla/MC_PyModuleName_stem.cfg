CONSTANTS
    Alphabet <- MC_Alphabet
    MaxLen <- MC_MaxLen
    Skipped = Skipped
    NoImport = NoImport

INIT PMInit
NEXT PMNext

INVARIANT
    ImportsOwnModule

\* One listdir entry is scanned per behaviour; the scan then stops.
CHECK_DEADLOCK FALSE
