\* A crash during an upload. With MaxCrashes = 0, MaxFaults = 1 and INVARIANT
\* ResultNotFailed: a local error after a result.
CONSTANTS
    s1 = s1
    None = None
    Sessions <- OneSession
    Destroying <- OneSession
    Deletable <- OneSession
    KeyMayVanish = FALSE
    MaxCrashes = 1
    MaxFaults = 0
    AttemptCap = 3
SPECIFICATION Spec
INVARIANT AtMostOneUpload
