SPECIFICATION Spec
CONSTANTS
    Kinds = {"keep", "post", "bad", "bare"}
    READ_BUFFER_SIZE = 12
    HeadLen = 3
    MaxRequests = 2
    MaxClients = 2
    MaxFileLen = 2
INVARIANTS
    TypeOK
    ParsedRight
    NoVainWait
    ResponseIntact
    Mappings
PROPERTIES
    IsAnswered
CHECK_DEADLOCK FALSE
