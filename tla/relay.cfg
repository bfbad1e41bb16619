\* Both relay builds: startup paths, both workers, failures, the DHCP VLAN
\* round trip and the EOE header added and stripped.
CONSTANTS
    NoId = NoId
    Options <- BothOptions
    NetFrames <- BothNetFrames
    SvcFrames <- BothSvcFrames
    Fallible = TRUE
SPECIFICATION Spec
\* The process may exit, and blocks in read() for good once the peers stop.
CHECK_DEADLOCK FALSE
INVARIANTS
    TypeOK
    WorkersOnlyAfterSetup
    RepliesReturnToRequestVlan
    EncapLengthField
    EoeRoundTrip
PROPERTIES
    RelaySpec
