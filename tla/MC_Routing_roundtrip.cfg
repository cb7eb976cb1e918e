\* Route stacks and credentials across the channel, in both directions,
\* with the module muted at any point.
CONSTANTS
    Uuid = Uuid
    ParentUuid = ParentUuid
    Hops = {h}
    BrokerIds = {b1, b2}
    ModuleIds = {p1}
    Topics <- MC_Topics
    Users <- MC_Users
    Roles <- MC_Roles
    UNKNOWN = "unknown"
    NONE = "none"
    OWNER = "owner"
    ChanCred <- MC_ChanCred
    MaxHops = 1
    ModCreds <- MC_ModCreds
SPECIFICATION Spec
\* Once every request is answered and every frame delivered nothing is
\* left to do.
CHECK_DEADLOCK FALSE
INVARIANTS
    RoutesRoundTrip
    CredNormalized
