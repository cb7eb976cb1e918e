\* Subscriptions and event_cast against the reference-counted definition.
CONSTANTS
    Msgs = {m1, m2}
    NoMsg = NoMsg
    Topics <- MC_Topics
    MaxOps = 6
SPECIFICATION Spec
INVARIANTS
    EventCastMatchesSubscriptions
