SPECIFICATION Spec
CONSTANTS
    Emails = {e1, e2}
    Channels = {guard, sentinel}
    Guard = guard
    Sentinel = sentinel
    Digests = {d1}
    Tests = {t1}
SYMMETRY Symmetry
INVARIANTS
    OneDigestPerSubscriber
    SuccessIsDelivered
    FailingSendStopsNobody
    WarningsReachSubscribers
