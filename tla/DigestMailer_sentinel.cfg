SPECIFICATION Spec
CONSTANTS
    Emails = {e1, e2}
    Channels = {guard, sentinel}
    Guard = guard
    Sentinel = sentinel
    Digests = {d1}
    Tests = {}
SYMMETRY Symmetry
INVARIANTS
    DueDigestsAreSent
