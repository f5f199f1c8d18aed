\* A disputed value that was written twice.
SPECIFICATION MCSpec
CONSTANTS
    a = a  b = b  c = c
    s1 = s1  s2 = s2
    Claims = {a, b, c}
    ValueOf <- Repeated
    Scopes = {}
    NoClaim = NoClaim
    NoScope = NoScope
    MaxFamilies = 2
    Operations = {}
CHECK_DEADLOCK FALSE
INVARIANTS
    OpenDisputesNotServed
