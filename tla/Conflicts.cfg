\* Two or three claims of a slot; see Profiles for the operations.
SPECIFICATION MCSpec
CONSTANTS
    a = a  b = b  c = c
    s1 = s1  s2 = s2
    Claims = {a, b, c}
    ValueOf <- Repeated
    Scopes = {s1, s2}
    NoClaim = NoClaim
    NoScope = NoScope
    MaxFamilies = 2
    Operations = {"promote", "demote", "supersede", "feedback", "scope", "semantics", "curate"}
CHECK_DEADLOCK FALSE
SYMMETRY Interchangeable
INVARIANTS
    ContradictionsOnRecord
    OneOpenDispute
    ContradictionsComeWithWarnings
