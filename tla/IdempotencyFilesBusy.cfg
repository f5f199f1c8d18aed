\* A file operation whose receipt cannot be stored.
SPECIFICATION MCSpec
CONSTANTS
    a = a  b = b  c = c  d = d  e = e  f = f  g = g  h = h  i = i  j = j
    k1 = k1  k2 = k2  k3 = k3  k4 = k4
    s1 = s1  s2 = s2
    Requests = {e, f}
    Keys = {k2}
    Services = {s1, s2}
    KeyOf <- MCKeyOf
    BodyOf <- TwoBodies
    ServiceOf <- MCServiceOf
    KindOf <- MCKindOf
    NoRequest = NoRequest
    NoBody = NoBody
    MaxSuspends = 1
    StorageFails = TRUE
CHECK_DEADLOCK FALSE
INVARIANTS
    FileOperationsNotRepeated
