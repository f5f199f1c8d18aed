\* Routes, file operations and single transactions on two services.
SPECIFICATION MCSpec
CONSTANTS
    a = a  b = b  c = c  d = d  e = e  f = f  g = g  h = h  i = i  j = j
    k1 = k1  k2 = k2  k3 = k3  k4 = k4
    s1 = s1  s2 = s2
    Requests = {a, b, c, d, e, f, g, h, i, j}
    Keys = {k1, k2, k3, k4}
    Services = {s1, s2}
    KeyOf <- MCKeyOf
    BodyOf <- TwoBodies
    ServiceOf <- MCServiceOf
    KindOf <- MCKindOf
    NoRequest = NoRequest
    NoBody = NoBody
    MaxSuspends = 1
    StorageFails = FALSE
CHECK_DEADLOCK FALSE
INVARIANTS
    ReceiptIsTheEffect
    FileOperationsNotRepeated
PROPERTIES
    WithdrawnForever
    ImplementsLedger
