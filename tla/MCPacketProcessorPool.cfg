SPECIFICATION Spec
CONSTANTS
    Users = {u1, u2}
    MaxUes = 2
    Octets = 2
    Tops = {t1}
    Nets = {ueNet}
    Subnet = ueNet
    PdcpMod = 4
    SnMod = 2
    NrMod = 8
    NrSnMod = 4
    MaxSent = 0
    None = None
INVARIANT RefusedOnlyInUse
CHECK_DEADLOCK FALSE
