SPECIFICATION Spec
CONSTANTS
    Users = {u1, u2, u3}
    MaxUes = 3
    Octets = 4
    Tops = {t1, t2}
    Nets = {ueNet, otherNet}
    Subnet = ueNet
    PdcpMod = 4
    SnMod = 2
    NrMod = 8
    NrSnMod = 4
    MaxSent = 5
    None = None
INVARIANT TypeOK
INVARIANT SessionKeepsRules
INVARIANT DownlinkHasUplink
INVARIANT DownlinkToLiveSession
INVARIANT UplinkFromLiveSession
INVARIANT SequenceNumbersCount
PROPERTY GivesForwarding
CHECK_DEADLOCK FALSE
