SPECIFICATION Spec
CONSTANTS
    Servers = {s1, s2, s3}
    Packets = {p1}
    Tenants = {t1, t2}
    None = None
INVARIANTS
    UpdateFindsPacket
    AnsweredIsKept
PROPERTY FollowsPacketViews
CHECK_DEADLOCK FALSE
