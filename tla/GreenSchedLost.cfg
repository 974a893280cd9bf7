SPECIFICATION Spec
CONSTANTS
    s1 = s1
    s2 = s2
    s3 = s3
    t1 = t1
    t2 = t2
    Scheds = {s1, s2}
    Tasks = {t1, t2}
    PoolTasks = {t1, t2}
    InitPool <- OneSched
    InitUser = {}
    Friend <- NoFriends
    Uv = TRUE
    ActiveIO = {FALSE}
    MaxFuel = 0
    Owner = Owner
    Ext = Ext
    AnySched = AnySched
    None = None
INVARIANT NoLostMessage
CHECK_DEADLOCK FALSE
