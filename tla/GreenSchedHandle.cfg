SPECIFICATION Spec
CONSTANTS
    s1 = s1
    s2 = s2
    s3 = s3
    t1 = t1
    t2 = t2
    Scheds = {s1, s2}
    Tasks = {t1, t2}
    PoolTasks = {t1}
    InitPool <- TwoScheds
    InitUser = {}
    Friend <- NoFriends
    Uv = FALSE
    ActiveIO = {FALSE}
    MaxFuel = 1
    Owner = Owner
    Ext = Ext
    AnySched = AnySched
    None = None
INVARIANT ShutdownDrains
