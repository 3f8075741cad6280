\* Two runs that overlap, two projects of which a dashboard shows one.
SPECIFICATION MCSpec
CONSTANTS
    s1 = s1
    s2 = s2
    v1 = v1
    p1 = p1
    p2 = p2
    t1 = t1
    t2 = t2
    x = x
    y = y
    Syncs = {s1, s2}
    Views = {v1}
    Projects = {p1, p2}
    Tasks = {t1, t2}
    Names = {x, y}
    NoProject = NoProject
    Blank = Blank
    Absent = Absent
    Limit = 2
    PageLimit = 2
    TaskLimit = 2
    Shown = 1
    MaxEdits = 1
    MaxFails = 1
INVARIANTS SyncInv
PROPERTIES Converges DashboardSettles
