\* One floor, a user who likes it, and a restore that may run at the same time as anything else.
SPECIFICATION Spec
CONSTANTS
    f1 = f1
    u1 = u1
    u2 = u2
    r1 = r1
    r2 = r2
    clean = clean
    suspect = suspect
    Floors = {f1}
    Users = {u1}
    Restorers = {r1}
    Texts = {clean, suspect}
    Suspect = {suspect}
    Notice = Notice
    Keep = Keep
    MaxVersions = 2
SYMMETRY UsersSymmetry
INVARIANTS
    IInv
    ShownTextChecked
    HistoryComplete
    LikesCounted
