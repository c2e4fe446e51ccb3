\* One new floor of anybody, with mentions of three old ones, beside two requests
\* about subscriptions or two about settings, or beside one of them and a removal,
\* edit or mail.
SPECIFICATION Spec
CONSTANTS
    u1 = u1
    u2 = u2
    u3 = u3
    f1 = f1
    f2 = f2
    f3 = f3
    Users = {u1, u2, u3}
    Admins = {u1}
    AdminList = {u1}
    Owner = u1
    OldFloors = {f1, f2, f3}
    OldAuthor <- Authors
    Posts = {p1}
    Tasks = {x1}
    Follows = {s1, s2}
    Settings = {c1, c2}
    Followers = {u2}
    Setters = {u2}
    Readers = {u2}
    Mails = {{u2, u3}}
    Changes <- SomeChanges
    FirstConfig <- U3NoMentions
    Keep = Keep
    None = None
SYMMETRY Handlers
CONSTRAINT OneKind
INVARIANTS
    IInv
    HeardOnce
    EveryoneTold
    DeletedFloorsForgotten
\* Every handler has answered.
CHECK_DEADLOCK FALSE
