\* One hole with its first floor and a reply; a clean and a suspect text; one
\* replica of the database.
SPECIFICATION IndexSpec
CONSTANTS
    f1 = f1
    f2 = f2
    h1 = h1
    HoleIds = {h1}
    Floors = {f1, f2}
    First = {f1}
    HoleOf <- OneHole
    Texts = {clean, suspect}
    Suspect = {suspect}
    Notice = Notice
    NoDoc = NoDoc
    Replicas = {s1}
    MaxTasks = 3
INVARIANTS
    IndexIInv
    IndexExact
\* All tasks are spent: the bound on tasks ends the behaviour.
CHECK_DEADLOCK FALSE
