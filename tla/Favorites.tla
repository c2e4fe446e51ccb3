----------------------------- MODULE Favorites -----------------------------
(***************************************************************************)
(* A user collects holes in favourite groups.  Next to the rows of         *)
(* user_favorites three counters are kept by hand: in the group, in the    *)
(* hole, and the number of groups in the user.                             *)
(*                                                                         *)
(* Every handler but the deletion of a group is one transaction that reads *)
(* without locks first and writes afterwards: it has a step Check..., in   *)
(* which all its plain reads happen, and a step in which it commits.  The  *)
(* deletion of a group is four statements without a transaction.           *)
(* Names and times are left out.                                           *)
(***************************************************************************)
EXTENDS Integers, FiniteSets

CONSTANTS
    Users,
    Holes,
    Requests,        \* handlers that work in a transaction
    Deleters,        \* DeleteFavoriteGroup handlers
    MaxGroupPerUser,
    None

ASSUME GroupsAssumption == MaxGroupPerUser \in Nat \ {0}

ASSUME FiniteAssumption ==
    IsFiniteSet(Users) /\ IsFiniteSet(Holes) /\ IsFiniteSet(Deleters)

ASSUME NoneAssumption == None \notin Users

VARIABLES
    row,          \* user_favorites: the holes a user has in a group
    group,        \* favorite_groups, by user and id
    groupCount,   \* user.favorite_group_count
    hole,         \* whether the row of the hole is there, and favorite_count
    req,          \* handler |-> where the handler is and its locals
    del,          \* handler |-> where the deletion is and its locals
    driftedGroup, \* history: groups whose count missed a change of their rows
    driftedHole,  \* history: the same for holes
    driftedUser,  \* history: users whose count missed a group
    late          \* history: deleted groups written to after they were marked,
                  \* or whose rows the deletion did not come to remove

history == <<driftedGroup, driftedHole, driftedUser, late>>

vars == <<row, group, groupCount, hole, req, del, history>>

GroupIds == 0..(MaxGroupPerUser - 1)

Default == 0

Group == [state : {"absent", "live", "deleted"}, count : Int]

New == [step |-> "new", user |-> None, group |-> Default, to |-> Default,
        holes |-> {}, default |-> FALSE]

Request ==
    [step : {"new", "add", "delete", "modify", "move", "create", "default", "done"},
     user : Users \cup {None}, group : GroupIds, to : GroupIds,
     holes : SUBSET Holes, default : BOOLEAN]

NewDeletion == [step |-> "new", user |-> None, group |-> Default]

Deletion ==
    [step : {"new", "empty", "marked", "cleared", "done"},
     user : Users \cup {None}, group : GroupIds]

-----------------------------------------------------------------------------
(* What is read *)

\* IsFavoriteGroupExist.
Live(u, g) == group[u][g].state = "live"

LiveGroups(u) == {g \in GroupIds : Live(u, g)}

\* IsHolesExist.  It compares a number of rows with the length of the list and
\* so refuses a list that repeats a hole: lists are sets here.
Exist(S) == \A h \in S : hole[h].exists

\* One more than the largest live id.
NextId(u) ==
    {i \in 1..MaxGroupPerUser : /\ i - 1 \in LiveGroups(u) \cup {0}
                                /\ \A g \in LiveGroups(u) : g < i}

\* Mutant: no limit.
NewIdUnlimited(u) == NextId(u)

\* The id AddUserFavoriteGroup computes; from the limit on the least deleted id,
\* if there is one.
NewId(u) ==
    LET deleted == {g \in GroupIds : group[u][g].state = "deleted"}
    IN IF MaxGroupPerUser \notin NextId(u) THEN NextId(u)
       ELSE {g \in deleted : \A d \in deleted : g <= d}

-----------------------------------------------------------------------------
(* What is written *)

GroupCounted(u, g, n) == [group EXCEPT ![u][g].count = @ + n]

\* Mutant: a hole is counted when it is added only.
HoleCountedUp(h, n) ==
    [hole EXCEPT ![h].count = IF hole[h].exists /\ n > 0 THEN @ + n ELSE @]

\* An update of a hole matches nothing once the hole is deleted.
HoleCounted(h, n) ==
    [hole EXCEPT ![h].count = IF hole[h].exists THEN @ + n ELSE @]

\* The counts of both groups after n holes were moved.
Moved(u, g, t, n) ==
    [GroupCounted(u, g, - n) EXCEPT ![u][t].count = @ + n]

\* Mutant: the rows are left to the check that found none.
ClearedNothing(u, g) == row

Cleared(u, g) == [row EXCEPT ![u][g] = {}]

NumberOf(ids) == Cardinality(ids)

\* Insert groups, unless a key is taken, and count them in the user.
Insert(u, ids) ==
    /\ \A g \in ids : group[u][g].state = "absent"
    /\ group' = [group EXCEPT ![u] =
                   [g \in GroupIds |->
                      IF g \in ids THEN [state |-> "live", count |-> 0]
                      ELSE group[u][g]]]
    /\ groupCount' = [groupCount EXCEPT ![u] = @ + NumberOf(ids)]

Answer(r) == req' = [req EXCEPT ![r] = [New EXCEPT !.step = "done"]]

Written(u, g) == IF Live(u, g) THEN late ELSE late \cup {<<u, g>>}

-----------------------------------------------------------------------------
(* Favourites *)

\* AddFavorite: the group and the hole exist.
CheckAdd(r, u, g, h) ==
    /\ req[r].step = "new"
    /\ Live(u, g) /\ hole[h].exists
    /\ req' = [req EXCEPT ![r] = [New EXCEPT !.step = "add", !.user = u,
                                              !.group = g, !.holes = {h}]]
    /\ UNCHANGED <<row, group, groupCount, hole, del, history>>

\* A row that is there already has its time refreshed and is counted again.
Add(r) ==
    LET u == req[r].user
        g == req[r].group
        again == req[r].holes \subseteq row[u][g]
    IN /\ req[r].step = "add"
       /\ \E h \in req[r].holes :
            /\ row' = [row EXCEPT ![u][g] = @ \cup {h}]
            /\ group' = GroupCounted(u, g, 1)
            /\ hole' = HoleCounted(h, 1)
            /\ driftedHole' = IF again THEN driftedHole \cup {h} ELSE driftedHole
       /\ driftedGroup' = IF again THEN driftedGroup \cup {<<u, g>>}
                          ELSE driftedGroup
       /\ late' = Written(u, g)
       /\ Answer(r)
       /\ UNCHANGED <<groupCount, del, driftedUser>>

\* DeleteFavorite: without the row nothing happens.
CheckDelete(r, u, g, h) ==
    /\ req[r].step = "new"
    /\ Live(u, g) /\ hole[h].exists /\ h \in row[u][g]
    /\ req' = [req EXCEPT ![r] = [New EXCEPT !.step = "delete", !.user = u,
                                              !.group = g, !.holes = {h}]]
    /\ UNCHANGED <<row, group, groupCount, hole, del, history>>

\* Both counts are lowered even if another request deleted the row meanwhile.
Delete(r) ==
    LET u == req[r].user
        g == req[r].group
        gone == req[r].holes \cap row[u][g] = {}
    IN /\ req[r].step = "delete"
       /\ \E h \in req[r].holes :
            /\ row' = [row EXCEPT ![u][g] = @ \ {h}]
            /\ group' = GroupCounted(u, g, -1)
            /\ hole' = HoleCounted(h, -1)
            /\ driftedHole' = IF gone THEN driftedHole \cup {h} ELSE driftedHole
       /\ driftedGroup' = IF gone THEN driftedGroup \cup {<<u, g>>}
                          ELSE driftedGroup
       /\ Answer(r)
       /\ UNCHANGED <<groupCount, del, driftedUser, late>>

\* ModifyFavorite.
CheckModify(r, u, g, S) ==
    /\ req[r].step = "new"
    /\ S # {} /\ Live(u, g) /\ Exist(S)
    /\ req' = [req EXCEPT ![r] = [New EXCEPT !.step = "modify", !.user = u,
                                              !.group = g, !.holes = S]]
    /\ UNCHANGED <<row, group, groupCount, hole, del, history>>

\* The rows of the group become the list and its count the length of the list;
\* no hole is counted.
Modify(r) ==
    LET u == req[r].user
        g == req[r].group
        S == req[r].holes
        old == row[u][g]
    IN /\ req[r].step = "modify"
       /\ row' = [row EXCEPT ![u][g] = S]
       /\ group' = [group EXCEPT ![u][g].count = Cardinality(S)]
       /\ driftedGroup' = driftedGroup \ {<<u, g>>}
       /\ driftedHole' = driftedHole \cup (old \ S) \cup (S \ old)
       /\ late' = Written(u, g)
       /\ Answer(r)
       /\ UNCHANGED <<groupCount, hole, del, driftedUser>>

\* MoveFavorite.
CheckMove(r, u, g, t, S) ==
    /\ req[r].step = "new"
    /\ g # t /\ S # {} /\ Live(u, g) /\ Live(u, t) /\ Exist(S)
    /\ req' = [req EXCEPT ![r] = [New EXCEPT !.step = "move", !.user = u,
                                   !.group = g, !.to = t, !.holes = S]]
    /\ UNCHANGED <<row, group, groupCount, hole, del, history>>

\* The holes that are in the group now are moved, unless one of them is in the
\* other group already: its key is taken.
Move(r) ==
    LET u == req[r].user
        g == req[r].group
        t == req[r].to
        S == req[r].holes \cap row[u][g]
    IN /\ req[r].step = "move"
       /\ S \cap row[u][t] = {}
       /\ row' = [[row EXCEPT ![u][g] = @ \ S] EXCEPT ![u][t] = @ \cup S]
       /\ group' = Moved(u, g, t, Cardinality(S))
       /\ late' = IF S = {} THEN late ELSE Written(u, t)
       /\ Answer(r)
       /\ UNCHANGED <<groupCount, hole, del, driftedGroup, driftedHole, driftedUser>>

\* A statement fails, or a key is taken, and the transaction is rolled back.
Fail(r) ==
    /\ req[r].step \notin {"new", "done"}
    /\ Answer(r)
    /\ UNCHANGED <<row, group, groupCount, hole, del, history>>

-----------------------------------------------------------------------------
(* Groups *)

\* AddFavoriteGroup; CheckDefaultFavoriteGroup is called before the answer.
CheckGroup(r, u) ==
    /\ req[r].step = "new"
    /\ \E g \in NewId(u) :
         req' = [req EXCEPT ![r] =
                   [New EXCEPT !.step = "create", !.user = u, !.group = g,
                      !.default = group[u][Default].state = "absent"]]
    /\ UNCHANGED <<row, group, groupCount, hole, del, history>>

\* ListFavoriteGroups and ModifyFavoriteGroup call it alone.
CheckDefault(r, u) ==
    /\ req[r].step = "new"
    /\ group[u][Default].state = "absent"
    /\ req' = [req EXCEPT ![r] = [New EXCEPT !.step = "default", !.user = u,
                                              !.default = TRUE]]
    /\ UNCHANGED <<row, group, groupCount, hole, del, history>>

Create(r) ==
    /\ req[r].step \in {"create", "default"}
    /\ Insert(req[r].user, {req[r].group} \cup
                           (IF req[r].default THEN {Default} ELSE {}))
    /\ Answer(r)
    /\ UNCHANGED <<row, hole, del, history>>

\* DeleteFavoriteGroup: not the default group, and none that holds a favourite.
CheckEmpty(d, u, g) ==
    /\ del[d].step = "new"
    /\ g # Default /\ row[u][g] = {}
    /\ del' = [del EXCEPT ![d] = [step |-> "empty", user |-> u, group |-> g]]
    /\ UNCHANGED <<row, group, groupCount, hole, req, history>>

\* It marks the group, a second time if it is marked already.
MarkDeleted(d) ==
    LET u == del[d].user
        g == del[d].group
    IN /\ del[d].step = "empty"
       /\ group[u][g].state # "absent"
       /\ group' = [group EXCEPT ![u][g].state = "deleted"]
       /\ driftedUser' = IF Live(u, g) THEN driftedUser ELSE driftedUser \cup {u}
       /\ del' = [del EXCEPT ![d].step = "marked"]
       /\ UNCHANGED <<row, groupCount, hole, req, driftedGroup, driftedHole, late>>

\* It deletes the rows that were added since its check, without counting them.
ClearRows(d) ==
    LET u == del[d].user
        g == del[d].group
    IN /\ del[d].step = "marked"
       /\ row' = Cleared(u, g)
       /\ driftedHole' = driftedHole \cup row[u][g]
       /\ late' = late \ {<<u, g>>}
       /\ del' = [del EXCEPT ![d].step = "cleared"]
       /\ UNCHANGED <<group, groupCount, hole, req, driftedGroup, driftedUser>>

UncountGroup(d) ==
    /\ del[d].step = "cleared"
    /\ groupCount' = [groupCount EXCEPT ![del[d].user] = @ - 1]
    /\ del' = [del EXCEPT ![d] = [NewDeletion EXCEPT !.step = "done"]]
    /\ UNCHANGED <<row, group, hole, req, history>>

\* A statement fails, or the process ends; what was done stays.
FailDelete(d) ==
    LET u == del[d].user
        g == del[d].group
    IN /\ del[d].step \in {"empty", "marked", "cleared"}
       /\ driftedUser' = IF del[d].step = "empty" THEN driftedUser
                         ELSE driftedUser \cup {u}
       /\ late' = IF del[d].step = "marked" THEN late \cup {<<u, g>>} ELSE late
       /\ del' = [del EXCEPT ![d] = [NewDeletion EXCEPT !.step = "done"]]
       /\ UNCHANGED <<row, group, groupCount, hole, req, driftedGroup, driftedHole>>

-----------------------------------------------------------------------------
\* The hole is deleted or purged.
DeleteHole(h) ==
    /\ hole[h].exists
    /\ hole' = [hole EXCEPT ![h].exists = FALSE]
    /\ UNCHANGED <<row, group, groupCount, req, del, history>>

\* Some users have asked for their groups before and have the default group.
Init ==
    /\ row = [u \in Users |-> [g \in GroupIds |-> {}]]
    /\ \E old \in SUBSET Users :
         /\ group = [u \in Users |-> [g \in GroupIds |->
                       [state |-> IF u \in old /\ g = Default THEN "live" ELSE "absent",
                        count |-> 0]]]
         /\ groupCount = [u \in Users |-> IF u \in old THEN 1 ELSE 0]
    /\ hole = [h \in Holes |-> [exists |-> TRUE, count |-> 0]]
    /\ req = [r \in Requests |-> New]
    /\ del = [d \in Deleters |-> NewDeletion]
    /\ driftedGroup = {} /\ driftedHole = {} /\ driftedUser = {} /\ late = {}

Next ==
    \/ \E r \in Requests :
         \/ \E u \in Users :
              \/ CheckGroup(r, u) \/ CheckDefault(r, u)
              \/ \E g \in GroupIds :
                   \/ \E h \in Holes : CheckAdd(r, u, g, h) \/ CheckDelete(r, u, g, h)
                   \/ \E S \in SUBSET Holes :
                        \/ CheckModify(r, u, g, S)
                        \/ \E t \in GroupIds : CheckMove(r, u, g, t, S)
         \/ Add(r) \/ Delete(r) \/ Modify(r) \/ Move(r) \/ Create(r) \/ Fail(r)
    \/ \E d \in Deleters :
         \/ \E u \in Users, g \in GroupIds : CheckEmpty(d, u, g)
         \/ MarkDeleted(d) \/ ClearRows(d) \/ UncountGroup(d) \/ FailDelete(d)
    \/ \E h \in Holes : DeleteHole(h)

Spec == Init /\ [][Next]_vars

-----------------------------------------------------------------------------
(* Properties *)

\* The users and groups that hold a hole: its rows.
Collections(h) == {x \in Users \X GroupIds : h \in row[x[1]][x[2]]}

\* The deletions that are still to uncount a group of a user.
Uncounting(u) ==
    {d \in Deleters : del[d].user = u /\ del[d].step \in {"marked", "cleared"}}

\* Rows, counters and locals keep their types: in particular no group gets an
\* id beyond the limit, live or deleted.
TypeOK ==
    /\ row \in [Users -> [GroupIds -> SUBSET Holes]]
    /\ group \in [Users -> [GroupIds -> Group]]
    /\ groupCount \in [Users -> Int]
    /\ hole \in [Holes -> [exists : BOOLEAN, count : Int]]
    /\ req \in [Requests -> Request]
    /\ del \in [Deleters -> Deletion]
    /\ driftedGroup \subseteq Users \X GroupIds
    /\ driftedHole \subseteq Holes
    /\ driftedUser \subseteq Users
    /\ late \subseteq Users \X GroupIds

\* The count of a group is the number of its rows.  What makes them differ:
\* adding a hole that is there, and two deletions of one row.  ModifyFavorite
\* repairs it.
GroupsExact ==
    \A u \in Users, g \in GroupIds :
        Live(u, g) /\ <<u, g>> \notin driftedGroup =>
            group[u][g].count = Cardinality(row[u][g])

\* The count of a hole is the number of its rows, over all users and groups,
\* under the same conditions, and unless ModifyFavorite or the deletion of a
\* group changed its rows.
HolesExact ==
    \A h \in Holes :
        hole[h].exists /\ h \notin driftedHole =>
            hole[h].count = Cardinality(Collections(h))

\* The number of groups of a user counts live groups and those whose deletion
\* is still to uncount them, unless a deletion stopped half-way or met a group
\* that was deleted already.
UsersExact ==
    \A u \in Users :
        u \notin driftedUser =>
            groupCount[u] = Cardinality(LiveGroups(u)) + Cardinality(Uncounting(u))

\* All three counts.
CountsExact == GroupsExact /\ HolesExact /\ UsersExact

\* Favourites are in live groups, where their user can reach them; but for a
\* group whose deletion is about to remove them, and for those written after the
\* group was marked, or left by a deletion that stopped.
RowsReachable ==
    \A u \in Users, g \in GroupIds :
        row[u][g] # {} =>
            \/ Live(u, g)
            \/ <<u, g>> \in late
            \/ \E d \in Deleters : /\ del[d].step = "marked"
                                   /\ del[d].user = u /\ del[d].group = g

-----------------------------------------------------------------------------
(* The inductive invariant *)

\* The groups a handler found are still in the table, live or deleted.
RequestInv(l) ==
    /\ l.step \notin {"new", "done"} => l.user \in Users
    /\ l.step \in {"add", "delete"} => \E h \in Holes : l.holes = {h}
    /\ l.step \in {"add", "delete", "modify", "move"} =>
         group[l.user][l.group].state # "absent"
    /\ l.step = "move" => l.group # l.to /\ group[l.user][l.to].state # "absent"

\* A deletion past its mark finds its group marked.
DeletionInv(l) ==
    /\ l.step \in {"empty", "marked", "cleared"} => l.user \in Users
    /\ l.step \in {"marked", "cleared"} => group[l.user][l.group].state = "deleted"

LocalsInv ==
    /\ \A r \in Requests : RequestInv(req[r])
    /\ \A d \in Deleters : DeletionInv(del[d])

\* A group that was never added has no rows.
AbsentInv ==
    \A u \in Users, g \in GroupIds :
        group[u][g].state = "absent" => row[u][g] = {}

IInv ==
    /\ TypeOK
    /\ LocalsInv
    /\ AbsentInv
    /\ GroupsExact
    /\ HolesExact
    /\ UsersExact
    /\ RowsReachable

=============================================================================
